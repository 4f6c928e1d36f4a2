------------------------------ MODULE Delivery ------------------------------
(***************************************************************************)
(* The body of a response on its way from the VM into Varnish's storage.   *)
(* A response is a list of buffers in guest memory, or it is streamed: the *)
(* guest is called for each piece.  Varnish pulls, with as much room as it *)
(* has, until the fetch processor says that this was the end.  A body is a *)
(* sequence of units numbered from 1.                                      *)
(***************************************************************************)
EXTENDS Integers, Sequences

CONSTANTS
    Responses,   \* what guests answer with
    EarlySize,   \* backend_early_release_size, in units
    MaxPull      \* bound: the room Varnish offers in a pull

\* A response that is not streamed is a range of guest memory.  The units up to
\* ends[k] are in the first k of the buffers it is made of.
Begin(ends, k) == IF k = 1 THEN 0 ELSE ends[k - 1]

ASSUME DeliveryAssumption ==
    /\ EarlySize \in Nat /\ MaxPull \in Nat \ {0}
    /\ \A r \in Responses :
          /\ r.content_length \in Nat /\ r.ends \in Seq(Nat) /\ r.streamed \in BOOLEAN
          /\ \A k \in 1..Len(r.ends) : Begin(r.ends, k) < r.ends[k]
          /\ IF r.streamed \/ r.content_length = 0 THEN r.ends = <<>>
             ELSE Len(r.ends) > 0 /\ r.ends[Len(r.ends)] = r.content_length

VARIABLES
    result,      \* content_length, the buffers, streamed
    cnt,         \* what the early copy has put into the workspace
    copied,      \* the buffers it has copied
    priv2,       \* the current buffer, or the units streamed so far
    max,         \* room left in this pull
    vfp,         \* before the delivery, copying early, inside a pull, what the
                 \* last pull returned, or a failed assertion
    stored       \* what Varnish has stored

copyVars     == <<cnt, copied>>
deliveryVars == <<result, copyVars, priv2, max, vfp, stored>>

Units(lo, hi) == [i \in 1..(hi - lo + 1) |-> lo + i - 1]

\* What a VMBuffer points to: n units from its data on, in guest memory, where
\* unit i of the response is at i, or in the workspace.
Contents(buffer, n) ==
    [i \in 1..n |-> IF buffer.mem = "guest" THEN buffer.data + i - 1 ELSE cnt[buffer.data + i - 1]]

\* gather_buffers_from_range
Buffers(ends) ==
    [k \in 1..Len(ends) |->
        [mem |-> "guest", data |-> Begin(ends, k) + 1, size |-> ends[k] - Begin(ends, k)]]

\* The result of an error without a handler.
NoBody == [content_length |-> 0, buffers |-> <<>>, streamed |-> FALSE]

DeliveryInit ==
    /\ result = NoBody /\ cnt = <<>> /\ copied = 0 /\ priv2 = 0 /\ max = 0
    /\ vfp = "none" /\ stored = <<>>

\* fetch_result: a response the guest was allowed to give.  Streaming nothing
\* throws, and so does a content type or status that is not acceptable.
fetch_result(r) ==
    /\ r.streamed => r.content_length > 0
    /\ result' = [content_length |-> r.content_length, buffers |-> Buffers(r.ends),
                  streamed |-> r.streamed]
    /\ UNCHANGED <<copyVars, priv2, max, vfp, stored>>

\* error_handling, without on_error or when that fails too.
ErrorResult == result' = NoBody /\ UNCHANGED <<copyVars, priv2, max, vfp, stored>>

\* Another request has nothing to do with the response of the last.
Forget ==
    /\ result' = NoBody /\ cnt' = <<>> /\ copied' = 0 /\ priv2' = 0 /\ max' = 0
    /\ vfp' = "none" /\ stored' = <<>>

\* A short response is copied early, if the workspace has room for it.  (An
\* empty one gets an empty buffer, which nothing reads.)
CopiesEarly ==
    /\ vfp \in {"none", "copy"}
    /\ result.content_length < EarlySize /\ result.content_length > 0

\* One turn of the loop for each buffer.
CopyBuffer ==
    /\ CopiesEarly
    /\ copied < Len(result.buffers)
    /\ LET current == result.buffers[copied + 1]
       IN  cnt' = cnt \o Contents(current, current.size)
    /\ copied' = copied + 1
    /\ vfp' = "copy"
    /\ UNCHANGED <<result, priv2, max, stored>>

\* "assert(len == result->content_length)": a streamed response is as short as it
\* says and has no buffers.
CopyAsserts ==
    /\ CopiesEarly
    /\ copied = Len(result.buffers) /\ Len(cnt) # result.content_length
    /\ vfp' = "assert"
    /\ UNCHANGED <<result, copyVars, priv2, max, stored>>

\* kvmbe_write_response and vfp_init, of what the guest answered with, or after
\* the early copy, which leaves one buffer in the workspace.
WriteResponse ==
    /\ \/ vfp = "none" /\ UNCHANGED result
       \/ /\ vfp = "copy" /\ copied = Len(result.buffers) /\ Len(cnt) = result.content_length
          /\ result' = [result EXCEPT !.buffers = <<[mem |-> "ws", data |-> 1, size |-> Len(cnt)]>>]
    /\ vfp' = "ok" /\ priv2' = 0
    /\ UNCHANGED <<copyVars, max, stored>>

\* Varnish asks for more.
Pull ==
    /\ vfp = "ok"
    /\ \/ /\ result.content_length = 0
          /\ vfp' = "end"
          /\ UNCHANGED max
       \/ /\ result.content_length > 0
          /\ vfp' = "pull"
          /\ \E n \in 1..MaxPull : max' = n
    /\ UNCHANGED <<result, copyVars, priv2, stored>>

Least(m, n) == IF m > n THEN n ELSE m

\* (bug) The data pointer of the buffer stays where it was.
PullsSame ==
    LET current == result.buffers[priv2 + 1]
        len  == Least(current.size, max)
        next == IF current.size = len THEN priv2 + 1 ELSE priv2
    IN  /\ vfp = "pull" /\ ~result.streamed
        /\ stored' = stored \o Contents(current, len)
        /\ result' = [result EXCEPT !.buffers[priv2 + 1] = [current EXCEPT !.size = @ - len]]
        /\ priv2' = next
        /\ max' = max - len
        /\ vfp' = IF next = Len(result.buffers) THEN "end" ELSE IF max = len THEN "ok" ELSE "pull"
        /\ UNCHANGED copyVars

\* One turn of the loop in kvmfp_pull.
kvmfp_pull ==
    LET current == result.buffers[priv2 + 1]
        len  == Least(current.size, max)
        next == IF current.size = len THEN priv2 + 1 ELSE priv2
    IN  /\ vfp = "pull" /\ ~result.streamed
        /\ stored' = stored \o Contents(current, len)
        /\ result' = [result EXCEPT !.buffers[priv2 + 1] =
                         [current EXCEPT !.data = @ + len, !.size = @ - len]]
        /\ priv2' = next
        /\ max' = max - len
        /\ vfp' = IF next = Len(result.buffers) THEN "end" ELSE IF max = len THEN "ok" ELSE "pull"
        /\ UNCHANGED copyVars

\* One turn of the loop in kvmfp_streaming_pull, in which the guest delivers n
\* units, of which no more are taken than there is room for.
kvmfp_streaming_pull(n) ==
    LET len == Least(n, max)
    IN  /\ vfp = "pull" /\ result.streamed /\ len > 0
        /\ stored' = stored \o Units(priv2 + 1, priv2 + len)
        /\ priv2' = priv2 + len
        /\ max' = max - len
        /\ vfp' = IF priv2 + len = result.content_length THEN "end"
                  ELSE IF max = len THEN "ok" ELSE "pull"
        /\ UNCHANGED <<result, copyVars>>

\* It delivers nothing.
Stalls ==
    /\ vfp = "pull" /\ result.streamed
    /\ vfp' = "error"
    /\ UNCHANGED <<result, copyVars, priv2, max, stored>>

(***************************************************************************)
(* Properties.                                                             *)
(***************************************************************************)
\* The stored body is the beginning of the response, in order and with nothing
\* twice, however buffers and room are cut; when the fetch processor says END
\* it is all of it, as long as the Content-Length that was sent before; and a
\* pull that wants to be called again has used all the room it had.  kvmfp_pull
\* is called as it asserts, "vfe->priv2 < (ssize_t)result->bufcount", and the
\* copy of a response that is not streamed ends as it asserts.
BodyIsWhole ==
    /\ stored = Units(1, Len(stored))
    /\ vfp = "end" => Len(stored) = result.content_length
    /\ vfp = "ok" => max = 0
    /\ vfp = "assert" => result.streamed
    /\ vfp = "ok" /\ ~result.streamed /\ result.content_length > 0 => priv2 < Len(result.buffers)
=============================================================================

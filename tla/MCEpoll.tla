------------------------------ MODULE MCEpoll ------------------------------
(***************************************************************************)
(* Two connections and two read buffers.  More than a buffer's worth is    *)
(* sent on the first, to which the guest writes; the second only connects. *)
(***************************************************************************)
EXTENDS Epoll

CONSTANTS c1, c2

MCMaxSent == [c \in Conns |-> IF c = c1 THEN 3 ELSE 0]
=============================================================================

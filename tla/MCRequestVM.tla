----------------------------- MODULE MCRequestVM -----------------------------
(***************************************************************************)
(* One VM and three regexes, one of them the program's; bodies of two      *)
(* units and responses of up to three.                                     *)
(***************************************************************************)
EXTENDS RequestVM

CONSTANTS h1, h2, h3

Kind(grp, eph, res, str, po, ch, co, fr, n, w) ==
    [group_ephemeral |-> grp, ephemeral |-> eph, resumes |-> res,
     streams |-> str, reset_fails |-> FALSE, posts |-> po, chained |-> ch,
     compiles |-> co, frees |-> fr, room |-> n, warmups |-> w]

\* Ephemeral VMs that compile and free, with and without room for every regex
\* and twice in a chain; or whose requests have bodies; or that are twice in a
\* chain and stream, in groups that are ephemeral or not.  Lasting VMs that run
\* out of room for regexes, or keep the area for bodies, or are in chains.
AllKinds ==
    {Kind(TRUE, TRUE, res, FALSE, FALSE, ch, TRUE, res, IF ch THEN 2 ELSE 3, 0) : res, ch \in BOOLEAN}
       \cup {Kind(TRUE, TRUE, res, str, TRUE, res /\ ~str, FALSE, FALSE, 1, 1) : res, str \in BOOLEAN}
       \cup {Kind(grp, TRUE, TRUE, TRUE, FALSE, TRUE, FALSE, FALSE, 1, 1) : grp \in BOOLEAN}
       \cup {Kind(FALSE, FALSE, res, FALSE, FALSE, FALSE, TRUE, TRUE, 2, 2) : res \in BOOLEAN}
       \cup {Kind(FALSE, FALSE, res, FALSE, TRUE, FALSE, FALSE, FALSE, 1, 0) : res \in BOOLEAN}
       \cup {Kind(FALSE, FALSE, TRUE, FALSE, FALSE, TRUE, FALSE, FALSE, 1, 0)}

\* A response, by where its buffers end.
Response(ends) ==
    [content_length |-> IF ends = <<>> THEN 0 ELSE ends[Len(ends)], ends |-> ends, streamed |-> FALSE]

\* Nothing, a short response and a longer one, each in two buffers, and a short
\* and a longer one that are streamed.
AllResponses ==
    {Response(<<>>), Response(<<1, 2>>), Response(<<2, 3>>)}
       \cup {[content_length |-> n, ends |-> <<>>, streamed |-> TRUE] : n \in {2, 3}}
=============================================================================

------------------------ MODULE MCOperationRegistry ------------------------
(***************************************************************************)
(* A small instance of OperationRegistry for TLC.  Every kind of request   *)
(* is there, two or three slots at a time: the roster of a behaviour is    *)
(* chosen at the start and the other slots never get a request.            *)
(***************************************************************************)
EXTENDS OperationRegistry

CONSTANTS q1, q2, i1, m1, b1

VARIABLE roster

Rosters == {{q1, i1, m1}, {m1, b1}, {q1, q2}}

\* Two of the ingest class, so that two requests compete for the corpus lease; one
\* of the others, so that a second query is rejected.
MCCapacity == [c \in Classes |-> IF c = "ingest" THEN 2 ELSE 1]

RosterInit == Init /\ roster \in Rosters

RosterNext ==
    /\ Next
    /\ \A op \in Ops \ roster : pc'[op] = "new"
    /\ UNCHANGED roster

\* A slot without a request has no fair step that is enabled.
RosterSpec == RosterInit /\ [][RosterNext]_<<vars, roster>> /\ Fairness
=============================================================================

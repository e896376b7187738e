------------------------------- MODULE Lookup -------------------------------
(***************************************************************************)
(* What dnsquery.c promises its callers: a query that was asked is called  *)
(* back once, with addresses or with an error, unless it is cancelled. An  *)
(* outcome is "unasked", "asked", "hosts", "error" or "cancelled"; a       *)
(* second call, or one after a cancellation, would make it "again", and no *)
(* step leads there.                                                       *)
(***************************************************************************)
CONSTANT Queries

VARIABLE outcome

Init == outcome = [q \in Queries |-> "unasked"]

Ask(q) ==
    /\ outcome[q] = "unasked"
    /\ outcome' = [outcome EXCEPT ![q] = "asked"]

Asked == {q \in Queries : outcome[q] = "asked"}

\* One event may answer several queries, with addresses those of H and with an
\* error those of E, and their callbacks cancel others, those of C.
Settle(H, E, C) ==
    outcome' = [q \in Queries |-> IF q \in H THEN "hosts"
                                ELSE IF q \in E THEN "error"
                                ELSE IF q \in C THEN "cancelled"
                                ELSE outcome[q]]

Next ==
    \/ \E q \in Queries : Ask(q)
    \/ \E H \in SUBSET Asked : \E E \in SUBSET (Asked \ H) :
          \E C \in SUBSET (Asked \ (H \cup E)) : Settle(H, E, C)

Spec == Init /\ [][Next]_outcome
=============================================================================

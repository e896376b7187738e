------------------------------ MODULE ByteFifo ------------------------------
(***************************************************************************)
(* What a byte buffer promises its two users: the writer appends chunks,   *)
(* the reader takes bytes from the front, and every byte comes out exactly *)
(* once and in the order in which it went in.  circbuffer.c implements it. *)
(***************************************************************************)
EXTENDS Naturals, Sequences

CONSTANTS
    Bytes,      \* the values a byte can have
    MaxChunk    \* the longest chunk a writer appends at once

VARIABLE q          \* the bytes stored and not yet read, oldest first

Init == q = <<>>

Put == \E len \in 0..MaxChunk : \E src \in [1..len -> Bytes] : q' = q \o src

Take == \E n \in 0..Len(q) : q' = SubSeq(q, n + 1, Len(q))

Next == Put \/ Take

Spec == Init /\ [][Next]_q
=============================================================================

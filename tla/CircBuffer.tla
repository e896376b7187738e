----------------------------- MODULE CircBuffer -----------------------------
(***************************************************************************)
(* libpurple/circbuffer.c: the growable ring of bytes in which the XMPP,   *)
(* IRC, BOSH and Bonjour connections keep what the socket would not take.  *)
(*                                                                         *)
(* A PurpleCircBuffer is a record.  The two pointers are kept as offsets   *)
(* from the start of the allocation; a buffer that was never appended to   *)
(* has no allocation (buflen = 0, both pointers NULL), and its offsets are *)
(* 0.  inptr may rest one past the last byte; outptr never does.           *)
(***************************************************************************)
EXTENDS Integers, Sequences

CONSTANTS
    Bytes,      \* the values of a byte
    Junk,       \* what g_realloc leaves in the memory it adds
    GrowSize,   \* buf->growsize
    MaxChunk,   \* the longest chunk one append is given
    MaxUsed     \* model bound: appends stop when this much is unread

ASSUME GrowSizeAssumption == GrowSize \in Nat \ {0}
ASSUME BoundsAssumption == MaxChunk \in Nat /\ MaxUsed \in Nat
ASSUME JunkAssumption == Junk \notin Bytes

Smaller(m, n) == IF m <= n THEN m ELSE n

-----------------------------------------------------------------------------
(* The operations of circbuffer.c on one buffer b.  The operators marked    *)
(* "slip" are wrong versions of the one that follows, each a mistake that   *)
(* some property below must catch; nothing else uses them.                  *)

\* purple_circ_buffer_new: no memory until the first append.
NewBuffer == [buffer |-> [i \in {} |-> Junk], buflen |-> 0, bufused |-> 0,
              inptr |-> 0, outptr |-> 0]

\* The loop of grow_circ_buffer, entered when len bytes do not fit: the length
\* grows in steps of growsize until they do.
GrownLen(b, len) ==
    LET missing == b.bufused + len - b.buflen
    IN  b.buflen + ((missing + GrowSize - 1) \div GrowSize) * GrowSize

\* Slip: the test of a full buffer, whose pointers meet, is forgotten.
WrappedIfBefore(b) == b.inptr < b.outptr

\* The data wraps: inptr stands before outptr, or at it with bytes unread.
Wrapped(b) == \/ b.inptr < b.outptr
              \/ b.inptr = b.outptr /\ b.bufused > 0

\* grow_circ_buffer: realloc, then move the wrapped part of the data, or as
\* much of it as fits, into the new memory and slide the rest to the front.
GrowTo(b, newlen) ==
    LET shift_n == IF Wrapped(b) THEN Smaller(newlen - b.buflen, b.inptr) ELSE 0
        rest    == b.inptr - shift_n
    IN  [buflen  |-> newlen,
         bufused |-> b.bufused,
         outptr  |-> b.outptr,
         buffer  |-> [i \in 0..(newlen - 1) |->
                 IF i >= b.buflen
                 THEN IF i - b.buflen < shift_n THEN b.buffer[i - b.buflen]
                                                ELSE Junk
                 ELSE IF Wrapped(b) /\ i < rest THEN b.buffer[i + shift_n]
                                                ELSE b.buffer[i]],
         inptr   |-> IF ~Wrapped(b) THEN b.inptr
                     ELSE IF shift_n < b.inptr THEN rest
                     ELSE b.buflen + b.inptr]

\* purple_circ_buffer_append, when there is already room for src: up to the
\* end of the memory, and what is left over at its start.
Store(b, src) ==
    LET len        == Len(src)
        len_stored == IF b.inptr >= b.outptr
                      THEN Smaller(len, b.buflen - b.inptr)
                      ELSE len
    IN  [buflen  |-> b.buflen,
         bufused |-> b.bufused + len,
         outptr  |-> b.outptr,
         buffer  |-> [i \in 0..(b.buflen - 1) |->
                 IF i < len - len_stored THEN src[len_stored + i + 1]
                 ELSE IF i >= b.inptr /\ i < b.inptr + len_stored
                      THEN src[i - b.inptr + 1]
                 ELSE b.buffer[i]],
         inptr   |-> IF len_stored < len THEN len - len_stored
                                         ELSE b.inptr + len_stored]

\* purple_circ_buffer_append
AppendBytes(b, src) ==
    IF b.buflen - b.bufused < Len(src)
    THEN Store(GrowTo(b, GrownLen(b, Len(src))), src)
    ELSE Store(b, src)

\* Slip: a full buffer, whose pointers meet, offers nothing.
MaxReadStrict(b) == IF b.bufused = 0 THEN 0
                    ELSE IF b.outptr > b.inptr THEN b.buflen - b.outptr
                    ELSE b.inptr - b.outptr

\* purple_circ_buffer_get_max_read: how many bytes from outptr on a reader
\* may take in one go.
MaxRead(b) == IF b.bufused = 0 THEN 0
              ELSE IF b.outptr >= b.inptr THEN b.buflen - b.outptr
              ELSE b.inptr - b.outptr

\* Slip: the reader wraps one byte late.
MarkReadLate(b, n) == [b EXCEPT
    !.bufused = @ - n, !.outptr = IF @ + n > b.buflen THEN 0 ELSE @ + n]

\* purple_circ_buffer_mark_read, for n <= MaxRead(b).
MarkRead(b, n) ==
    [buflen |-> b.buflen, buffer |-> b.buffer, inptr |-> b.inptr,
     bufused |-> b.bufused - n,
     outptr |-> IF b.outptr + n = b.buflen THEN 0 ELSE b.outptr + n]

\* An append of len bytes overruns a ring that was drained with inptr at its
\* end: mark_read took outptr back to the start, but not inptr, and when the
\* ring then grows the bytes are stored where the reader does not start.
Overruns(b, len) ==
    /\ b.bufused = 0 /\ b.outptr = 0 /\ b.inptr = b.buflen
    /\ b.buflen > 0 /\ len > b.buflen

\* The bytes a reader is handed: the first n from outptr on.
Readable(b, n) == [i \in 1..n |-> b.buffer[b.outptr + i - 1]]

-----------------------------------------------------------------------------
(* One buffer, with its writer and its reader.                             *)

VARIABLE cb

Init == cb = NewBuffer

Put == \E len \in 0..MaxChunk : \E src \in [1..len -> Bytes] :
           /\ cb.bufused + len <= MaxUsed
           /\ cb' = AppendBytes(cb, src)

\* mark_read refuses (returns FALSE) what exceeds get_max_read.
Take == \E n \in 0..MaxRead(cb) : cb' = MarkRead(cb, n)

Next == Put \/ Take

Spec == Init /\ [][Next]_cb

\* Writers whose chunks never exceed the growth step (the IRC connection:
\* lines of at most 512 bytes into a buffer that grows by 512).
ChunksFitStep == MaxChunk <= GrowSize

-----------------------------------------------------------------------------
(* Properties.                                                             *)

\* The i-th unread byte (from 0) is in this place of the ring.
Slot(b, i) == IF b.outptr + i < b.buflen THEN b.outptr + i
                                         ELSE b.outptr + i - b.buflen

\* The unread bytes, oldest first.
Contents(b) == [i \in 1..b.bufused |-> b.buffer[Slot(b, i - 1)]]

\* Type invariant: the pointers stay inside the allocation (inptr may be one
\* past its end, outptr not), and the count inside its length.
TypeOK ==
    /\ cb.buflen \in Nat
    /\ cb.bufused \in 0..cb.buflen
    /\ cb.inptr \in 0..cb.buflen
    /\ cb.outptr \in 0..cb.buflen
    /\ cb.buflen > 0 => cb.outptr < cb.buflen
    /\ cb.buffer \in [0..(cb.buflen - 1) -> Bytes \cup {Junk}]

\* The count and the two pointers agree: inptr is bufused bytes after outptr
\* around the ring.  The third disjunct is the buffer that was drained when
\* inptr stood at its end: mark_read takes outptr back to the start but leaves
\* inptr behind.
PointersAgree ==
    \/ cb.inptr = cb.outptr + cb.bufused
    \/ cb.inptr = cb.outptr + cb.bufused - cb.buflen
    \/ cb.bufused = 0 /\ cb.outptr = 0 /\ cb.inptr = cb.buflen

\* What get_max_read offers is unread data: never more than is stored, and
\* something whenever anything is stored (the send callbacks remove their
\* write watcher when it returns 0).
OfferIsUnread ==
    /\ MaxRead(cb) <= cb.bufused
    /\ cb.bufused > 0 => MaxRead(cb) > 0

\* A reader is never handed memory that no append wrote.
NoJunkRead == \A i \in 1..cb.bufused : Contents(cb)[i] # Junk

\* The buffer is a FIFO of bytes: across every growth, wrap and partial read,
\* each byte appended is read once, in order.
Fifo == INSTANCE ByteFifo WITH q <- Contents(cb)
IsFifo == Fifo!Spec
=============================================================================

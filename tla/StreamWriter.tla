---------------------------- MODULE StreamWriter ----------------------------
(***************************************************************************)
(* protocols/jabber/jabber.c: how an XMPP connection writes its stanzas.   *)
(* do_jabber_send_raw tries the socket at once; what the socket does not   *)
(* take goes to a PurpleCircBuffer, and a write watcher (writeh) is added  *)
(* to the main loop, whose callback, jabber_send_cb, drains the buffer.    *)
(* While the watcher exists every new stanza goes to the buffer. IRC's     *)
(* irc_send_len and irc_send_cb are the same code with irc->outbuf.        *)
(*                                                                         *)
(* The bytes the protocol sends are numbered 1, 2, 3... so that a byte     *)
(* lost, repeated or out of order on the wire shows. A stanza may be of    *)
(* any length, also longer than the step by which the buffer grows; the    *)
(* history variable overrun tells when the ring stored one where its       *)
(* reader does not start (CircBuffer's Overruns), and from there on the    *)
(* model has only the close. The operators marked "slip" are wrong         *)
(* versions of the one that follows, each a mistake that some property     *)
(* below must catch; nothing else uses them.                               *)
(***************************************************************************)
EXTENDS Integers, Sequences

CONSTANTS
    GrowSize,   \* the growth step of js->write_buffer (512 in jabber_login)
    MaxChunk,   \* the longest stanza
    MaxSent     \* model bound: bytes the protocol sends in all

ASSUME StepAssumption == GrowSize \in Nat \ {0}
ASSUME ChunkAssumption == MaxChunk \in Nat \ {0} /\ MaxSent \in Nat

VARIABLES
    cb,         \* js->write_buffer
    writeh,     \* a write watcher is installed
    wire,       \* the bytes the socket accepted, in order
    sent,       \* how many bytes do_jabber_send_raw was given
    lost,       \* purple_connection_error_reason was called
    open,       \* jabber_close has not run
    overrun     \* history: an append overran a drained buffer

vars == <<cb, writeh, wire, sent, lost, open, overrun>>

CB == INSTANCE CircBuffer
        WITH Bytes <- Nat \ {0}, Junk <- 0, MaxUsed <- MaxSent

-----------------------------------------------------------------------------
Init ==
    /\ cb = CB!NewBuffer
    /\ writeh = FALSE
    /\ wire = <<>>
    /\ sent = 0
    /\ lost = FALSE
    /\ open = TRUE
    /\ overrun = FALSE

\* The next n bytes the protocol has to send.
Chunk(n) == [i \in 1..n |-> sent + i]

\* jabber_do_send: write() or purple_ssl_write() takes the first n of bs.
Written(bs, n) == wire' = wire \o SubSeq(bs, 1, n)

\* purple_circ_buffer_append of bs.
Buffered(bs) ==
    /\ cb' = CB!AppendBytes(cb, bs)
    /\ overrun' = CB!Overruns(cb, Len(bs))

\* Slip: the rest of a stanza is buffered, but nobody is set to watch.
SendNowUnwatched(bs) ==
    /\ ~writeh
    /\ \E n \in 0..Len(bs) :
        /\ Written(bs, n)
        /\ IF n < Len(bs) THEN Buffered(SubSeq(bs, n + 1, Len(bs)))
                          ELSE UNCHANGED <<cb, overrun>>
    /\ UNCHANGED <<writeh, lost>>

\* do_jabber_send_raw when no watcher is installed: the socket is tried, and
\* what it leaves (all of it when it says EAGAIN, n = 0) is buffered.
SendNow(bs) ==
    /\ ~writeh
    /\ \E n \in 0..Len(bs) :
        /\ Written(bs, n)
        /\ writeh' = (n < Len(bs))
        /\ IF n < Len(bs) THEN Buffered(SubSeq(bs, n + 1, Len(bs)))
                          ELSE UNCHANGED <<cb, overrun>>
    /\ UNCHANGED lost

\* Slip: the socket is tried although older bytes are waiting.
SendLaterEager(bs) ==
    /\ writeh
    /\ \E n \in 0..Len(bs) :
        /\ Written(bs, n)
        /\ Buffered(SubSeq(bs, n + 1, Len(bs)))
    /\ UNCHANGED <<writeh, lost>>

\* do_jabber_send_raw behind a watcher: the socket is not touched.
SendLater(bs) ==
    /\ writeh
    /\ Buffered(bs)
    /\ UNCHANGED <<writeh, wire, lost>>

\* do_jabber_send_raw when the socket reports an error: the stanza is dropped
\* and the connection is reported lost.
SendFails ==
    /\ ~writeh
    /\ lost' = TRUE
    /\ UNCHANGED <<cb, writeh, wire, overrun>>

\* do_jabber_send_raw
Send ==
    /\ open /\ ~overrun
    /\ \E len \in 1..MaxChunk :
        /\ sent + len <= MaxSent
        /\ sent' = sent + len
        /\ \/ SendNow(Chunk(len))
           \/ SendLater(Chunk(len))
           \/ SendFails
    /\ UNCHANGED open

\* jabber_send_cb with nothing to read: the watcher is removed.
SendCbIdle ==
    /\ open /\ ~overrun /\ writeh
    /\ CB!MaxRead(cb) = 0
    /\ writeh' = FALSE
    /\ UNCHANGED <<cb, wire, sent, lost, open, overrun>>

\* Slips: the watcher goes once the bytes on offer are written, though more
\* wait behind the wrap; the bytes up to the end of the memory are written,
\* unread or not.
SendCbStopsAtWrap ==
    /\ open /\ ~overrun /\ writeh
    /\ \E n \in 1..CB!MaxRead(cb) :
        /\ Written(CB!Readable(cb, CB!MaxRead(cb)), n)
        /\ cb' = CB!MarkRead(cb, n)
        /\ writeh' = (n < CB!MaxRead(cb))
    /\ UNCHANGED <<sent, lost, open, overrun>>

SendCbToTheEnd ==
    /\ open /\ ~overrun /\ writeh
    /\ \E n \in 1..(cb.buflen - cb.outptr) :
        /\ Written(CB!Readable(cb, cb.buflen - cb.outptr), n)
        /\ cb' = CB!MarkRead(cb, n)
    /\ UNCHANGED <<writeh, sent, lost, open, overrun>>

\* jabber_send_cb: the socket takes some of the contiguous bytes on offer.
SendCbWrites ==
    /\ open /\ ~overrun /\ writeh
    /\ \E n \in 1..CB!MaxRead(cb) :
        /\ Written(CB!Readable(cb, CB!MaxRead(cb)), n)
        /\ cb' = CB!MarkRead(cb, n)
    /\ UNCHANGED <<writeh, sent, lost, open, overrun>>

\* jabber_send_cb: the socket reports an error; nothing is marked read and
\* the watcher stays until the connection is closed.
SendCbFails ==
    /\ open /\ ~overrun /\ writeh
    /\ CB!MaxRead(cb) > 0
    /\ lost' = TRUE
    /\ UNCHANGED <<cb, writeh, wire, sent, open, overrun>>

\* jabber_close, from the disconnect timer after an error or because the user
\* left: a last </stream:stream>, of any length here, is sent, then the buffer
\* and the watcher go.  What is still buffered never reaches the server.
Close ==
    /\ open
    /\ open' = FALSE
    /\ \E len \in 1..MaxChunk :
        /\ sent' = sent + len
        /\ \/ ~writeh /\ \E n \in 0..len : Written(Chunk(len), n)
           \/ UNCHANGED wire
    /\ cb' = CB!NewBuffer
    /\ writeh' = FALSE
    /\ UNCHANGED <<lost, overrun>>

Next == Send \/ SendCbIdle \/ SendCbWrites \/ SendCbFails \/ Close

\* The main loop calls jabber_send_cb whenever the socket is writable; a server
\* that keeps reading makes it writable again and again.
Fairness == WF_vars(SendCbWrites) /\ WF_vars(SendCbIdle)

Spec == Init /\ [][Next]_vars /\ Fairness

-----------------------------------------------------------------------------
(* Properties.                                                             *)

Numbers(n) == [i \in 1..n |-> i]

\* Type invariant, with the buffer's own (the pointers stay in its memory).
TypeOK ==
    /\ ~overrun => CB!TypeOK
    /\ writeh \in BOOLEAN /\ lost \in BOOLEAN
    /\ open \in BOOLEAN /\ overrun \in BOOLEAN
    /\ sent \in 0..(MaxSent + MaxChunk)
    /\ wire \in Seq(Nat \ {0})

\* Until an error is reported or the ring is overrun, what is on the wire
\* followed by what is in the buffer is everything sent, in order, however long
\* the stanzas: none overtakes the buffered rest of an earlier one
\* (do_jabber_send_raw's test of writeh), or is torn where the ring grows.
InOrder == open /\ ~lost /\ ~overrun =>
    wire \o CB!Contents(cb) = Numbers(sent)

\* Nothing sits in the buffer with nobody to drain it, overrun or not:
\* jabber_send_cb drops its watcher only when get_max_read says there is nothing
\* left.
BufferedIsWatched == cb.bufused > 0 => writeh

\* Every byte given to do_jabber_send_raw reaches the socket, unless the
\* connection fails, is closed or overruns the ring first.
EverythingIsWritten ==
    \A n \in 1..MaxSent :
        sent >= n ~> (Len(wire) >= n \/ lost \/ ~open \/ overrun)
=============================================================================

----------------------------- MODULE XferProofs -----------------------------
(***************************************************************************)
(* Proofs about Xfer: a transfer's bytes arrive in order and all of them,  *)
(* nobody's readiness is forgotten, and its references suffice, for files  *)
(* and buffers of any size.  A transfer goes through phases, and in each   *)
(* it is known what is open, who holds a reference and where the bytes     *)
(* are; the lemmas follow the functions that the handlers are made of.     *)
(***************************************************************************)
EXTENDS Xfer, TLAPS, SequenceTheorems

\* No freed memory was used, no connection outlived the transfer, and the
\* protocol has not yet freed what it keeps of the transfer.
Intact(t) == ~t.misused /\ ~t.orphaned /\ t.xd = "alive"

\* Nothing is there that could call back but Pidgin's list.
Quiet(t) == /\ t.dialog = "none" /\ t.listening = "no"
            /\ ~t.inpa /\ ~t.connecting /\ ~t.watcher

\* WholeFile, of any state of the transfer.
WholeOut(t) == /\ t.out = BytesFrom(0, Len(t.out))
               /\ t.status = "done" /\ ~t.overacked => Len(t.out) = Size

\* The transfer is over, or was never started, and whoever is still to let go of
\* it in the handler under way has k references.
GoneBut(t, k) ==
    /\ Quiet(t) /\ ~t.misused /\ ~t.orphaned /\ WholeOut(t)
    /\ t.status # "started"
    /\ t.ref >= k /\ (t.in_list => t.ref > k /\ Over(t))

\* The same between two handlers.
Gone(t) == GoneBut(t, 0)

-----------------------------------------------------------------------------
(* The types of the fields, by name: what is not expanded need not be split *)
(* into cases.                                                             *)

Types      == {"send", "receive"}
Uis        == {"files", "moderating"}
Statuses   == {"not_started", "accepted", "started", "done",
               "cancel_local", "cancel_remote"}
Refs       == 0..4
Dialogs    == {"none", "ask", "choose"}
Lives      == {"alive", "freed"}
Listenings == {"no", "opening", "open"}
Fds        == {"none", "open", "closed"}
Readies    == SUBSET {"ui", "prpl"}
Sizes      == 1..FT_MAX_BUFFER_SIZE
Amounts    == 0..Size
Contents   == Seq(Bytes)
Peers      == {"there", "gone"}
Bools      == BOOLEAN

\* State in terms of the named types.
LEMMA StateIs ==
    State = [type : Types, ui : Uis, auto_clear : Bools, status : Statuses,
             ref : Refs, dialog : Dialogs, in_list : Bools, xd : Lives,
             listening : Listenings, inpa : Bools, connecting : Bools,
             watcher : Bools, fd : Fds, dest_fp : Bools, ready : Readies,
             current_buffer_size : Sizes, bytes_sent : Amounts,
             bytes_remaining : Amounts, buffer : Contents, taken : Amounts,
             out : Contents, peer : Peers, misused : Bools,
             overacked : Bools, orphaned : Bools, stuck : Bools]
BY DEF State, Types, Uis, Statuses, Refs, Dialogs, Lives, Listenings, Fds,
       Readies, Sizes, Amounts, Contents, Peers, Bools

\* What the handlers write into the fields is of the field's type.
LEMMA Values ==
    /\ {"started", "done", "cancel_local", "cancel_remote"} \subseteq Statuses
    /\ {"none", "choose"} \subseteq Dialogs /\ {"open", "closed"} \subseteq Fds
    /\ Listenings = {"no", "opening", "open"} /\ "freed" \in Lives
    /\ TRUE \in Bools /\ FALSE \in Bools /\ {} \in Readies /\ "gone" \in Peers
    /\ \A r \in Readies : r \cup {"ui"} \in Readies /\ r \cup {"prpl"} \in Readies
BY DEF Statuses, Dialogs, Fds, Listenings, Lives, Bools, Readies, Peers

\* irc_dccsend_send_destroy and irc_dccsend_recv_destroy keep the type.
LEMMA ClosedType ==
    ASSUME NEW t \in State
    PROVE  Closed(t) \in State
BY ZenonT(60) DEF State, Closed

\* So does what purple_xfer_end and the cancels release.
LEMMA ReleasedType ==
    ASSUME NEW t \in State
    PROVE  Released(t) \in State
<1>1. FALSE \in Bools /\ (IF t.fd = "open" THEN "closed" ELSE t.fd) \in Fds
  BY StateIs, Values
<1> QED BY <1>1, StateIs DEF Released

\* What the first half of a cancel leaves of every field that matters later.
LEMMA StoppedState ==
    ASSUME NEW t \in State, NEW status \in {"cancel_local", "cancel_remote"}
    PROVE  LET u == Stopped(t, status) IN
           /\ u \in State
           /\ u.status = status /\ u.dialog = "none" /\ u.listening = "no"
           /\ u.type = t.type /\ u.auto_clear = t.auto_clear
           /\ u.ref = t.ref /\ u.in_list = t.in_list
           /\ ~u.inpa /\ ~u.watcher /\ u.connecting = t.connecting
           /\ u.misused = (t.misused \/ t.xd = "freed")
           /\ u.orphaned = (t.orphaned \/ t.connecting)
           /\ u.bytes_remaining = 0 /\ u.taken = t.taken
           /\ u.out = t.out
<1> DEFINE zero == 0
           u == Stopped(t, status)
<1>0. zero \in 0..Size
  BY XferAssumption
<1>1. u \in State
  <2> DEFINE a == [t EXCEPT !.status = status, !.dialog = "none"]
             r == Released(Closed(a))
             o == r.orphaned \/ t.connecting
             v == [r EXCEPT !.bytes_remaining = zero]
  <2>1. a \in State
    BY DEF State
  <2>2. r \in State
    BY <2>1, ClosedType, ReleasedType
  <2>3. o \in BOOLEAN /\ u = [v EXCEPT !.orphaned = o]
    BY <2>2 DEF State, Stopped
  <2> HIDE DEF r, zero, o
  <2>4. v \in State
    BY <2>2, <1>0 DEF State
  <2> HIDE DEF v
  <2>5. [v EXCEPT !.orphaned = o] \in State
    BY <2>3, <2>4 DEF State
  <2> QED BY <2>3, <2>5
<1>2. /\ u.status = status /\ u.dialog = "none" /\ u.listening = "no"
      /\ u.type = t.type /\ u.auto_clear = t.auto_clear
      /\ u.ref = t.ref /\ u.in_list = t.in_list
  BY DEF State, Stopped, Released, Closed
<1>3. /\ ~u.inpa /\ ~u.watcher /\ u.connecting = t.connecting
      /\ u.misused = (t.misused \/ t.xd = "freed")
      /\ u.orphaned = (t.orphaned \/ t.connecting)
  BY DEF State, Stopped, Released, Closed
<1>4. /\ u.bytes_remaining = 0 /\ u.taken = t.taken
      /\ u.out = t.out
  BY DEF State, Stopped, Released, Closed
<1> QED BY <1>1, <1>2, <1>3, <1>4

\* purple_xfer_unref of a transfer that is not its last reference's, or has not
\* started, takes a reference and nothing else but an open dialog.
LEMMA UnrefState ==
    ASSUME NEW t \in State, t.ref > 0, t.ref > 1 \/ t.status # "started"
    PROVE  LET u == Unref(t) IN
           /\ u \in State
           /\ u.ref = t.ref - 1 /\ u.dialog \in {t.dialog, "none"}
           /\ u.type = t.type /\ u.ui = t.ui /\ u.auto_clear = t.auto_clear
           /\ u.status = t.status /\ u.in_list = t.in_list /\ u.xd = t.xd
           /\ u.listening = t.listening /\ u.inpa = t.inpa
           /\ u.connecting = t.connecting /\ u.watcher = t.watcher
           /\ u.fd = t.fd /\ u.dest_fp = t.dest_fp /\ u.ready = t.ready
           /\ u.bytes_sent = t.bytes_sent /\ u.bytes_remaining = t.bytes_remaining
           /\ u.current_buffer_size = t.current_buffer_size
           /\ u.buffer = t.buffer /\ u.taken = t.taken /\ u.out = t.out
           /\ u.misused = t.misused /\ u.orphaned = t.orphaned
           /\ u.stuck = t.stuck /\ u.overacked = t.overacked
<1> DEFINE r == t.ref - 1
           a == [t EXCEPT !.ref = r]
           n == "none"
           b == [a EXCEPT !.dialog = n]
<1>1. r \in 0..4
  BY DEF State
<1>2. Unref(t) = a \/ Unref(t) = b
  BY DEF State, Unref
<1>3. a \in State /\ n \in {"none", "ask", "choose"}
  BY <1>1 DEF State
<1>4. b \in State
  BY <1>3 DEF State
<1>5. CASE Unref(t) = a
  BY <1>3, <1>5, StateIs
<1>6. CASE Unref(t) = b
  BY <1>4, <1>6 DEF State
<1> QED BY <1>2, <1>5, <1>6

\* Of a transfer that is over, an owner lets go of the reference it has.
LEMMA UnrefGone ==
    ASSUME NEW t \in State, NEW k \in 0..3, GoneBut(t, k + 1)
    PROVE  Unref(t) \in State /\ GoneBut(Unref(t), k)
<1>1. t.ref > 0 /\ t.status # "started" /\ t.dialog = "none"
  BY DEF GoneBut, State, Quiet
<1>0. t.ref \in Nat /\ t.ref - 1 >= k /\ (t.in_list => t.ref - 1 > k)
  <2>1. t.ref \in 0..4
    BY DEF State
  <2>2. t.ref >= k + 1 /\ (t.in_list => t.ref > k + 1)
    BY DEF GoneBut
  <2> QED BY <2>1, <2>2
<1> DEFINE u == Unref(t)
<1>2. /\ u \in State
      /\ u.ref = t.ref - 1 /\ u.dialog = "none"
      /\ u.status = t.status /\ u.in_list = t.in_list
      /\ u.listening = t.listening /\ u.inpa = t.inpa
      /\ u.connecting = t.connecting /\ u.watcher = t.watcher
      /\ u.out = t.out /\ u.misused = t.misused /\ u.orphaned = t.orphaned
      /\ u.overacked = t.overacked
  BY <1>1, UnrefState
<1> HIDE DEF u
<1>3. Quiet(u) /\ ~u.misused /\ ~u.orphaned /\ WholeOut(u)
      /\ u.status # "started" /\ (u.in_list => Over(u))
  BY <1>2 DEF GoneBut, Quiet, WholeOut, Over
<1>4. u.ref >= k /\ (u.in_list => u.ref > k)
  BY <1>0, <1>2
<1> QED BY <1>2, <1>3, <1>4 DEF GoneBut, u

\* Taking it off Pidgin's list costs the list's own reference, no other.
LEMMA UnlistedGone ==
    ASSUME NEW t \in State, NEW k \in 0..3, GoneBut(t, k)
    PROVE  Unlisted(t) \in State /\ GoneBut(Unlisted(t), k)
<1>1. CASE ~t.in_list
  BY <1>1 DEF Unlisted
<1>2. CASE t.in_list
  <2> DEFINE no == FALSE
             u == [t EXCEPT !.in_list = no]
  <2>1. u \in State
    BY DEF State
  <2>2. GoneBut(u, k + 1)
    BY <1>2 DEF GoneBut, Quiet, WholeOut, Over, State
  <2>3. Unlisted(t) = Unref(u)
    BY <1>2 DEF Unlisted
  <2> HIDE DEF u
  <2> QED BY <2>1, <2>2, <2>3, UnrefGone
<1> QED BY <1>1, <1>2

\* A cancel of a transfer that does not connect ends it: of the references, it
\* takes the transfer's own and at most the list's.
LEMMA CancelledGone ==
    ASSUME NEW t \in State, NEW status \in {"cancel_local", "cancel_remote"},
           NEW k \in 0..2, Intact(t), ~t.connecting,
           t.out = BytesFrom(0, Len(t.out)),
           t.ref > k, t.in_list => t.ref > k + 1
    PROVE  Cancelled(t, status) \in State /\ GoneBut(Cancelled(t, status), k)
<1> DEFINE u == Stopped(t, status)
           w == IF status = "cancel_local" /\ t.auto_clear THEN Unlisted(u) ELSE u
<1>1. /\ u \in State
      /\ u.status = status /\ u.dialog = "none" /\ u.listening = "no"
      /\ u.ref = t.ref /\ u.in_list = t.in_list
      /\ ~u.inpa /\ ~u.watcher /\ ~u.connecting
      /\ ~u.misused /\ ~u.orphaned /\ u.out = t.out
  <2>1. /\ u \in State /\ u.connecting = t.connecting
        /\ u.misused = (t.misused \/ t.xd = "freed")
        /\ u.orphaned = (t.orphaned \/ t.connecting)
    BY StoppedState
  <2>2. /\ u.status = status /\ u.dialog = "none" /\ u.listening = "no"
        /\ u.ref = t.ref /\ u.in_list = t.in_list
        /\ ~u.inpa /\ ~u.watcher /\ u.out = t.out
    BY StoppedState
  <2> HIDE DEF u
  <2>3. ~u.connecting /\ ~u.misused /\ ~u.orphaned
    BY <2>1, Zenon DEF Intact
  <2> QED BY <2>1, <2>2, <2>3
<1>2. Cancelled(t, status) = Unref(w)
  BY DEF Cancelled
<1> HIDE DEF u
<1>3. GoneBut(u, k + 1)
  BY <1>1 DEF GoneBut, Quiet, WholeOut, Over, State
<1>4. w \in State /\ GoneBut(w, k + 1)
  BY <1>1, <1>3, UnlistedGone
<1> HIDE DEF w
<1> QED BY <1>2, <1>4, UnrefGone
-----------------------------------------------------------------------------
(* Parts of the file.                                                      *)

\* The bytes of a part, and their places.
LEMMA BytesFromType ==
    ASSUME NEW a \in Nat, NEW n \in Nat, a + n <= Size
    PROVE  /\ BytesFrom(a, n) \in Seq(Bytes)
           /\ Len(BytesFrom(a, n)) = n
           /\ \A i \in 1..n : BytesFrom(a, n)[i] = a + i
<1>1. \A i \in 1..n : a + i \in Bytes
  BY XferAssumption DEF Bytes
<1>2. BytesFrom(a, n) \in [1..n -> Bytes]
  BY <1>1 DEF BytesFrom
<1>3. \A i \in 1..n : BytesFrom(a, n)[i] = a + i
  BY DEF BytesFrom
<1> HIDE DEF BytesFrom
<1> QED BY <1>2, <1>3, SeqDef

\* n bytes from a, and the m from b that follow, make c.
Adjoins(a, n, b, m, c) ==
    /\ a \in Nat /\ n \in Nat /\ b \in Nat /\ m \in Nat /\ c \in Nat
    /\ b = a + n /\ c = n + m /\ b + m <= Size

\* Two parts in a row are a part.
LEMMA BytesFromJoined ==
    ASSUME NEW a, NEW n, NEW b, NEW m, NEW c, Adjoins(a, n, b, m, c),
           NEW s, s = BytesFrom(a, n), NEW t, t = BytesFrom(b, m)
    PROVE  s \o t = BytesFrom(a, c)
<1> DEFINE u == BytesFrom(a, c)
<1>0. /\ a \in Nat /\ n \in Nat /\ b \in Nat /\ m \in Nat /\ c \in Nat
      /\ b = a + n /\ c = n + m /\ a + n <= Size /\ b + m <= Size /\ a + c <= Size
  BY XferAssumption DEF Adjoins
<1>1. s \in Seq(Bytes) /\ Len(s) = n /\ \A i \in 1..n : s[i] = a + i
  BY <1>0, BytesFromType
<1>2. t \in Seq(Bytes) /\ Len(t) = m /\ \A i \in 1..m : t[i] = b + i
  BY <1>0, BytesFromType
<1>3. u \in Seq(Bytes) /\ Len(u) = n + m /\ \A i \in 1..(n + m) : u[i] = a + i
  BY <1>0, BytesFromType
<1> HIDE DEF u
<1>4. /\ s \o t \in Seq(Bytes) /\ Len(s \o t) = n + m
      /\ \A i \in 1..(n + m) : (s \o t)[i] = IF i <= n THEN s[i] ELSE t[i - n]
  BY <1>1, <1>2, ConcatProperties
<1>5. ASSUME NEW i \in 1..(n + m) PROVE (s \o t)[i] = u[i]
  <2>1. CASE i <= n
    BY <1>0, <1>1, <1>3, <1>4, <2>1
  <2>2. CASE ~(i <= n)
    <3>1. i - n \in 1..m /\ b + (i - n) = a + i
      BY <1>0, <2>2
    <3> QED BY <1>0, <1>2, <1>3, <1>4, <2>2, <3>1
  <2> QED BY <2>1, <2>2
<1>6. s \o t = u
  BY <1>3, <1>4, <1>5, SeqEqual
<1> QED BY <1>6 DEF u

\* What is written of a part, and what remains of it.
LEMMA BytesFromSplit ==
    ASSUME NEW a \in Nat, NEW n \in Nat, NEW r \in 0..n, a + n <= Size
    PROVE  /\ SubSeq(BytesFrom(a, n), 1, r) = BytesFrom(a, r)
           /\ SubSeq(BytesFrom(a, n), r + 1, n) = BytesFrom(a + r, n - r)
<1> DEFINE s == BytesFrom(a, n)
           p == BytesFrom(a, r)
           q == BytesFrom(a + r, n - r)
<1>0. /\ r \in Nat /\ n - r \in Nat /\ a + r \in Nat
      /\ a + r <= Size /\ a + r + (n - r) <= Size
  BY XferAssumption
<1>1. s \in Seq(Bytes) /\ Len(s) = n /\ \A i \in 1..n : s[i] = a + i
  BY BytesFromType
<1>2. p \in Seq(Bytes) /\ Len(p) = r /\ \A i \in 1..r : p[i] = a + i
  BY <1>0, BytesFromType
<1>3. /\ q \in Seq(Bytes) /\ Len(q) = n - r
      /\ \A i \in 1..(n - r) : q[i] = a + r + i
  BY <1>0, BytesFromType
<1> HIDE DEF s, p, q
<1>4. \A i \in 1..n : s[i] \in Bytes
  BY <1>1, ElementOfSeq
<1>5. /\ SubSeq(s, 1, r) \in Seq(Bytes)
      /\ Len(SubSeq(s, 1, r)) = r
      /\ \A i \in 1..r : SubSeq(s, 1, r)[i] = s[i]
  <2>1. \A i \in 1..r : s[i] \in Bytes
    BY <1>4
  <2> DEFINE w == SubSeq(s, 1, r)
  <2>2. /\ w \in Seq(Bytes)
        /\ Len(w) = IF 1 <= r THEN r - 1 + 1 ELSE 0
        /\ \A i \in 1..(r - 1 + 1) : w[i] = s[1 + i - 1]
    BY <2>1, SubSeqProperties
  <2> HIDE DEF w
  <2>3. Len(w) = r /\ \A i \in 1..r : w[i] = s[i]
    BY <2>2
  <2> QED BY <2>2, <2>3 DEF w
<1>6. /\ SubSeq(s, r + 1, n) \in Seq(Bytes)
      /\ Len(SubSeq(s, r + 1, n)) = n - r
      /\ \A i \in 1..(n - r) : SubSeq(s, r + 1, n)[i] = s[r + i]
  <2>1. \A i \in (r + 1)..n : s[i] \in Bytes
    BY <1>4
  <2> DEFINE w == SubSeq(s, r + 1, n)
  <2>2. /\ w \in Seq(Bytes)
        /\ Len(w) = IF r + 1 <= n THEN n - (r + 1) + 1 ELSE 0
        /\ \A i \in 1..(n - (r + 1) + 1) : w[i] = s[r + 1 + i - 1]
    BY <2>1, SubSeqProperties
  <2> HIDE DEF w
  <2>3. Len(w) = n - r /\ \A i \in 1..(n - r) : w[i] = s[r + i]
    BY <2>2
  <2> QED BY <2>2, <2>3 DEF w
<1>7. SubSeq(s, 1, r) = p
  BY <1>1, <1>2, <1>5, SeqEqual
<1>8. \A i \in 1..(n - r) : s[r + i] = a + r + i
  BY <1>1
<1>9. SubSeq(s, r + 1, n) = q
  <2> DEFINE w == SubSeq(s, r + 1, n)
  <2>1. w \in Seq(Bytes) /\ Len(w) = Len(q)
    BY <1>3, <1>6
  <2>2. \A i \in 1..Len(w) : w[i] = q[i]
    BY <1>3, <1>6, <1>8
  <2> HIDE DEF w
  <2>3. w = q
    BY <1>3, <2>1, <2>2, SeqEqual
  <2> QED BY <2>3 DEF w
<1> QED BY <1>7, <1>9 DEF s, p, q

\* A part may be empty.
LEMMA NoBytes ==
    ASSUME NEW a \in 0..Size
    PROVE  BytesFrom(a, 0) = <<>>
<1>1. BytesFrom(a, 0) \in Seq(Bytes) /\ Len(BytesFrom(a, 0)) = 0
  BY XferAssumption, BytesFromType
<1> QED BY <1>1, EmptySeq

-----------------------------------------------------------------------------
(* The transfer of data.                                                   *)

\* The destination has the first n bytes, and what was taken from the source
\* beyond these is what waits in priv->buffer.
Buffered(t, n) ==
    /\ n <= t.taken
    /\ t.out = BytesFrom(0, n)
    /\ t.buffer = BytesFrom(n, t.taken - n)
    /\ (t.type = "receive" \/ t.ui = "moderating") => t.taken = n

\* A transfer under way: listed, with the list's reference and its own, its
\* socket open, and its file if it has one.
Served(t) ==
    /\ Intact(t) /\ t.dialog = "none" /\ t.in_list /\ t.ref = 2
    /\ t.status = "started" /\ t.listening = "no"
    /\ ~t.connecting /\ ~t.stuck /\ t.fd = "open"
    /\ t.dest_fp = (t.ui = "files")
    /\ t.bytes_sent < Size /\ t.bytes_remaining = Size - t.bytes_sent

\* Somebody will continue the transfer.
Watched(t) == t.watcher \/ (t.ui = "moderating" /\ t.ready = {"prpl"})

\* A transfer under way, between two handlers.
Running(t) == Served(t) /\ Watched(t) /\ Buffered(t, t.bytes_sent)

\* In the middle of do_transfer: r bytes were moved and are not counted yet.
Moving(t, r) ==
    /\ Served(t) /\ t.watcher /\ r <= Size - t.bytes_sent
    /\ Buffered(t, t.bytes_sent + r)

\* purple_xfer_increase_buffer_size stays within the bound.
LEMMA GrownType ==
    ASSUME NEW size \in 1..FT_MAX_BUFFER_SIZE
    PROVE  Grown(size) \in 1..FT_MAX_BUFFER_SIZE
BY XferAssumption DEF Grown

\* purple_xfer_set_completed takes the list's reference or none.
LEMMA CompletedState ==
    ASSUME NEW t \in State, Served(t)
    PROVE  LET u == Completed(t) IN
           /\ u \in State /\ u.status = "done" /\ u.dialog = "none"
           /\ (u.in_list => u.ref = 2) /\ u.ref \in {1, 2}
           /\ Intact(u) /\ u.listening = "no" /\ ~u.connecting
           /\ u.bytes_sent = t.bytes_sent /\ u.bytes_remaining = t.bytes_remaining
           /\ u.current_buffer_size = t.current_buffer_size
           /\ u.out = t.out /\ u.overacked = t.overacked
<1> DEFINE a == [t EXCEPT !.status = "done"]
           b == [a EXCEPT !.in_list = FALSE]
<1>1. /\ a \in State /\ a.status = "done" /\ a.dialog = "none" /\ a.in_list
      /\ a.ref = 2 /\ a.listening = "no" /\ ~a.connecting /\ Intact(a)
      /\ a.bytes_sent = t.bytes_sent /\ a.bytes_remaining = t.bytes_remaining
      /\ a.current_buffer_size = t.current_buffer_size /\ a.out = t.out
      /\ a.overacked = t.overacked
  BY DEF State, Served, Intact
<1>2. Completed(t) = IF t.auto_clear THEN Unlisted(a) ELSE a
  BY DEF Completed
<1> HIDE DEF a
<1>3. /\ b \in State /\ b.status = "done" /\ b.dialog = "none" /\ ~b.in_list
      /\ b.ref = 2 /\ b.listening = "no" /\ ~b.connecting /\ Intact(b)
      /\ b.bytes_sent = t.bytes_sent /\ b.bytes_remaining = t.bytes_remaining
      /\ b.current_buffer_size = t.current_buffer_size /\ b.out = t.out
      /\ b.overacked = t.overacked
  BY <1>1 DEF State, Intact
<1>4. Unlisted(a) = Unref(b)
  BY <1>1 DEF Unlisted
<1> HIDE DEF b
<1>5. CASE t.auto_clear
  <2> DEFINE u == Unref(b)
  <2>1. b.ref > 0 /\ (b.ref > 1 \/ b.status # "started")
    BY <1>3
  <2>2. /\ u \in State /\ u.ref = 1 /\ u.dialog = "none" /\ u.status = "done"
        /\ u.in_list = b.in_list /\ u.listening = "no"
        /\ u.connecting = b.connecting /\ u.misused = b.misused
        /\ u.orphaned = b.orphaned /\ u.xd = b.xd
    BY <2>1, <1>3, UnrefState
  <2>3. /\ u.bytes_sent = t.bytes_sent /\ u.bytes_remaining = t.bytes_remaining
        /\ u.current_buffer_size = t.current_buffer_size /\ u.out = t.out
        /\ u.overacked = t.overacked
    BY <2>1, <1>3, UnrefState
  <2>4. Completed(t) = u
    BY <1>2, <1>4, <1>5
  <2> HIDE DEF u
  <2>5. ~u.in_list /\ Intact(u) /\ ~u.connecting
    BY <2>2, <1>3 DEF Intact
  <2>6. (u.in_list => u.ref = 2) /\ u.ref \in {1, 2}
    BY <2>2, <2>5 DEF State
  <2> QED BY <2>2, <2>3, <2>4, <2>5, <2>6
<1>6. CASE ~t.auto_clear
  BY <1>1, <1>2, <1>6
<1> QED BY <1>5, <1>6

\* purple_xfer_end of a transfer that is done, where all bytes have arrived or
\* the peer said so.
LEMMA EndedGone ==
    ASSUME NEW t \in State, t.status = "done", t.dialog = "none",
           t.ref > 0, t.in_list => t.ref > 1, Intact(t), ~t.connecting,
           WholeOut(t)
    PROVE  Ended(t) \in State /\ Gone(Ended(t))
<1> DEFINE u == Released(Closed(t))
<1>1. u \in State
  BY ClosedType, ReleasedType
<1>2. /\ u.status = "done" /\ u.dialog = "none" /\ u.ref = t.ref
      /\ u.in_list = t.in_list /\ u.listening = "no" /\ ~u.inpa
      /\ ~u.watcher /\ u.connecting = t.connecting
      /\ u.orphaned = t.orphaned /\ u.out = t.out
      /\ u.overacked = t.overacked
  BY DEF State, Released, Closed
<1>3. u.misused = (t.misused \/ t.xd = "freed")
  BY DEF State, Released, Closed
<1>4. Ended(t) = Unref(u)
  BY DEF Ended
<1> HIDE DEF u
<1>5. ~u.misused /\ ~u.orphaned /\ ~u.connecting
  BY <1>2, <1>3, Zenon DEF Intact
<1>6. WholeOut(u)
  BY <1>2 DEF WholeOut
<1>7. GoneBut(u, 1)
  BY <1>1, <1>2, <1>5, <1>6 DEF GoneBut, Quiet, Over, State
<1>8. Unref(u) \in State /\ GoneBut(Unref(u), 0)
  BY <1>1, <1>7, UnrefGone
<1> QED BY <1>4, <1>8 DEF Gone

\* Counting the bytes keeps the type.
LEMMA ProgressType ==
    ASSUME NEW t \in State, NEW n \in 0..Size, NEW m \in 0..Size,
           NEW c \in 1..FT_MAX_BUFFER_SIZE
    PROVE  [t EXCEPT !.bytes_sent = n, !.bytes_remaining = m,
                     !.current_buffer_size = c] \in State
<1>1. n \in Amounts /\ m \in Amounts /\ c \in Sizes
  BY DEF Amounts, Sizes
<1> QED BY <1>1, StateIs

\* The end of do_transfer: the transfer goes on, watched, or is over and whole.
LEMMA MovedState ==
    ASSUME NEW t \in State, NEW r \in Nat, NEW filled \in BOOLEAN, Moving(t, r)
    PROVE  LET u == Moved(t, r, filled) IN u \in State /\ (Running(u) \/ Gone(u))
<1> DEFINE u == IF t.bytes_sent + r >= Size THEN Completed(t) ELSE t
           n == u.bytes_sent + r
           m == u.bytes_remaining - r
           c == IF filled THEN Grown(u.current_buffer_size)
                          ELSE u.current_buffer_size
           v == [u EXCEPT !.bytes_sent = n, !.bytes_remaining = m,
                          !.current_buffer_size = c]
<1>1. Moved(t, r, filled) = IF v.status = "done" THEN Ended(v) ELSE v
  BY DEF Moved
<1>2. /\ Served(t) /\ t.bytes_sent \in 0..Size /\ t.bytes_sent < Size
      /\ t.bytes_remaining = Size - t.bytes_sent
      /\ r <= Size - t.bytes_sent /\ t.watcher
      /\ t.out = BytesFrom(0, t.bytes_sent + r)
  BY DEF Moving, Served, Buffered, State
<1>3. /\ u \in State
      /\ u.bytes_sent = t.bytes_sent /\ u.bytes_remaining = t.bytes_remaining
      /\ u.current_buffer_size = t.current_buffer_size /\ u.out = t.out
  BY <1>2, CompletedState
<1>4. n \in 0..Size /\ m \in 0..Size /\ c \in 1..FT_MAX_BUFFER_SIZE
  <2> HIDE DEF u
  <2>1. t.current_buffer_size \in 1..FT_MAX_BUFFER_SIZE
    BY DEF State
  <2>2. c \in 1..FT_MAX_BUFFER_SIZE
    BY <1>3, <2>1, GrownType
  <2>3. n \in 0..Size /\ m \in 0..Size
    BY <1>2, <1>3, XferAssumption
  <2> QED BY <2>2, <2>3
<1>5. CASE t.bytes_sent + r >= Size
  <2>1. u = Completed(t)
    BY <1>5
  <2>2. /\ u.status = "done" /\ u.dialog = "none" /\ Intact(u)
        /\ u.ref \in {1, 2} /\ (u.in_list => u.ref = 2) /\ ~u.connecting
    BY <1>2, <2>1, CompletedState
  <2> HIDE DEF u
  <2>3. v \in State
    <3> HIDE DEF n, m, c
    <3> QED BY <1>3, <1>4, ProgressType
  <2>4. /\ v.status = "done" /\ v.dialog = "none" /\ Intact(v)
        /\ v.ref = u.ref /\ (v.in_list => u.in_list) /\ ~v.connecting
        /\ v.out = u.out
    <3> HIDE DEF n, m, c
    <3> QED BY <1>3, <2>2, StateIs DEF Intact
  <2>5. t.bytes_sent + r = Size
    BY <1>2, <1>5, XferAssumption
  <2>6. v.ref > 0 /\ (v.in_list => v.ref > 1) /\ v.out = BytesFrom(0, Size)
    BY <1>2, <1>3, <2>2, <2>4, <2>5
  <2> HIDE DEF v
  <2>7. Len(v.out) = Size
    BY <2>6, XferAssumption, BytesFromType
  <2>8. WholeOut(v)
    BY <2>6, <2>7 DEF WholeOut
  <2> QED BY <1>1, <2>3, <2>4, <2>6, <2>8, EndedGone
<1>6. CASE ~(t.bytes_sent + r >= Size)
  <2>1. u = t
    BY <1>6
  <2> HIDE DEF u
  <2>2. n = t.bytes_sent + r /\ m = t.bytes_remaining - r
    BY <2>1
  <2> HIDE DEF n, m, c
  <2>3. v \in State
    BY <1>3, <1>4, ProgressType
  <2>4. /\ v.type = t.type /\ v.ui = t.ui /\ v.status = t.status
        /\ v.dialog = t.dialog /\ v.in_list = t.in_list /\ v.ref = t.ref
        /\ v.listening = t.listening /\ v.connecting = t.connecting
        /\ v.stuck = t.stuck /\ v.fd = t.fd /\ v.dest_fp = t.dest_fp
        /\ v.xd = t.xd /\ v.misused = t.misused /\ v.orphaned = t.orphaned
    BY <2>1, StateIs
  <2>5. /\ v.watcher = t.watcher /\ v.ready = t.ready /\ v.taken = t.taken
        /\ v.out = t.out /\ v.buffer = t.buffer
        /\ v.bytes_sent = n /\ v.bytes_remaining = m
    BY <2>1, StateIs
  <2> HIDE DEF v
  <2>6. Served(v)
    BY <1>2, <1>6, <1>4, <2>2, <2>4, <2>5, XferAssumption DEF Served, Intact
  <2>7. Watched(v)
    BY <1>2, <2>5 DEF Watched
  <2>8. Buffered(v, v.bytes_sent)
    BY <2>2, <2>4, <2>5 DEF Moving, Buffered
  <2>9. v.status # "done"
    BY <2>6 DEF Served
  <2> QED BY <1>1, <2>3, <2>6, <2>7, <2>8, <2>9 DEF Running
<1> QED BY <1>5, <1>6

\* A transfer for which do_transfer is called: it is watched, and the flags of
\* the handshake have been cleared.
Transferring(t) ==
    /\ Served(t) /\ t.watcher /\ Buffered(t, t.bytes_sent)
    /\ t.ui = "moderating" => t.ready = {}

\* How a step may leave a transfer that was under way.
Outcome(t) == t \in State /\ (Running(t) \/ Gone(t))

\* A transfer under way has something left to read, and never reads beyond it.
LEMMA PortionBound ==
    ASSUME NEW t \in State, Served(t)
    PROVE  /\ Portion(t) \in Nat \ {0} /\ Portion(t) <= Size - t.bytes_sent
           /\ t.bytes_sent \in Nat
BY XferAssumption DEF Served, State, Portion

\* A transfer under way that is given up.
LEMMA ServedCancelled ==
    ASSUME NEW t \in State, NEW status \in {"cancel_local", "cancel_remote"},
           NEW n \in 0..Size, Served(t), t.out = BytesFrom(0, n)
    PROVE  Outcome(Cancelled(t, status))
<1>1. Len(t.out) = n
  BY XferAssumption, BytesFromType
<1>2. /\ Intact(t) /\ ~t.connecting /\ t.out = BytesFrom(0, Len(t.out))
      /\ t.ref > 0 /\ (t.in_list => t.ref > 1)
  BY <1>1 DEF Served
<1>3. /\ Cancelled(t, status) \in State
      /\ GoneBut(Cancelled(t, status), 0)
  BY <1>2, CancelledGone
<1> QED BY <1>3 DEF Outcome, Gone

\* What reading does to what the source has given.
LEMMA TakenState ==
    ASSUME NEW t \in State, NEW n \in 0..Size, Served(t)
    PROVE  LET u == [t EXCEPT !.taken = n] IN
           /\ u \in State /\ Served(u) /\ u.taken = n
           /\ u.type = t.type /\ u.ui = t.ui /\ u.watcher = t.watcher
           /\ u.bytes_sent = t.bytes_sent /\ u.out = t.out
           /\ u.buffer = t.buffer
<1> DEFINE u == [t EXCEPT !.taken = n]
<1>1. n \in Amounts
  BY DEF Amounts
<1>2. u \in State
  BY <1>1, StateIs
<1>3. /\ u.taken = n /\ u.type = t.type /\ u.ui = t.ui
      /\ u.watcher = t.watcher /\ u.bytes_sent = t.bytes_sent
      /\ u.out = t.out /\ u.buffer = t.buffer
      /\ u.status = t.status /\ u.dialog = t.dialog /\ u.in_list = t.in_list
      /\ u.ref = t.ref /\ u.listening = t.listening
      /\ u.connecting = t.connecting /\ u.stuck = t.stuck /\ u.fd = t.fd
      /\ u.dest_fp = t.dest_fp /\ u.xd = t.xd /\ u.misused = t.misused
      /\ u.orphaned = t.orphaned /\ u.bytes_remaining = t.bytes_remaining
  BY StateIs
<1> HIDE DEF u
<1>4. Served(u)
  BY <1>3 DEF Served, Intact
<1> QED BY <1>2, <1>3, <1>4 DEF u

\* What writing does to what the destination has got.
LEMMA OutState ==
    ASSUME NEW t \in State, NEW d \in Seq(Bytes), Served(t)
    PROVE  LET u == [t EXCEPT !.out = d] IN
           /\ u \in State /\ Served(u) /\ u.out = d
           /\ u.type = t.type /\ u.ui = t.ui /\ u.watcher = t.watcher
           /\ u.bytes_sent = t.bytes_sent /\ u.taken = t.taken
           /\ u.buffer = t.buffer
<1> DEFINE u == [t EXCEPT !.out = d]
<1>1. d \in Contents
  BY DEF Contents
<1>2. u \in State
  BY <1>1, StateIs
<1>3. /\ u.taken = t.taken /\ u.type = t.type /\ u.ui = t.ui
      /\ u.watcher = t.watcher /\ u.bytes_sent = t.bytes_sent
      /\ u.out = d /\ u.buffer = t.buffer
      /\ u.status = t.status /\ u.dialog = t.dialog /\ u.in_list = t.in_list
      /\ u.ref = t.ref /\ u.listening = t.listening
      /\ u.connecting = t.connecting /\ u.stuck = t.stuck /\ u.fd = t.fd
      /\ u.dest_fp = t.dest_fp /\ u.xd = t.xd /\ u.misused = t.misused
      /\ u.orphaned = t.orphaned /\ u.bytes_remaining = t.bytes_remaining
  BY StateIs
<1> HIDE DEF u
<1>4. Served(u)
  BY <1>3 DEF Served, Intact
<1> QED BY <1>2, <1>3, <1>4 DEF u

\* What writing does to what waits to be written.
LEMMA BufferState ==
    ASSUME NEW t \in State, NEW d \in Seq(Bytes), Served(t)
    PROVE  LET u == [t EXCEPT !.buffer = d] IN
           /\ u \in State /\ Served(u) /\ u.buffer = d
           /\ u.type = t.type /\ u.ui = t.ui /\ u.watcher = t.watcher
           /\ u.bytes_sent = t.bytes_sent /\ u.taken = t.taken
           /\ u.out = t.out
<1> DEFINE u == [t EXCEPT !.buffer = d]
<1>1. d \in Contents
  BY DEF Contents
<1>2. u \in State
  BY <1>1, StateIs
<1>3. /\ u.taken = t.taken /\ u.type = t.type /\ u.ui = t.ui
      /\ u.watcher = t.watcher /\ u.bytes_sent = t.bytes_sent
      /\ u.out = t.out /\ u.buffer = d
      /\ u.status = t.status /\ u.dialog = t.dialog /\ u.in_list = t.in_list
      /\ u.ref = t.ref /\ u.listening = t.listening
      /\ u.connecting = t.connecting /\ u.stuck = t.stuck /\ u.fd = t.fd
      /\ u.dest_fp = t.dest_fp /\ u.xd = t.xd /\ u.misused = t.misused
      /\ u.orphaned = t.orphaned /\ u.bytes_remaining = t.bytes_remaining
  BY StateIs
<1> HIDE DEF u
<1>4. Served(u)
  BY <1>3 DEF Served, Intact
<1> QED BY <1>2, <1>3, <1>4 DEF u

\* do_transfer of a receiver.
LEMMA ReceiveState ==
    ASSUME NEW t \in State, Transferring(t), t.type = "receive",
           NEW v \in Receive(t)
    PROVE  Outcome(v)
<1> DEFINE n == t.bytes_sent
           T(r) == [t EXCEPT !.taken = t.taken + r]
           C(r) == [t EXCEPT !.out = t.out \o BytesFrom(t.taken, r),
                             !.taken = t.taken + r]
<1>1. /\ Served(t) /\ t.watcher /\ t.taken = n /\ t.out = BytesFrom(0, n)
      /\ t.buffer = BytesFrom(n, 0) /\ n \in 0..Size
  BY DEF Transferring, Buffered, State
<1>2. Portion(t) \in Nat \ {0} /\ Portion(t) <= Size - n /\ n \in Nat
  BY <1>1, PortionBound
<1>3. \/ v = t
      \/ v = Cancelled(t, "cancel_remote")
      \/ \E r \in 1..Portion(t) : v = Cancelled(T(r), "cancel_local")
      \/ \E r \in 1..Portion(t) : v = Moved(C(r), r, r = t.current_buffer_size)
  BY <1>2 DEF Receive
<1>4. CASE v = t
  BY <1>1, <1>4 DEF Outcome, Running, Transferring, Watched
<1>5. CASE v = Cancelled(t, "cancel_remote")
  BY <1>1, <1>5, ServedCancelled
<1>6. ASSUME NEW r \in 1..Portion(t), v = Cancelled(T(r), "cancel_local")
      PROVE  Outcome(v)
  <2>1. t.taken + r \in 0..Size
    BY <1>1, <1>2, XferAssumption
  <2>2. T(r) \in State /\ Served(T(r)) /\ T(r).out = BytesFrom(0, n)
    BY <1>1, <2>1, TakenState
  <2> HIDE DEF T
  <2> QED BY <1>1, <1>6, <2>2, ServedCancelled
<1>7. ASSUME NEW r \in 1..Portion(t), v = Moved(C(r), r, r = t.current_buffer_size)
      PROVE  Outcome(v)
  <2> DEFINE u == [t EXCEPT !.out = t.out \o BytesFrom(t.taken, r)]
             w == [u EXCEPT !.taken = n + r]
  <2>1. r \in Nat /\ r <= Size - n /\ n + r <= Size /\ n + r \in 0..Size
    BY <1>1, <1>2, XferAssumption
  <2>2. t.out \o BytesFrom(t.taken, r) = BytesFrom(0, n + r)
    <3>1. BytesFrom(0, n) \o BytesFrom(n, r) = BytesFrom(0, n + r)
      <4> HIDE DEF n
      <4>1. Adjoins(0, n, n, r, n + r)
        BY <1>2, <2>1 DEF Adjoins
      <4> QED BY <4>1, BytesFromJoined
    <3> QED BY <3>1, <1>1, <1>2
  <2>3. BytesFrom(0, n + r) \in Seq(Bytes)
    BY <1>2, <2>1, BytesFromType
  <2>4. /\ u \in State /\ Served(u) /\ u.out = BytesFrom(0, n + r)
        /\ u.type = t.type /\ u.watcher = t.watcher
        /\ u.bytes_sent = n /\ u.taken = t.taken /\ u.buffer = t.buffer
    BY <1>1, <2>2, <2>3, OutState
  <2>5. C(r) = w
    BY <1>1, StateIs
  <2> HIDE DEF u
  <2>6. /\ w \in State /\ Served(w) /\ w.taken = n + r
        /\ w.type = u.type /\ w.watcher = u.watcher
        /\ w.bytes_sent = u.bytes_sent /\ w.out = u.out
        /\ w.buffer = u.buffer
    BY <1>1, <2>1, <2>4, TakenState
  <2> HIDE DEF w, C
  <2>7. BytesFrom(n, 0) = <<>> /\ BytesFrom(n + r, 0) = <<>>
    BY <1>1, <2>1, NoBytes
  <2>8. /\ w.taken - (w.bytes_sent + r) = 0 /\ w.bytes_sent + r <= w.taken
        /\ w.bytes_sent + r = n + r
    BY <1>2, <2>1, <2>4, <2>6
  <2>9. Buffered(w, w.bytes_sent + r)
    BY <1>1, <2>4, <2>6, <2>7, <2>8 DEF Buffered
  <2>10. Moving(w, r)
    <3>1. w.watcher /\ r <= Size - w.bytes_sent
      <4> HIDE DEF n
      <4>1. w.bytes_sent = n /\ w.watcher = t.watcher
        BY <2>4, <2>6
      <4> QED BY <1>1, <2>1, <4>1
    <3> QED BY <3>1, <2>6, <2>9 DEF Moving
  <2>11. (r = t.current_buffer_size) \in BOOLEAN
    OBVIOUS
  <2> QED BY <1>7, <2>1, <2>5, <2>6, <2>10, <2>11, MovedState DEF Outcome
<1> QED BY <1>3, <1>4, <1>5, <1>6, <1>7

\* A write of all that is held, whatever part of it the network takes: what it
\* does not take remains, in priv->buffer or with the UI.
LEMMA WriteOutState ==
    ASSUME NEW t \in State, Served(t), t.watcher, t.type = "send",
           t.bytes_sent <= t.taken, t.out = BytesFrom(0, t.bytes_sent),
           t.ui = "moderating" => t.buffer = <<>>,
           NEW data, data = BytesFrom(t.bytes_sent, t.taken - t.bytes_sent),
           NEW v \in WriteOut(t, data)
    PROVE  Outcome(v)
<1> DEFINE n == t.bytes_sent
           m == t.taken - n
           W(r) == IF t.ui = "files" THEN [t EXCEPT !.buffer = Unsent(data, r)]
                   ELSE [t EXCEPT !.taken = t.taken - (Len(data) - r)]
           S(r) == [W(r) EXCEPT !.out = W(r).out \o SubSeq(data, 1, r)]
<1>1. n \in Nat /\ n <= Size /\ t.taken \in 0..Size /\ m \in Nat /\ n + m = t.taken
      /\ data = BytesFrom(n, m)
  BY XferAssumption DEF State
<1>2. Len(data) = m
  BY <1>1, XferAssumption, BytesFromType
<1>3. \/ v = Cancelled(t, "cancel_remote")
      \/ \E r \in 0..m : v = Moved(S(r), r, r = Len(data))
  BY <1>1, <1>2 DEF WriteOut
<1>4. CASE v = Cancelled(t, "cancel_remote")
  BY <1>1, <1>4, ServedCancelled
<1>5. ASSUME NEW r \in 0..m, v = Moved(S(r), r, r = Len(data))
      PROVE  Outcome(v)
  <2> HIDE DEF n, m
  <2>1. /\ r \in Nat /\ m - r \in Nat /\ n + r <= t.taken /\ n + r \in 0..Size
        /\ n + m <= Size /\ r <= Size - n /\ n + r \in Nat
        /\ t.taken - (n + r) = m - r /\ t.taken - (m - r) = n + r
    <3> DEFINE k == t.taken
    <3>1. n \in Nat /\ k \in 0..Size /\ m \in Nat /\ n + m = k /\ r \in 0..m
      BY <1>1
    <3>2. Size \in Nat
      BY XferAssumption
    <3> HIDE DEF k
    <3>3. k \in Nat /\ k <= Size /\ r \in Nat /\ r <= m
      BY <3>1, <3>2
    <3>4. m - r \in Nat /\ n + r \in Nat /\ n + r <= k /\ n + m <= Size
      BY <3>1, <3>3
    <3>5. n + r \in 0..Size /\ r <= Size - n
      BY <3>1, <3>2, <3>3, <3>4
    <3>6. k - (n + r) = m - r /\ k - (m - r) = n + r
      BY <3>1, <3>3
    <3> QED BY <3>3, <3>4, <3>5, <3>6 DEF k
  <2>2. /\ SubSeq(data, 1, r) = BytesFrom(n, r)
        /\ SubSeq(data, r + 1, m) = BytesFrom(n + r, m - r)
    <3>1. n \in Nat /\ m \in Nat /\ r \in 0..m /\ n + m <= Size
      BY <1>1, <2>1
    <3>2. /\ SubSeq(BytesFrom(n, m), 1, r) = BytesFrom(n, r)
          /\ SubSeq(BytesFrom(n, m), r + 1, m) = BytesFrom(n + r, m - r)
      BY <3>1, BytesFromSplit
    <3> QED BY <1>1, <3>2
  <2>3. BytesFrom(0, n) \o BytesFrom(n, r) = BytesFrom(0, n + r)
    <3>1. Adjoins(0, n, n, r, n + r)
      BY <1>1, <2>1, XferAssumption DEF Adjoins
    <3> QED BY <3>1, BytesFromJoined
  <2>4. /\ BytesFrom(0, n + r) \in Seq(Bytes)
        /\ BytesFrom(n + r, m - r) \in Seq(Bytes)
    BY <1>1, <2>1, BytesFromType
  <2> DEFINE w == W(r)
  <2>5. /\ w \in State /\ Served(w) /\ w.type = "send" /\ w.ui = t.ui
        /\ w.watcher /\ w.bytes_sent = n /\ w.out = BytesFrom(0, n)
        /\ n + r <= w.taken /\ (w.ui = "moderating" => w.taken = n + r)
        /\ w.buffer = BytesFrom(n + r, w.taken - (n + r))
    <3>1. CASE t.ui = "files"
      <4>1. w = [t EXCEPT !.buffer = BytesFrom(n + r, m - r)]
        BY <1>2, <2>2, <3>1 DEF Unsent
      <4> HIDE DEF w
      <4>2. /\ w \in State /\ Served(w) /\ w.buffer = BytesFrom(n + r, m - r)
            /\ w.type = t.type /\ w.ui = t.ui /\ w.watcher = t.watcher
            /\ w.bytes_sent = t.bytes_sent /\ w.taken = t.taken
            /\ w.out = t.out
        BY <2>4, <4>1, BufferState
      <4> QED BY <2>1, <3>1, <4>2 DEF n
    <3>2. CASE t.ui # "files"
      <4>1. t.ui = "moderating"
        BY <3>2 DEF State
      <4>2. w = [t EXCEPT !.taken = n + r]
        BY <1>2, <2>1, <3>2
      <4> HIDE DEF w
      <4>3. /\ w \in State /\ Served(w) /\ w.taken = n + r
            /\ w.type = t.type /\ w.ui = t.ui /\ w.watcher = t.watcher
            /\ w.bytes_sent = t.bytes_sent /\ w.out = t.out
            /\ w.buffer = t.buffer
        BY <2>1, <4>2, TakenState
      <4>4. BytesFrom(n + r, 0) = <<>> /\ w.taken - (n + r) = 0
        BY <2>1, <4>3, NoBytes
      <4> QED BY <2>1, <4>1, <4>3, <4>4 DEF n
    <3> QED BY <3>1, <3>2
  <2> DEFINE u == S(r)
  <2>6. u = [w EXCEPT !.out = BytesFrom(0, n + r)]
    BY <2>2, <2>3, <2>5
  <2> HIDE DEF w, W, S, u
  <2>7. /\ u \in State /\ Served(u) /\ u.out = BytesFrom(0, n + r)
        /\ u.type = w.type /\ u.ui = w.ui /\ u.watcher = w.watcher
        /\ u.bytes_sent = w.bytes_sent /\ u.taken = w.taken
        /\ u.buffer = w.buffer
    BY <2>4, <2>5, <2>6, OutState
  <2>8. Buffered(u, n + r)
    BY <2>5, <2>7 DEF Buffered
  <2>9. u.watcher /\ u.bytes_sent = n
    BY <2>5, <2>7
  <2>10. Moving(u, r)
    BY <2>1, <2>7, <2>8, <2>9 DEF Moving
  <2>11. (r = Len(data)) \in BOOLEAN /\ v = Moved(u, r, r = Len(data))
    BY <1>5 DEF u
  <2> QED BY <2>1, <2>7, <2>10, <2>11, MovedState DEF Outcome
<1> QED BY <1>3, <1>4, <1>5

\* do_transfer of a sender whose file ft.c reads: what is left of the last write
\* goes first.
LEMMA SendFileState ==
    ASSUME NEW t \in State, Transferring(t), t.type = "send", t.ui = "files",
           NEW v \in SendFile(t)
    PROVE  Outcome(v)
<1> DEFINE n == t.bytes_sent
           need == IF Len(t.buffer) < Portion(t) THEN Portion(t) - Len(t.buffer)
                                                 ELSE 0
           data == t.buffer \o BytesFrom(t.taken, need)
           w == [t EXCEPT !.taken = t.taken + need]
<1>1. /\ Served(t) /\ t.watcher /\ t.out = BytesFrom(0, n)
      /\ n <= t.taken /\ t.buffer = BytesFrom(n, t.taken - n)
      /\ n \in 0..Size /\ t.taken \in 0..Size
  BY DEF Transferring, Buffered, State
<1>2. Portion(t) \in Nat \ {0} /\ Portion(t) <= Size - n
  BY <1>1, PortionBound
<1>3. v \in WriteOut(w, data) \/ v = Cancelled(t, "cancel_local")
  BY DEF SendFile
<1>4. CASE v = Cancelled(t, "cancel_local")
  BY <1>1, <1>4, ServedCancelled
<1>5. CASE v \in WriteOut(w, data)
  <2>1. n + (t.taken - n) = t.taken /\ t.taken - n \in Nat /\ n \in Nat
    BY <1>1, XferAssumption
  <2>2. Len(t.buffer) = t.taken - n
    BY <1>1, <2>1, XferAssumption, BytesFromType
  <2>3. need \in Nat /\ t.taken + need \in 0..Size
    <3>1. need \in Nat /\ need <= Size - t.taken
      <4> HIDE DEF n
      <4> QED BY <1>1, <1>2, <2>1, <2>2, XferAssumption, SMTT(60)
    <3> HIDE DEF need
    <3> QED BY <1>1, <3>1, XferAssumption
  <2> HIDE DEF need
  <2>4. data = BytesFrom(n, (t.taken + need) - n)
    <3>1. t.taken - n + need = t.taken + need - n /\ t.taken + need <= Size
      BY <1>1, <2>1, <2>3, XferAssumption
    <3> DEFINE m == t.taken - n
    <3>2. /\ n \in Nat /\ m \in Nat /\ need \in Nat /\ t.taken \in Nat
          /\ t.taken = n + m /\ t.taken + need <= Size /\ m + need \in Nat
      BY <1>1, <2>1, <2>3, <3>1
    <3>3. t.buffer \o BytesFrom(t.taken, need) = BytesFrom(n, m + need)
      <4>1. Adjoins(n, m, t.taken, need, m + need)
        BY <3>2 DEF Adjoins
      <4>2. t.buffer = BytesFrom(n, m)
        BY <1>1
      <4> HIDE DEF n, m
      <4> QED BY <4>1, <4>2, BytesFromJoined
    <3>4. m + need = (t.taken + need) - n
      BY <3>2
    <3> HIDE DEF m, n
    <3> QED BY <3>3, <3>4, Zenon DEF data
  <2>5. /\ w \in State /\ Served(w) /\ w.taken = t.taken + need
        /\ w.type = t.type /\ w.ui = t.ui /\ w.watcher = t.watcher
        /\ w.bytes_sent = n /\ w.out = t.out /\ w.buffer = t.buffer
    BY <1>1, <2>3, TakenState
  <2> HIDE DEF w, data
  <2>6. n <= w.taken
    BY <1>1, <2>3, <2>5, XferAssumption
  <2>7. w.type = "send" /\ w.watcher /\ w.out = BytesFrom(0, w.bytes_sent)
        /\ w.ui # "moderating"
        /\ data = BytesFrom(w.bytes_sent, w.taken - w.bytes_sent)
    BY <1>1, <2>4, <2>5
  <2> QED BY <1>5, <2>5, <2>6, <2>7, WriteOutState
<1> QED BY <1>3, <1>4, <1>5

\* do_transfer of a sender whose UI reads the file.
LEMMA SendUiState ==
    ASSUME NEW t \in State, Transferring(t), t.type = "send",
           t.ui = "moderating", NEW v \in SendUi(t)
    PROVE  Outcome(v)
<1> DEFINE n == t.bytes_sent
           w == [t EXCEPT !.watcher = FALSE, !.ready = t.ready \cup {"prpl"}]
           T(k) == [t EXCEPT !.taken = t.taken + k]
<1>1. /\ Served(t) /\ t.watcher /\ t.out = BytesFrom(0, n) /\ t.ready = {}
      /\ t.taken = n /\ t.buffer = BytesFrom(n, 0) /\ n \in 0..Size
  BY DEF Transferring, Buffered, State
<1>2. Portion(t) \in Nat \ {0} /\ Portion(t) <= Size - n
  BY <1>1, PortionBound
<1>3. \/ v = w
      \/ v = Cancelled(t, "cancel_local")
      \/ \E k \in 1..Portion(t) : v \in WriteOut(T(k), BytesFrom(t.taken, k))
  BY DEF SendUi
<1>4. CASE v = w
  <2>1. w \in State
    BY StateIs, Values
  <2>2. /\ w.type = t.type /\ w.ui = t.ui /\ w.status = t.status
        /\ w.dialog = t.dialog /\ w.in_list = t.in_list /\ w.ref = t.ref
        /\ w.listening = t.listening /\ w.connecting = t.connecting
        /\ w.stuck = t.stuck /\ w.fd = t.fd /\ w.dest_fp = t.dest_fp
        /\ w.xd = t.xd /\ w.misused = t.misused /\ w.orphaned = t.orphaned
    BY StateIs
  <2>3. /\ w.ready = t.ready \cup {"prpl"} /\ w.taken = t.taken /\ w.out = t.out
        /\ w.buffer = t.buffer /\ w.bytes_sent = t.bytes_sent
        /\ w.bytes_remaining = t.bytes_remaining
    BY StateIs
  <2> HIDE DEF w
  <2>4. Served(w)
    BY <1>1, <2>2, <2>3 DEF Served, Intact
  <2>5. Watched(w)
    BY <1>1, <2>2, <2>3 DEF Watched
  <2>6. Buffered(w, w.bytes_sent)
    BY <2>2, <2>3 DEF Transferring, Buffered
  <2> QED BY <1>4, <2>1, <2>4, <2>5, <2>6 DEF Outcome, Running
<1>5. CASE v = Cancelled(t, "cancel_local")
  BY <1>1, <1>5, ServedCancelled
<1>6. ASSUME NEW k \in 1..Portion(t),
             v \in WriteOut(T(k), BytesFrom(t.taken, k))
      PROVE  Outcome(v)
  <2> HIDE DEF n
  <2>1. /\ t.taken + k \in 0..Size /\ t.taken + k = n + k /\ n <= n + k
        /\ (n + k) - n = k
    BY <1>1, <1>2, XferAssumption
  <2> DEFINE u == T(k)
  <2>2. /\ u \in State /\ Served(u) /\ u.taken = t.taken + k
        /\ u.type = t.type /\ u.ui = t.ui /\ u.watcher = t.watcher
        /\ u.bytes_sent = t.bytes_sent /\ u.out = t.out
        /\ u.buffer = t.buffer
    BY <1>1, <2>1, TakenState
  <2>3. v \in WriteOut(u, BytesFrom(t.taken, k))
    BY <1>6
  <2> HIDE DEF u, T
  <2>4. BytesFrom(n, 0) = <<>>
    BY <1>1, NoBytes
  <2>5. /\ u.watcher /\ u.type = "send" /\ u.buffer = <<>>
        /\ u.out = BytesFrom(0, u.bytes_sent) /\ u.bytes_sent <= u.taken
        /\ BytesFrom(t.taken, k) = BytesFrom(u.bytes_sent, u.taken - u.bytes_sent)
    BY <1>1, <2>1, <2>2, <2>4 DEF n
  <2> QED BY <2>2, <2>3, <2>5, WriteOutState
<1> QED BY <1>3, <1>4, <1>5, <1>6

\* do_transfer, all of it.
LEMMA DoTransferState ==
    ASSUME NEW t \in State, Transferring(t), NEW v \in DoTransfer(t)
    PROVE  Outcome(v)
<1>1. Portion(t) # 0
  BY PortionBound DEF Transferring
<1>2. CASE t.type = "receive"
  BY <1>2, ReceiveState DEF DoTransfer
<1>3. CASE t.type = "send" /\ t.ui = "files"
  BY <1>1, <1>3, SendFileState DEF DoTransfer
<1>4. CASE t.type = "send" /\ t.ui = "moderating"
  BY <1>1, <1>4, SendUiState DEF DoTransfer
<1> QED BY <1>2, <1>3, <1>4 DEF State

\* Nothing of the file has been read or written.
Untouched(t) ==
    /\ t.bytes_sent = 0 /\ t.bytes_remaining = Size /\ t.taken = 0
    /\ t.out = <<>> /\ t.buffer = <<>>

\* begin_transfer is called on a transfer that is listed and has a socket.
Opened(t) ==
    /\ Intact(t) /\ t.dialog = "none" /\ t.in_list /\ t.ref = 2
    /\ t.status = "started" /\ t.listening = "no"
    /\ ~t.connecting /\ ~t.stuck /\ t.fd = "open" /\ Untouched(t)

\* begin_transfer starts the watch, or cancels when the file does not open.
LEMMA BegunState ==
    ASSUME NEW t \in State, Opened(t), NEW v \in Begun(t)
    PROVE  Outcome(v)
<1>1. BytesFrom(0, 0) = <<>> /\ Len(<<>>) = 0
  BY XferAssumption, NoBytes
<1>2. CASE v = Cancelled(t, "cancel_local")
  <2>1. /\ Intact(t) /\ ~t.connecting /\ t.out = BytesFrom(0, Len(t.out))
        /\ t.ref > 0 /\ (t.in_list => t.ref > 1)
    BY <1>1 DEF Opened, Untouched
  <2>2. v \in State /\ GoneBut(v, 0)
    BY <1>2, <2>1, CancelledGone
  <2> QED BY <2>2 DEF Outcome, Gone
<1>3. CASE v = [t EXCEPT !.dest_fp = (t.ui = "files"), !.watcher = (t.fd # "none")]
  <2>1. (t.ui = "files") \in Bools /\ (t.fd # "none") \in Bools
    BY DEF Bools
  <2>2. v \in State
    BY <1>3, <2>1, StateIs
  <2>3. /\ v.type = t.type /\ v.ui = t.ui /\ v.status = t.status
        /\ v.dialog = t.dialog /\ v.in_list = t.in_list /\ v.ref = t.ref
        /\ v.listening = t.listening /\ v.connecting = t.connecting
        /\ v.stuck = t.stuck /\ v.fd = t.fd
        /\ v.xd = t.xd /\ v.misused = t.misused /\ v.orphaned = t.orphaned
    BY <1>3, StateIs
  <2>4. /\ v.taken = t.taken /\ v.out = t.out
        /\ v.buffer = t.buffer /\ v.bytes_sent = t.bytes_sent
        /\ v.bytes_remaining = t.bytes_remaining
    BY <1>3, StateIs
  <2>5. v.dest_fp = (t.ui = "files") /\ v.watcher = (t.fd # "none")
    BY <1>3, StateIs
  <2>6. Served(v)
    BY <2>3, <2>4, <2>5, XferAssumption DEF Opened, Untouched, Served, Intact
  <2>7. Watched(v)
    BY <2>5 DEF Watched, Opened
  <2>8. Buffered(v, v.bytes_sent)
    BY <1>1, <2>4 DEF Buffered, Opened, Untouched
  <2> QED BY <2>2, <2>6, <2>7, <2>8 DEF Outcome, Running
<1> QED BY <1>2, <1>3 DEF Begun

-----------------------------------------------------------------------------
(* A transfer that was cancelled while it connected.                       *)

\* The transfer was cancelled while it was connecting: its references are not
\* to be trusted any more, but it moves no data.
Orphaned(t) ==
    /\ t.orphaned /\ t.status \in {"cancel_local", "cancel_remote"}
    /\ t.dialog = "none" /\ t.type = "receive" /\ t.listening = "no" /\ ~t.inpa
    /\ t.bytes_remaining = 0 /\ t.out = <<>>

\* It stays so when a reference is taken from it,
LEMMA OrphanedUnref ==
    ASSUME NEW t \in State, Orphaned(t)
    PROVE  Unref(t) \in State /\ Orphaned(Unref(t))
<1> DEFINE u == Unref(t)
<1>1. CASE t.ref > 0
  <2>1. t.status # "started" /\ t.dialog = "none"
    BY DEF Orphaned
  <2>2. /\ u \in State /\ u.dialog = "none" /\ u.type = t.type
        /\ u.status = t.status /\ u.listening = t.listening
        /\ u.bytes_remaining = t.bytes_remaining /\ u.out = t.out
        /\ u.orphaned = t.orphaned /\ u.inpa = t.inpa
    BY <1>1, <2>1, UnrefState
  <2> HIDE DEF u
  <2> QED BY <2>2 DEF Orphaned, u
<1>2. CASE t.ref = 0
  <2> DEFINE yes == TRUE
  <2>1. u = [t EXCEPT !.misused = yes]
    BY <1>2 DEF Unref
  <2>2. yes \in Bools
    BY DEF Bools
  <2> HIDE DEF yes
  <2>3. u \in State
    BY <2>1, <2>2, StateIs
  <2>4. Orphaned(u)
    BY <2>1, StateIs DEF Orphaned
  <2> QED BY <2>3, <2>4
<1> QED BY <1>1, <1>2 DEF State

\* when it is taken off the list,
LEMMA OrphanedUnlisted ==
    ASSUME NEW t \in State, Orphaned(t)
    PROVE  Unlisted(t) \in State /\ Orphaned(Unlisted(t))
<1> DEFINE u == [t EXCEPT !.in_list = FALSE]
<1>1. u \in State
  BY StateIs, Values
<1>2. Orphaned(u)
  BY StateIs DEF Orphaned
<1> HIDE DEF u
<1> QED BY <1>1, <1>2, OrphanedUnref DEF Unlisted, u

\* A transfer that is cancelled while it connects, or again.
Abandoned(t) ==
    (t.orphaned \/ t.connecting) /\ t.type = "receive" /\ t.out = <<>>

\* and when it is cancelled: cancelling while connecting is what makes one.
LEMMA OrphanedCancelled ==
    ASSUME NEW t \in State, NEW status \in {"cancel_local", "cancel_remote"},
           Abandoned(t)
    PROVE  /\ Cancelled(t, status) \in State
           /\ Orphaned(Cancelled(t, status))
<1> DEFINE u == Stopped(t, status)
           w == IF status = "cancel_local" /\ t.auto_clear THEN Unlisted(u) ELSE u
<1>1. /\ u \in State
      /\ u.status = status /\ u.dialog = "none" /\ u.listening = "no"
      /\ u.type = t.type /\ u.bytes_remaining = 0 /\ u.out = t.out
      /\ ~u.inpa
  BY StoppedState
<1>2. u \in State /\ u.orphaned = (t.orphaned \/ t.connecting)
  BY StoppedState
<1>3. Cancelled(t, status) = Unref(w)
  BY DEF Cancelled
<1> HIDE DEF u
<1>4. u.orphaned
  BY <1>2, Zenon DEF Abandoned
<1>5. Orphaned(u)
  BY <1>1, <1>4 DEF Orphaned, Abandoned
<1>6. w \in State /\ Orphaned(w)
  BY <1>1, <1>5, OrphanedUnlisted
<1> HIDE DEF w
<1> QED BY <1>3, <1>6, OrphanedUnref
-----------------------------------------------------------------------------
(* The phases of a transfer, and the inductive invariant.                  *)

\* Before the first byte: nobody watches, at most the UI has said it is ready.
Unmoved(t) == /\ Intact(t) /\ Untouched(t) /\ ~t.watcher /\ ~t.inpa
              /\ t.ready \subseteq {"ui"}

\* The phases of a transfer.  A dialog is open,
Asked(t) ==
    /\ Unmoved(t) /\ t.dialog # "none" /\ t.ref = 2 /\ t.status = "not_started"
    /\ ~t.in_list /\ t.listening = "no" /\ ~t.connecting /\ ~t.stuck

\* the sender waits for its peer: the protocol has a reference for the callback
\* of the network listener,
Listening(t) ==
    /\ Unmoved(t) /\ t.dialog = "none" /\ t.in_list
    /\ t.status = "not_started" /\ ~t.connecting /\ ~t.stuck
    /\ \/ t.listening = "opening" /\ t.ref = 3
       \/ t.listening = "open" /\ t.ref = 2

\* the receiver waits for its connection, or could not start one,
Connecting(t) ==
    /\ Unmoved(t) /\ t.dialog = "none" /\ t.in_list /\ t.ref = 2
    /\ t.status = "started" /\ t.listening = "no" /\ t.type = "receive"
    /\ \/ t.connecting /\ ~t.stuck
       \/ ~t.connecting /\ t.stuck

\* or else it is under way or over.
Phase(t) == \/ Asked(t) \/ Listening(t) \/ Connecting(t)
            \/ Running(t) \/ Gone(t) \/ Orphaned(t)

\* The inductive invariant.
IInv == TypeOK /\ Phase(x)

\* It holds at first, with a dialog open.
LEMMA InitInv == Init => IInv
<1> SUFFICES ASSUME Init PROVE IInv
  OBVIOUS
<1> DEFINE first == FT_INITIAL_BUFFER_SIZE
           zero == 0
           none == <<>>
<1>1. /\ first \in 1..FT_MAX_BUFFER_SIZE /\ zero \in 0..Size /\ Size \in 0..Size
      /\ none \in Seq(Bytes)
  BY XferAssumption, EmptySeq
<1>2. x \in [type : {"send", "receive"}, ui : {"files", "moderating"},
           auto_clear : BOOLEAN, status : {"not_started"},
           ref : {2}, dialog : {"ask", "choose"}, in_list : {FALSE},
           xd : {"alive"}, listening : {"no"}, inpa : {FALSE},
           connecting : {FALSE}, watcher : {FALSE}, fd : {"none"},
           dest_fp : {FALSE}, ready : {{}},
           current_buffer_size : {first},
           bytes_sent : {zero}, bytes_remaining : {Size}, buffer : {none},
           taken : {zero}, out : {none}, peer : {"there"},
           misused : {FALSE}, overacked : {FALSE}, orphaned : {FALSE},
           stuck : {FALSE}]
  BY DEF Init
<1>3. Phase(x)
  BY <1>2 DEF Phase, Asked, Unmoved, Untouched, Intact
<1>4. x \in State
  <2> DEFINE two == 2
  <2>1. /\ two \in Refs /\ first \in Sizes /\ zero \in Amounts /\ Size \in Amounts
        /\ none \in Contents /\ "not_started" \in Statuses
        /\ {"ask", "choose"} \subseteq Dialogs /\ "alive" \in Lives
        /\ "no" \in Listenings /\ FALSE \in Bools /\ "none" \in Fds
        /\ {} \in Readies /\ "there" \in Peers
    BY <1>1 DEF Refs, Sizes, Amounts, Contents, Statuses, Dialogs, Lives,
                Listenings, Bools, Fds, Readies, Peers
  <2>2. x \in [type : Types, ui : Uis,
           auto_clear : Bools, status : {"not_started"},
           ref : {two}, dialog : {"ask", "choose"}, in_list : {FALSE},
           xd : {"alive"}, listening : {"no"}, inpa : {FALSE},
           connecting : {FALSE}, watcher : {FALSE}, fd : {"none"},
           dest_fp : {FALSE}, ready : {{}},
           current_buffer_size : {first},
           bytes_sent : {zero}, bytes_remaining : {Size}, buffer : {none},
           taken : {zero}, out : {none}, peer : {"there"},
           misused : {FALSE}, overacked : {FALSE}, orphaned : {FALSE},
           stuck : {FALSE}]
    BY <1>2 DEF Types, Uis, Bools
  <2> HIDE DEF first, zero, none, two
  <2> QED BY <2>1, <2>2, StateIs, ZenonT(60)
<1> QED BY <1>3, <1>4 DEF IInv, TypeOK

\* Accepting an offer opens the next dialog.
LEMMA AcceptOfferInv == IInv /\ AcceptOffer => IInv'
<1> SUFFICES ASSUME IInv, AcceptOffer PROVE IInv'
  OBVIOUS
<1>1. x \in State /\ Asked(x)
  BY DEF IInv, TypeOK, Phase, AcceptOffer, Asked, Listening, Connecting, Running,
         Served, Gone, GoneBut, Quiet, Orphaned
<1>2. x' = [x EXCEPT !.dialog = "choose"]
  BY DEF AcceptOffer
<1>3. x' \in State
  BY <1>1, <1>2, StateIs, Values
<1>4. Asked(x')
  BY <1>1, <1>2, StateIs DEF Asked, Unmoved, Untouched, Intact
<1> QED BY <1>3, <1>4 DEF IInv, TypeOK, Phase

\* An answered dialog leaves a transfer that is given up.
LEMMA OnlyAsked ==
    ASSUME IInv, x.dialog # "none"
    PROVE  x \in State /\ Asked(x)
BY DEF IInv, TypeOK, Phase, Listening, Connecting, Running, Served, Gone, GoneBut,
       Quiet, Orphaned

\* Before the first byte, what arrived is the beginning of the file.
LEMMA EmptyOut ==
    ASSUME NEW t, t.out = <<>>
    PROVE  t.out = BytesFrom(0, Len(t.out))
<1>1. BytesFrom(0, 0) = <<>> /\ Len(<<>>) = 0
  BY XferAssumption, NoBytes
<1> QED BY <1>1

\* Refusing takes the two references there are at that point.
LEMMA RefuseInv == IInv /\ Refuse => IInv'
<1> SUFFICES ASSUME IInv, Refuse PROVE IInv'
  OBVIOUS
<1>1. x \in State /\ Asked(x)
  BY OnlyAsked DEF Refuse
<1>2. PICK status \in {"not_started", "cancel_local"} :
        x' = Unref(Unref(Closed([x EXCEPT !.status = status, !.dialog = "none"])))
  BY DEF Refuse
<1> DEFINE a == [x EXCEPT !.status = status, !.dialog = "none"]
           t == Closed(a)
<1>3. a \in State
  BY <1>1, StateIs, Values DEF Statuses
<1>4. /\ a.status = status /\ a.dialog = "none" /\ a.listening = x.listening
      /\ a.ref = x.ref /\ a.in_list = x.in_list /\ a.watcher = x.watcher
      /\ a.connecting = x.connecting /\ a.out = x.out /\ a.xd = x.xd
      /\ a.misused = x.misused /\ a.orphaned = x.orphaned
  BY <1>1, StateIs
<1> HIDE DEF a
<1>5. t \in State
  BY <1>3, ClosedType
<1>6. /\ t.status = a.status /\ t.dialog = a.dialog /\ t.listening = "no"
      /\ t.ref = a.ref /\ t.in_list = a.in_list /\ t.watcher = a.watcher
      /\ t.connecting = a.connecting /\ t.out = a.out
      /\ t.orphaned = a.orphaned /\ ~t.inpa
  BY <1>3, StateIs DEF Closed
<1>7. t.misused = (a.misused \/ a.xd = "freed")
  BY <1>3, StateIs DEF Closed
<1> HIDE DEF t
<1>8. ~t.misused /\ ~t.orphaned /\ t.out = <<>>
  BY <1>1, <1>4, <1>6, <1>7 DEF Asked, Unmoved, Untouched, Intact
<1>9. GoneBut(t, 1 + 1)
  BY <1>1, <1>4, <1>6, <1>8, EmptyOut DEF GoneBut, Quiet, WholeOut, Asked, Unmoved
<1>10. Unref(t) \in State /\ GoneBut(Unref(t), 0 + 1)
  BY <1>5, <1>9, UnrefGone
<1>11. Unref(Unref(t)) \in State /\ GoneBut(Unref(Unref(t)), 0)
  BY <1>10, UnrefGone
<1> QED BY <1>2, <1>11 DEF IInv, TypeOK, Phase, Gone, a, t

\* So does giving up a sending, whether or not the protocol is told.
LEMMA ChooseNoneInv == IInv /\ ChooseNone => IInv'
<1> SUFFICES ASSUME IInv, ChooseNone PROVE IInv'
  OBVIOUS
<1> DEFINE t == [x EXCEPT !.dialog = "none"]
<1>1. x \in State /\ Asked(x)
  BY OnlyAsked DEF ChooseNone
<1>2. x' = Unref(Cancelled(t, "cancel_local")) \/ x' = Unref(Unref(t))
  BY DEF ChooseNone
<1>3. t \in State
  BY <1>1, StateIs, Values
<1>4. /\ t.dialog = "none" /\ t.status = x.status /\ t.listening = x.listening
      /\ t.ref = x.ref /\ t.in_list = x.in_list /\ t.watcher = x.watcher
      /\ t.inpa = x.inpa /\ t.connecting = x.connecting /\ t.out = x.out
      /\ t.xd = x.xd /\ t.misused = x.misused /\ t.orphaned = x.orphaned
  BY <1>1, StateIs
<1> HIDE DEF t
<1>5. /\ Intact(t) /\ ~t.connecting /\ t.out = BytesFrom(0, Len(t.out))
      /\ t.ref = 2 /\ ~t.in_list
  BY <1>1, <1>4, EmptyOut DEF Asked, Unmoved, Untouched, Intact
<1>6. CASE x' = Unref(Cancelled(t, "cancel_local"))
  <2> DEFINE u == Cancelled(t, "cancel_local")
  <2>1. u \in State /\ GoneBut(u, 0 + 1)
    BY <1>3, <1>5, CancelledGone
  <2> HIDE DEF u
  <2>2. Unref(u) \in State /\ GoneBut(Unref(u), 0)
    BY <2>1, UnrefGone
  <2> QED BY <1>6, <2>2 DEF IInv, TypeOK, Phase, Gone, u
<1>7. CASE x' = Unref(Unref(t))
  <2>1. GoneBut(t, 1 + 1)
    BY <1>1, <1>4, <1>5 DEF GoneBut, Quiet, WholeOut, Asked, Unmoved, Intact
  <2>2. Unref(t) \in State /\ GoneBut(Unref(t), 0 + 1)
    BY <1>3, <2>1, UnrefGone
  <2>3. Unref(Unref(t)) \in State /\ GoneBut(Unref(Unref(t)), 0)
    BY <2>2, UnrefGone
  <2> QED BY <1>7, <2>3 DEF IInv, TypeOK, Phase, Gone
<1> QED BY <1>2, <1>6, <1>7

\* Choosing a file lists the transfer, and the reference of the request goes.
LEMMA ChooseInv == IInv /\ Choose => IInv'
<1> SUFFICES ASSUME IInv, Choose PROVE IInv'
  OBVIOUS
<1> DEFINE a == [x EXCEPT !.dialog = "none"]
           three == 3
           t == [a EXCEPT !.in_list = TRUE, !.ref = three]
           s == [t EXCEPT !.status = "started"]
           four == 4
           o == [t EXCEPT !.listening = "opening", !.ref = four]
           c == [s EXCEPT !.connecting = TRUE]
           k == [s EXCEPT !.stuck = TRUE]
<1>1. x \in State /\ Asked(x)
  BY OnlyAsked DEF Choose
<1>2. a \in State /\ a.ref = 2
  BY <1>1, StateIs, Values DEF Asked
<1>3. Listed(a) = t
  <2> HIDE DEF a
  <2>1. a.ref + 1 = three
    BY <1>2
  <2> HIDE DEF three
  <2> QED BY <2>1 DEF Listed
<1>4. three \in Refs /\ four \in Refs /\ t.ref + 1 = four
  BY <1>2, StateIs DEF Refs
<1>5. \/ x.type = "send" /\ x' = Unref(o)
      \/ x' = Unref(Cancelled(t, "cancel_local"))
      \/ x.type # "send" /\ x' = Unref(c)
      \/ x.type # "send" /\ x' = Unref(k)
  BY <1>3, <1>4 DEF Choose
<1> HIDE DEF three, four
<1>6. /\ t \in State /\ t.dialog = "none" /\ t.in_list /\ t.ref = three
      /\ t.status = x.status /\ t.listening = x.listening /\ t.inpa = x.inpa
      /\ t.watcher = x.watcher /\ t.connecting = x.connecting
      /\ t.stuck = x.stuck /\ t.ready = x.ready /\ t.type = x.type
      /\ t.misused = x.misused /\ t.orphaned = x.orphaned /\ t.xd = x.xd
  <2>1. t \in State
    BY <1>2, <1>4, StateIs, Values
  <2> QED BY <1>1, <2>1, StateIs
<1>7. /\ t.bytes_sent = x.bytes_sent /\ t.bytes_remaining = x.bytes_remaining
      /\ t.taken = x.taken /\ t.out = x.out /\ t.buffer = x.buffer
  BY <1>1, StateIs
<1> HIDE DEF a, t
<1>8. Unmoved(t) /\ t.status = "not_started" /\ t.listening = "no"
      /\ ~t.connecting /\ ~t.stuck
  BY <1>1, <1>6, <1>7 DEF Asked, Unmoved, Untouched, Intact
<1>9. c \in State /\ k \in State
  <2>1. s \in State
    BY <1>6, StateIs, Values
  <2>2. TRUE \in Bools
    BY Values
  <2> HIDE DEF s
  <2>3. c \in State
    BY <2>1, <2>2, StateIs
  <2>4. k \in State
    BY <2>1, <2>2, StateIs
  <2> QED BY <2>3, <2>4
<1>10. CASE x' = Unref(Cancelled(t, "cancel_local"))
  <2> DEFINE u == Cancelled(t, "cancel_local")
  <2>1. /\ Intact(t) /\ t.out = BytesFrom(0, Len(t.out))
        /\ t.ref > 1 /\ t.ref > 1 + 1
    BY <1>6, <1>8, EmptyOut DEF Unmoved, Untouched, three
  <2>2. u \in State /\ GoneBut(u, 0 + 1)
    BY <1>6, <1>8, <2>1, CancelledGone
  <2> HIDE DEF u
  <2>3. Unref(u) \in State /\ GoneBut(Unref(u), 0)
    BY <2>2, UnrefGone
  <2> QED BY <1>10, <2>3 DEF IInv, TypeOK, Phase, Gone, u
<1>11. CASE x' = Unref(o)
  <2> DEFINE u == Unref(o)
  <2>1. o \in State
    BY <1>4, <1>6, StateIs, Values
  <2>2. /\ o.dialog = t.dialog /\ o.in_list = t.in_list /\ o.ref = four
        /\ o.status = t.status /\ o.listening = "opening" /\ o.inpa = t.inpa
        /\ o.watcher = t.watcher /\ o.connecting = t.connecting
        /\ o.stuck = t.stuck /\ o.ready = t.ready
        /\ o.misused = t.misused /\ o.orphaned = t.orphaned /\ o.xd = t.xd
    BY <1>6, StateIs
  <2>3. /\ o.bytes_sent = t.bytes_sent /\ o.bytes_remaining = t.bytes_remaining
        /\ o.taken = t.taken /\ o.out = t.out /\ o.buffer = t.buffer
    BY <1>6, StateIs
  <2> HIDE DEF o
  <2>4. o.ref > 0 /\ o.ref > 1 /\ o.ref - 1 = 3
    BY <2>2 DEF four
  <2>5. /\ u \in State /\ u.ref = 3 /\ u.dialog = "none"
        /\ u.in_list = o.in_list /\ u.xd = o.xd
        /\ u.status = o.status /\ u.listening = o.listening /\ u.inpa = o.inpa
        /\ u.watcher = o.watcher /\ u.connecting = o.connecting
        /\ u.stuck = o.stuck /\ u.ready = o.ready
        /\ u.misused = o.misused /\ u.orphaned = o.orphaned
    BY <1>6, <2>1, <2>2, <2>4, UnrefState
  <2>6. /\ u.bytes_sent = o.bytes_sent /\ u.bytes_remaining = o.bytes_remaining
        /\ u.taken = o.taken /\ u.out = o.out /\ u.buffer = o.buffer
    BY <2>1, <2>4, UnrefState
  <2> HIDE DEF u
  <2>7. Listening(u)
    BY <1>6, <1>8, <2>2, <2>3, <2>5, <2>6
       DEF Listening, Unmoved, Untouched, Intact
  <2> QED BY <1>11, <2>5, <2>7 DEF IInv, TypeOK, Phase, u
<1>12. ASSUME NEW d \in {c, k}, x.type # "send", x' = Unref(d)
       PROVE  IInv'
  <2> DEFINE u == Unref(d)
  <2>1. d \in State
    <3> HIDE DEF c, k
    <3> QED BY <1>9
  <2>2. /\ d.dialog = t.dialog /\ d.in_list = t.in_list /\ d.ref = t.ref
        /\ d.status = "started" /\ d.listening = t.listening /\ d.inpa = t.inpa
        /\ d.watcher = t.watcher /\ d.ready = t.ready /\ d.type = t.type
        /\ d.misused = t.misused /\ d.orphaned = t.orphaned /\ d.xd = t.xd
    BY <1>6, StateIs, ZenonT(60)
  <2>3. \/ d.connecting /\ d.stuck = t.stuck
        \/ d.connecting = t.connecting /\ d.stuck
    BY <1>6, StateIs
  <2>4. /\ d.bytes_sent = t.bytes_sent /\ d.bytes_remaining = t.bytes_remaining
        /\ d.taken = t.taken /\ d.out = t.out /\ d.buffer = t.buffer
    BY <1>6, StateIs
  <2> HIDE DEF c, k
  <2>5. d.ref > 0 /\ d.ref > 1 /\ d.ref - 1 = 2
    BY <1>6, <2>2 DEF three
  <2>6. /\ u \in State /\ u.ref = 2 /\ u.dialog = "none"
        /\ u.in_list = d.in_list /\ u.xd = d.xd /\ u.type = d.type
        /\ u.status = d.status /\ u.listening = d.listening /\ u.inpa = d.inpa
        /\ u.watcher = d.watcher /\ u.connecting = d.connecting
        /\ u.stuck = d.stuck /\ u.ready = d.ready
        /\ u.misused = d.misused /\ u.orphaned = d.orphaned
    BY <1>6, <2>1, <2>2, <2>5, UnrefState
  <2>7. /\ u.bytes_sent = d.bytes_sent /\ u.bytes_remaining = d.bytes_remaining
        /\ u.taken = d.taken /\ u.out = d.out /\ u.buffer = d.buffer
    BY <2>1, <2>5, UnrefState
  <2> HIDE DEF u
  <2>8. x.type = "receive"
    BY <1>1, <1>12 DEF State
  <2>9. Unmoved(u)
    BY <1>8, <2>2, <2>4, <2>6, <2>7 DEF Unmoved, Untouched, Intact
  <2>10. Connecting(u)
    BY <1>6, <1>8, <2>2, <2>3, <2>6, <2>8, <2>9 DEF Connecting
  <2> QED BY <1>12, <2>6, <2>10 DEF IInv, TypeOK, Phase, u
<1> QED BY <1>5, <1>10, <1>11, <1>12

\* The user stops a transfer in any of the phases in which it is listed.
LEMMA StopInv == IInv /\ Stop => IInv'
<1> SUFFICES ASSUME IInv, Stop PROVE IInv'
  OBVIOUS
<1> DEFINE u == Cancelled(x, "cancel_local")
<1>1. x' = u /\ x \in State /\ x.in_list /\ ~Over(x)
  BY DEF Stop, IInv, TypeOK
<1>2. Listening(x) \/ Connecting(x) \/ Running(x)
  BY <1>1 DEF IInv, Phase, Asked, Gone, GoneBut, Orphaned, Over
<1>3. CASE Running(x)
  <2>1. Served(x) /\ x.out = BytesFrom(0, x.bytes_sent) /\ x.bytes_sent \in 0..Size
    BY <1>1, <1>3 DEF Running, Buffered, State
  <2>2. Outcome(u)
    BY <1>1, <2>1, ServedCancelled
  <2> QED BY <1>1, <2>2 DEF Outcome, IInv, TypeOK, Phase
<1>4. CASE Connecting(x) /\ x.connecting
  <2>1. Abandoned(x)
    BY <1>4 DEF Connecting, Unmoved, Untouched, Abandoned
  <2>2. u \in State /\ Orphaned(u)
    BY <1>1, <2>1, OrphanedCancelled
  <2> QED BY <1>1, <2>2 DEF IInv, TypeOK, Phase
<1>5. CASE Listening(x) \/ (Connecting(x) /\ ~x.connecting)
  <2>1. /\ Intact(x) /\ ~x.connecting /\ x.out = BytesFrom(0, Len(x.out))
        /\ x.ref > 0 /\ x.ref > 0 + 1
    BY <1>5, EmptyOut DEF Listening, Connecting, Unmoved, Untouched
  <2>2. u \in State /\ GoneBut(u, 0)
    BY <1>1, <2>1, CancelledGone
  <2> QED BY <1>1, <2>2 DEF IInv, TypeOK, Phase, Gone
<1> QED BY <1>2, <1>3, <1>4, <1>5

\* The user removes a transfer that is over.
LEMMA RemoveInv == IInv /\ Remove => IInv'
<1> SUFFICES ASSUME IInv, Remove PROVE IInv'
  OBVIOUS
<1>1. x' = Unlisted(x) /\ x \in State /\ x.in_list /\ Over(x)
  BY DEF Remove, IInv, TypeOK
<1>2. Gone(x) \/ Orphaned(x)
  BY <1>1 DEF IInv, Phase, Asked, Listening, Connecting, Running, Served, Over
<1>3. CASE Gone(x)
  BY <1>1, <1>3, UnlistedGone DEF Gone, IInv, TypeOK, Phase
<1>4. CASE Orphaned(x)
  BY <1>1, <1>4, OrphanedUnlisted DEF IInv, TypeOK, Phase
<1> QED BY <1>2, <1>3, <1>4

\* What the handshake of the UI and the protocol changes.
Readied(t, R, B) == [t EXCEPT !.ready = R, !.watcher = B]

\* The handshake changes nothing else.
LEMMA ReadyState ==
    ASSUME NEW t \in State, NEW R \in Readies, NEW B \in Bools,
           Served(t), Buffered(t, t.bytes_sent)
    PROVE  LET u == Readied(t, R, B) IN
           /\ u \in State /\ Served(u) /\ Buffered(u, u.bytes_sent)
           /\ u.ready = R /\ u.watcher = B /\ u.ui = t.ui
<1> DEFINE u == [t EXCEPT !.ready = R, !.watcher = B]
<1>1. u \in State
  BY StateIs
<1>2. /\ u.taken = t.taken /\ u.type = t.type /\ u.ui = t.ui
      /\ u.bytes_sent = t.bytes_sent
      /\ u.out = t.out /\ u.buffer = t.buffer
      /\ u.status = t.status /\ u.dialog = t.dialog /\ u.in_list = t.in_list
      /\ u.ref = t.ref /\ u.listening = t.listening
      /\ u.connecting = t.connecting /\ u.stuck = t.stuck /\ u.fd = t.fd
      /\ u.dest_fp = t.dest_fp /\ u.xd = t.xd /\ u.misused = t.misused
      /\ u.orphaned = t.orphaned /\ u.bytes_remaining = t.bytes_remaining
  BY StateIs
<1>3. u.ready = R /\ u.watcher = B
  BY StateIs
<1> HIDE DEF u
<1>4. Served(u)
  BY <1>2 DEF Served, Intact
<1>5. Buffered(u, u.bytes_sent)
  BY <1>2 DEF Buffered
<1> QED BY <1>1, <1>2, <1>3, <1>4, <1>5 DEF u, Readied

\* purple_xfer_ui_ready notes that the UI is ready, or moves data.
LEMMA UiReadyInv == IInv /\ UiReady => IInv'
<1> SUFFICES ASSUME IInv, UiReady PROVE IInv'
  OBVIOUS
<1>1. x \in State /\ x.in_list /\ ~Over(x) /\ x.ui = "moderating"
  BY DEF UiReady, IInv, TypeOK
<1>2. Listening(x) \/ Connecting(x) \/ Running(x)
  BY <1>1 DEF IInv, Phase, Asked, Gone, GoneBut, Orphaned, Over
<1> DEFINE R == x.ready \cup {"ui"}
           W == x.watcher
           B == x.watcher \/ x.fd # "none"
           E == {}
<1>3. x.ready \in SUBSET {"ui", "prpl"} /\ R \in SUBSET {"ui", "prpl"}
  BY <1>1 DEF State
<1>4. CASE "prpl" \notin x.ready
  <2>1. x' = [x EXCEPT !.ready = R]
    BY <1>4 DEF UiReady
  <2>2. CASE Running(x)
    <3>1. x' = [x EXCEPT !.ready = R, !.watcher = W] /\ W \in BOOLEAN
      BY <1>1, <2>1, StateIs DEF Bools
    <3>2. W
      BY <1>4, <2>2 DEF Running, Watched
    <3> HIDE DEF R, W
    <3>3. x' \in State /\ Served(x') /\ Buffered(x', x'.bytes_sent) /\ x'.watcher = W
      <4>1. Served(x) /\ Buffered(x, x.bytes_sent)
        BY <2>2 DEF Running
      <4>2. R \in Readies /\ W \in Bools
        BY <1>3, <3>1 DEF Readies, Bools
      <4> DEFINE u == Readied(x, R, W)
      <4>3. /\ u \in State /\ Served(u) /\ Buffered(u, u.bytes_sent)
            /\ u.watcher = W
        BY <1>1, <4>1, <4>2, ReadyState
      <4> HIDE DEF u
      <4> QED BY <3>1, <4>3 DEF u, Readied
    <3>4. Watched(x')
      BY <3>2, <3>3 DEF Watched
    <3> QED BY <3>3, <3>4 DEF Running, IInv, TypeOK, Phase
  <2>3. CASE Listening(x) \/ Connecting(x)
    <3>1. Unmoved(x)
      BY <2>3 DEF Listening, Connecting
    <3>2. x' \in State /\ x'.ready = R
      BY <1>1, <1>3, <2>1, StateIs DEF Readies
    <3>3. /\ x'.taken = x.taken /\ x'.type = x.type
          /\ x'.bytes_sent = x.bytes_sent /\ x'.watcher = x.watcher
          /\ x'.inpa = x.inpa /\ x'.out = x.out /\ x'.buffer = x.buffer
          /\ x'.status = x.status /\ x'.dialog = x.dialog
          /\ x'.in_list = x.in_list /\ x'.ref = x.ref
          /\ x'.listening = x.listening /\ x'.connecting = x.connecting
          /\ x'.stuck = x.stuck /\ x'.xd = x.xd /\ x'.misused = x.misused
          /\ x'.orphaned = x.orphaned
          /\ x'.bytes_remaining = x.bytes_remaining
      BY <1>1, <2>1, StateIs
    <3>4. Unmoved(x')
      BY <1>3, <1>4, <3>1, <3>2, <3>3 DEF Unmoved, Untouched, Intact
    <3>5. Listening(x') \/ Connecting(x')
      BY <2>3, <3>3, <3>4 DEF Listening, Connecting
    <3> QED BY <3>2, <3>5 DEF IInv, TypeOK, Phase
  <2> QED BY <1>2, <2>2, <2>3
<1>5. CASE "prpl" \in x.ready
  <2>1. Running(x)
    BY <1>2, <1>5 DEF Listening, Connecting, Unmoved
  <2>2. B \in BOOLEAN /\ B /\ E \in SUBSET {"ui", "prpl"}
    BY <2>1 DEF Running, Served
  <2> DEFINE t == Readied(x, E, B)
  <2>3. x' \in DoTransfer(t)
    BY <1>5 DEF UiReady, Readied
  <2> HIDE DEF B, E
  <2>4. /\ t \in State /\ Served(t) /\ Buffered(t, t.bytes_sent)
        /\ t.ready = E /\ t.watcher = B
    <3>1. Served(x) /\ Buffered(x, x.bytes_sent)
      BY <2>1 DEF Running
    <3>2. E \in Readies /\ B \in Bools
      BY <2>2 DEF Readies, Bools
    <3> QED BY <1>1, <3>1, <3>2, ReadyState
  <2> HIDE DEF t
  <2>5. Transferring(t)
    BY <2>2, <2>4 DEF Transferring, E
  <2>6. Outcome(x')
    BY <2>3, <2>4, <2>5, DoTransferState
  <2> QED BY <2>6 DEF Outcome, IInv, TypeOK, Phase
<1> QED BY <1>4, <1>5

\* The listener is there, or is not: either way its reference goes.
LEMMA ListenCbInv == IInv /\ ListenCb => IInv'
<1> SUFFICES ASSUME IInv, ListenCb PROVE IInv'
  OBVIOUS
<1>1. x \in State /\ Listening(x) /\ x.ref = 3
  BY DEF ListenCb, IInv, TypeOK, Phase, Asked, Listening, Connecting, Running,
         Served, Gone, GoneBut, Quiet, Orphaned
<1>2. PICK l \in {"no", "open"} :
        LET u == Unref([x EXCEPT !.listening = l]) IN
        \/ l = "open" /\ x' = u
        \/ l = "no" /\ x' = Cancelled(u, "cancel_local")
  BY DEF ListenCb
<1> DEFINE a == [x EXCEPT !.listening = l]
           u == Unref(a)
<1>3. a \in State
  BY <1>1, StateIs, Values
<1>4. /\ a.taken = x.taken /\ a.type = x.type /\ a.ready = x.ready
      /\ a.bytes_sent = x.bytes_sent /\ a.watcher = x.watcher
      /\ a.inpa = x.inpa /\ a.out = x.out /\ a.buffer = x.buffer
      /\ a.status = x.status /\ a.dialog = x.dialog
      /\ a.in_list = x.in_list /\ a.ref = x.ref
      /\ a.listening = l /\ a.connecting = x.connecting
      /\ a.stuck = x.stuck /\ a.xd = x.xd /\ a.misused = x.misused
      /\ a.orphaned = x.orphaned
      /\ a.bytes_remaining = x.bytes_remaining
  BY <1>1, StateIs
<1> HIDE DEF a
<1>5. a.ref > 0 /\ a.ref > 1 /\ a.ref - 1 = 2 /\ a.dialog = "none"
  BY <1>1, <1>4 DEF Listening
<1>6. /\ u \in State /\ u.ref = 2 /\ u.dialog = "none"
      /\ u.in_list = a.in_list /\ u.xd = a.xd
      /\ u.status = a.status /\ u.listening = a.listening /\ u.inpa = a.inpa
      /\ u.watcher = a.watcher /\ u.connecting = a.connecting
      /\ u.stuck = a.stuck /\ u.ready = a.ready
      /\ u.misused = a.misused /\ u.orphaned = a.orphaned
  BY <1>3, <1>5, UnrefState
<1>7. /\ u.bytes_sent = a.bytes_sent /\ u.bytes_remaining = a.bytes_remaining
      /\ u.taken = a.taken /\ u.out = a.out /\ u.buffer = a.buffer
  BY <1>3, <1>5, UnrefState
<1>8. (l = "open" /\ x' = u) \/ x' = Cancelled(u, "cancel_local")
  BY <1>2 DEF a
<1> HIDE DEF u
<1>9. Unmoved(u)
  BY <1>1, <1>4, <1>6, <1>7 DEF Listening, Unmoved, Untouched, Intact
<1>10. CASE l = "open" /\ x' = u
  <2>1. Listening(u)
    BY <1>1, <1>4, <1>6, <1>9, <1>10 DEF Listening
  <2> QED BY <1>6, <1>10, <2>1 DEF IInv, TypeOK, Phase
<1>11. CASE x' = Cancelled(u, "cancel_local")
  <2>1. /\ Intact(u) /\ ~u.connecting /\ u.out = BytesFrom(0, Len(u.out))
        /\ u.ref > 0 /\ u.ref > 0 + 1
    BY <1>1, <1>4, <1>6, <1>9, EmptyOut DEF Listening, Unmoved, Untouched
  <2>2. x' \in State /\ GoneBut(x', 0)
    BY <1>6, <1>11, <2>1, CancelledGone
  <2> QED BY <2>2 DEF IInv, TypeOK, Phase, Gone
<1> QED BY <1>8, <1>10, <1>11

\* The peer of a sender connects.
LEMMA PeerConnectsInv == IInv /\ PeerConnects => IInv'
<1> SUFFICES ASSUME IInv, PeerConnects PROVE IInv'
  OBVIOUS
<1>1. x \in State /\ Listening(x) /\ x.ref = 2
  BY DEF PeerConnects, IInv, TypeOK, Phase, Asked, Listening, Connecting, Running,
         Served, Gone, GoneBut, Quiet, Orphaned
<1> DEFINE t == [x EXCEPT !.listening = "no", !.inpa = TRUE, !.fd = "open",
                          !.status = "started"]
<1>2. x' \in Begun(t)
  BY DEF PeerConnects
<1>3. t \in State
  BY <1>1, StateIs, Values
<1>4. /\ t.taken = x.taken /\ t.bytes_sent = x.bytes_sent
      /\ t.out = x.out /\ t.buffer = x.buffer /\ t.dialog = x.dialog
      /\ t.in_list = x.in_list /\ t.ref = x.ref /\ t.connecting = x.connecting
      /\ t.stuck = x.stuck /\ t.xd = x.xd /\ t.misused = x.misused
      /\ t.orphaned = x.orphaned /\ t.bytes_remaining = x.bytes_remaining
  BY <1>1, StateIs
<1>5. t.listening = "no" /\ t.fd = "open" /\ t.status = "started"
  BY <1>1, StateIs
<1> HIDE DEF t
<1>6. Opened(t)
  BY <1>1, <1>4, <1>5 DEF Listening, Unmoved, Untouched, Intact, Opened
<1>7. Outcome(x')
  BY <1>2, <1>3, <1>6, BegunState
<1> QED BY <1>7 DEF Outcome, IInv, TypeOK, Phase

\* What happens to an orphan when its connection is there at last.
LEMMA OrphanedBegun ==
    ASSUME NEW t \in State, Orphaned(t), NEW v \in Begun(t)
    PROVE  v \in State /\ Orphaned(v)
<1>1. CASE v = Cancelled(t, "cancel_local")
  <2>1. Abandoned(t)
    BY DEF Orphaned, Abandoned
  <2> QED BY <1>1, <2>1, OrphanedCancelled
<1>2. CASE v = [t EXCEPT !.dest_fp = (t.ui = "files"), !.watcher = (t.fd # "none")]
  <2>1. (t.ui = "files") \in Bools /\ (t.fd # "none") \in Bools
    BY DEF Bools
  <2>2. v \in State
    BY <1>2, <2>1, StateIs
  <2>3. /\ v.orphaned = t.orphaned /\ v.status = t.status /\ v.dialog = t.dialog
        /\ v.type = t.type /\ v.listening = t.listening /\ v.inpa = t.inpa
        /\ v.bytes_remaining = t.bytes_remaining /\ v.out = t.out
    BY <1>2, StateIs
  <2> QED BY <2>2, <2>3 DEF Orphaned
<1> QED BY <1>1, <1>2 DEF Begun

\* A receiver's connection is there: the transfer begins, or is an orphan.
LEMMA ConnectCbInv == IInv /\ ConnectCb => IInv'
<1> SUFFICES ASSUME IInv, ConnectCb PROVE IInv'
  OBVIOUS
<1> DEFINE t == [x EXCEPT !.connecting = FALSE]
           m == [t EXCEPT !.misused = TRUE]
           o == [t EXCEPT !.fd = "open"]
<1>1. x \in State /\ x.connecting
  BY DEF ConnectCb, IInv, TypeOK
<1>2. Connecting(x) \/ Orphaned(x)
  BY <1>1 DEF IInv, Phase, Asked, Listening, Running, Served, Gone, GoneBut, Quiet
<1>3. \/ x.ref = 0 /\ x' = m
      \/ x' = Cancelled(t, "cancel_local")
      \/ x' \in Begun(o)
  BY DEF ConnectCb
<1>4. t \in State
  BY <1>1, StateIs, Values
<1>5. /\ t.taken = x.taken /\ t.bytes_sent = x.bytes_sent /\ t.type = x.type
      /\ t.status = x.status /\ t.listening = x.listening
      /\ t.out = x.out /\ t.buffer = x.buffer /\ t.dialog = x.dialog
      /\ t.in_list = x.in_list /\ t.ref = x.ref /\ ~t.connecting
      /\ t.stuck = x.stuck /\ t.xd = x.xd /\ t.misused = x.misused
      /\ t.orphaned = x.orphaned /\ t.bytes_remaining = x.bytes_remaining
      /\ t.inpa = x.inpa
  BY <1>1, StateIs
<1> HIDE DEF t
<1>6. o \in State
  BY <1>4, StateIs, Values
<1>7. /\ o.taken = t.taken /\ o.bytes_sent = t.bytes_sent /\ o.type = t.type
      /\ o.status = t.status /\ o.listening = t.listening /\ o.fd = "open"
      /\ o.out = t.out /\ o.buffer = t.buffer /\ o.dialog = t.dialog
      /\ o.in_list = t.in_list /\ o.ref = t.ref /\ o.connecting = t.connecting
      /\ o.stuck = t.stuck /\ o.xd = t.xd /\ o.misused = t.misused
      /\ o.orphaned = t.orphaned /\ o.bytes_remaining = t.bytes_remaining
      /\ o.inpa = t.inpa
  BY <1>4, StateIs
<1>8. m \in State
  BY <1>4, StateIs, Values
<1>9. Orphaned(t) => Orphaned(m)
  BY <1>4, StateIs DEF Orphaned
<1> HIDE DEF o, m
<1>10. CASE Connecting(x)
  <2>1. x' = Cancelled(t, "cancel_local") \/ x' \in Begun(o)
    BY <1>3, <1>10 DEF Connecting
  <2>2. Intact(t) /\ ~t.stuck /\ t.out = <<>>
    BY <1>1, <1>5, <1>10 DEF Connecting, Unmoved, Untouched, Intact
  <2>3. CASE x' = Cancelled(t, "cancel_local")
    <3>1. t.out = BytesFrom(0, Len(t.out)) /\ t.ref > 0 /\ t.ref > 0 + 1
      BY <1>5, <1>10, <2>2, EmptyOut DEF Connecting
    <3>2. x' \in State /\ GoneBut(x', 0)
      BY <1>4, <1>5, <2>2, <2>3, <3>1, CancelledGone
    <3> QED BY <3>2 DEF IInv, TypeOK, Phase, Gone
  <2>4. CASE x' \in Begun(o)
    <3>1. Opened(o)
      BY <1>5, <1>7, <1>10, <2>2
         DEF Connecting, Unmoved, Untouched, Intact, Opened
    <3>2. Outcome(x')
      BY <1>6, <2>4, <3>1, BegunState
    <3> QED BY <3>2 DEF Outcome, IInv, TypeOK, Phase
  <2> QED BY <2>1, <2>3, <2>4
<1>11. CASE Orphaned(x)
  <2>1. Orphaned(t)
    BY <1>5, <1>11 DEF Orphaned
  <2>2. Orphaned(o) /\ Abandoned(t)
    BY <1>7, <2>1 DEF Orphaned, Abandoned
  <2>3. x' \in State /\ Orphaned(x')
    BY <1>3, <1>4, <1>6, <1>8, <1>9, <2>1, <2>2, OrphanedCancelled, OrphanedBegun
  <2> QED BY <2>3 DEF IInv, TypeOK, Phase
<1> QED BY <1>2, <1>10, <1>11

\* do_transfer of an orphan finds nothing left to read and cancels it again.
LEMMA OrphanedTransfer ==
    ASSUME NEW t \in State, Orphaned(t), NEW v \in DoTransfer(t)
    PROVE  v \in State /\ Orphaned(v)
<1>1. Portion(t) = 0
  BY XferAssumption DEF Orphaned, Portion, State
<1>2. v \in Receive(t)
  BY DEF Orphaned, DoTransfer
<1>3. v = t \/ v = Cancelled(t, "cancel_remote")
  BY <1>1, <1>2 DEF Receive
<1>4. Abandoned(t)
  BY DEF Orphaned, Abandoned
<1> QED BY <1>3, <1>4, OrphanedCancelled

\* The socket is ready: the handshake, or data are moved.
LEMMA TransferCbInv == IInv /\ TransferCb => IInv'
<1> SUFFICES ASSUME IInv, TransferCb PROVE IInv'
  OBVIOUS
<1> DEFINE R == x.ready \cup {"prpl"}
           E == IF x.dest_fp THEN x.ready ELSE {}
           W == x.watcher
           N == FALSE
           t == [x EXCEPT !.ready = E]
           n == Readied(x, R, N)
<1>1. x \in State /\ x.watcher
  BY DEF TransferCb, IInv, TypeOK
<1>2. Running(x) \/ Orphaned(x)
  BY <1>1 DEF IInv, Phase, Asked, Listening, Connecting, Unmoved, Gone, GoneBut,
              Quiet
<1>3. \/ ~x.dest_fp /\ "ui" \notin x.ready /\ x' = n
      \/ x' \in DoTransfer(t)
  BY DEF TransferCb, Readied
<1>4. R \in Readies /\ E \in Readies /\ W \in Bools /\ N \in Bools
  BY <1>1, StateIs, Values
<1>5. t = [x EXCEPT !.ready = E, !.watcher = W]
  BY <1>1, StateIs
<1>6. CASE Running(x)
  <2>1. Served(x) /\ Buffered(x, x.bytes_sent)
    BY <1>6 DEF Running
  <2>2. CASE ~x.dest_fp /\ "ui" \notin x.ready /\ x' = n
    <3>1. R = {"prpl"}
      BY <1>1, <2>2 DEF State
    <3>2. x.ui = "moderating"
      BY <1>1, <2>1, <2>2 DEF Served, State
    <3> HIDE DEF R, N, E, W, t
    <3>3. /\ n \in State /\ Served(n) /\ Buffered(n, n.bytes_sent)
          /\ n.ready = R
      <4>1. x \in State /\ R \in Readies /\ N \in Bools
        BY <1>1, <1>4
      <4> QED BY <2>1, <4>1, ReadyState
    <3>4. n.ui = x.ui
      BY <1>1, StateIs DEF Readied
    <3> HIDE DEF n
    <3>5. Running(n)
      BY <3>1, <3>2, <3>3, <3>4 DEF Running, Watched
    <3> QED BY <2>2, <3>3, <3>5 DEF IInv, TypeOK, Phase
  <2>3. CASE x' \in DoTransfer(t)
    <3>1. x.ui = "moderating" => E = {}
      BY <2>1 DEF Served
    <3> HIDE DEF R, N, E, W, t, n
    <3> DEFINE u == Readied(x, E, W)
    <3>2. /\ u \in State /\ Served(u) /\ Buffered(u, u.bytes_sent)
          /\ u.ready = E /\ u.watcher = W
      <4>1. x \in State /\ E \in Readies /\ W \in Bools
        BY <1>1, <1>4
      <4> QED BY <2>1, <4>1, ReadyState
    <3>3. u.ui = x.ui /\ t = u
      BY <1>1, <1>5, StateIs DEF Readied
    <3> HIDE DEF u
    <3>4. Transferring(t)
      BY <1>1, <3>1, <3>2, <3>3 DEF Transferring, W
    <3>5. Outcome(x')
      BY <2>3, <3>2, <3>3, <3>4, DoTransferState
    <3> QED BY <3>5 DEF Outcome, IInv, TypeOK, Phase
  <2> QED BY <1>3, <2>2, <2>3
<1>7. CASE Orphaned(x)
  <2> HIDE DEF E, R, N
  <2>1. n \in State /\ t \in State
    BY <1>1, <1>4, StateIs DEF Readied
  <2>2. Orphaned(n) /\ Orphaned(t)
    BY <1>1, <1>7, StateIs DEF Orphaned, Readied
  <2> HIDE DEF n, t
  <2>3. x' \in State /\ Orphaned(x')
    BY <1>3, <2>1, <2>2, OrphanedTransfer
  <2> QED BY <2>3 DEF IInv, TypeOK, Phase
<1> QED BY <1>2, <1>6, <1>7

\* The watch for acknowledgements may go, and the peer, at any time.
LEMMA PhaseKept ==
    ASSUME NEW t \in State, NEW u \in State, Phase(t), u.inpa => t.inpa,
           /\ u.taken = t.taken /\ u.type = t.type /\ u.ui = t.ui
           /\ u.bytes_sent = t.bytes_sent /\ u.watcher = t.watcher
           /\ u.out = t.out /\ u.buffer = t.buffer /\ u.ready = t.ready
           /\ u.status = t.status /\ u.dialog = t.dialog /\ u.in_list = t.in_list
           /\ u.ref = t.ref /\ u.listening = t.listening
           /\ u.connecting = t.connecting /\ u.stuck = t.stuck /\ u.fd = t.fd
           /\ u.dest_fp = t.dest_fp /\ u.xd = t.xd /\ u.misused = t.misused
           /\ u.orphaned = t.orphaned /\ u.bytes_remaining = t.bytes_remaining
           /\ u.overacked = t.overacked
    PROVE  Phase(u)
<1>1. Intact(t) => Intact(u)
  BY DEF Intact
<1>2. Unmoved(t) => Unmoved(u)
  BY <1>1 DEF Unmoved, Untouched
<1>3. CASE Asked(t)
  BY <1>2, <1>3 DEF Phase, Asked
<1>4. CASE Listening(t)
  BY <1>2, <1>4 DEF Phase, Listening
<1>5. CASE Connecting(t)
  BY <1>2, <1>5 DEF Phase, Connecting
<1>6. CASE Running(t)
  BY <1>1, <1>6 DEF Phase, Running, Served, Watched, Buffered
<1>7. CASE Gone(t)
  BY <1>7 DEF Phase, Gone, GoneBut, Quiet, WholeOut, Over
<1>8. CASE Orphaned(t)
  BY <1>8 DEF Phase, Orphaned
<1> QED BY <1>3, <1>4, <1>5, <1>6, <1>7, <1>8 DEF Phase

\* The end that a peer brings about by acknowledging the whole file.
LEMMA OverackedGone ==
    ASSUME NEW t \in State, Running(t)
    PROVE  LET u == Ended(Completed([t EXCEPT !.inpa = FALSE, !.overacked = TRUE]))
           IN  u \in State /\ Gone(u)
<1> DEFINE no == FALSE
           yes == TRUE
           a == [t EXCEPT !.inpa = no, !.overacked = yes]
           c == Completed(a)
<1>0. no \in Bools /\ yes \in Bools /\ ~no /\ yes
  BY Values
<1> HIDE DEF no, yes
<1>1. a \in State /\ a.overacked
  BY <1>0, StateIs
<1>2. /\ a.type = t.type /\ a.ui = t.ui /\ a.status = t.status
      /\ a.dialog = t.dialog /\ a.in_list = t.in_list /\ a.ref = t.ref
      /\ a.listening = t.listening /\ a.connecting = t.connecting
      /\ a.stuck = t.stuck /\ a.fd = t.fd /\ a.dest_fp = t.dest_fp
      /\ a.xd = t.xd /\ a.misused = t.misused /\ a.orphaned = t.orphaned
      /\ a.bytes_sent = t.bytes_sent /\ a.bytes_remaining = t.bytes_remaining
      /\ a.out = t.out
  BY StateIs
<1> HIDE DEF a
<1>3. Served(a)
  BY <1>2 DEF Running, Served, Intact
<1>4. t.out = BytesFrom(0, t.bytes_sent) /\ t.bytes_sent \in 0..Size
  BY DEF Running, Buffered, State
<1>5. Len(t.out) = t.bytes_sent
  BY <1>4, XferAssumption, BytesFromType
<1>6. /\ c \in State /\ c.status = "done" /\ c.dialog = "none" /\ Intact(c)
      /\ c.ref \in {1, 2} /\ (c.in_list => c.ref = 2) /\ ~c.connecting
      /\ c.out = a.out /\ c.overacked = a.overacked
  BY <1>1, <1>3, CompletedState
<1>7. Ended(Completed([t EXCEPT !.inpa = FALSE, !.overacked = TRUE])) = Ended(c)
  BY DEF a, no, yes
<1> HIDE DEF c
<1>8. WholeOut(c)
  BY <1>1, <1>2, <1>4, <1>5, <1>6 DEF WholeOut
<1>9. c.ref > 0 /\ (c.in_list => c.ref > 1)
  BY <1>6
<1>10. Ended(c) \in State /\ Gone(Ended(c))
  BY <1>6, <1>8, <1>9, EndedGone
<1> QED BY <1>7, <1>10

\* A peer that leaves changes nothing that the phases speak of; one that
\* acknowledges the file ends the transfer.
LEMMA PeerGoesInv == IInv /\ (AckCb \/ PeerLeaves) => IInv'
<1> SUFFICES ASSUME IInv, AckCb \/ PeerLeaves PROVE IInv'
  OBVIOUS
<1>1. x \in State /\ Phase(x)
  BY DEF IInv, TypeOK
<1>2. CASE x' = [x EXCEPT !.inpa = FALSE] \/ x' = [x EXCEPT !.peer = "gone"]
  <2>1. x' \in State
    BY <1>1, <1>2, StateIs, Values, ZenonT(60)
  <2>2. x'.inpa => x.inpa
    BY <1>1, <1>2, StateIs
  <2>3. /\ x'.taken = x.taken /\ x'.type = x.type /\ x'.ui = x.ui
        /\ x'.bytes_sent = x.bytes_sent /\ x'.watcher = x.watcher
        /\ x'.out = x.out /\ x'.buffer = x.buffer /\ x'.ready = x.ready
        /\ x'.status = x.status /\ x'.dialog = x.dialog
        /\ x'.in_list = x.in_list
        /\ x'.ref = x.ref /\ x'.listening = x.listening
        /\ x'.connecting = x.connecting /\ x'.stuck = x.stuck /\ x'.fd = x.fd
        /\ x'.dest_fp = x.dest_fp /\ x'.xd = x.xd /\ x'.misused = x.misused
        /\ x'.orphaned = x.orphaned /\ x'.bytes_remaining = x.bytes_remaining
        /\ x'.overacked = x.overacked
    BY <1>1, <1>2, StateIs
  <2>4. Phase(x')
    BY <1>1, <2>1, <2>2, <2>3, PhaseKept
  <2> QED BY <2>1, <2>4 DEF IInv, TypeOK, Phase
<1>3. CASE /\ AckCb
           /\ x' = Ended(Completed([x EXCEPT !.inpa = FALSE, !.overacked = TRUE]))
  <2>0. x.inpa
    BY <1>3 DEF AckCb
  <2>1. Running(x)
    BY <1>1, <2>0 DEF Phase, Asked, Listening, Connecting, Unmoved, Gone, GoneBut,
                      Quiet, Orphaned
  <2>2. x' \in State /\ Gone(x')
    BY <1>1, <1>3, <2>1, OverackedGone
  <2> QED BY <2>2 DEF IInv, TypeOK, Phase
<1> QED BY <1>2, <1>3 DEF AckCb, PeerLeaves

\* Every step keeps the invariant.
LEMMA NextInv == IInv /\ [Next]_x => IInv'
<1> SUFFICES ASSUME IInv, [Next]_x PROVE IInv'
  OBVIOUS
<1>1. CASE AcceptOffer
  BY <1>1, AcceptOfferInv
<1>2. CASE Refuse
  BY <1>2, RefuseInv
<1>3. CASE ChooseNone
  BY <1>3, ChooseNoneInv
<1>4. CASE Choose
  BY <1>4, ChooseInv
<1>5. CASE Stop
  BY <1>5, StopInv
<1>6. CASE Remove
  BY <1>6, RemoveInv
<1>7. CASE UiReady
  BY <1>7, UiReadyInv
<1>8. CASE ListenCb
  BY <1>8, ListenCbInv
<1>9. CASE PeerConnects
  BY <1>9, PeerConnectsInv
<1>10. CASE ConnectCb
  BY <1>10, ConnectCbInv
<1>11. CASE TransferCb
  BY <1>11, TransferCbInv
<1>12. CASE AckCb \/ PeerLeaves
  BY <1>12, PeerGoesInv
<1>13. CASE UNCHANGED x
  BY <1>13 DEF IInv, TypeOK
<1> QED BY <1>1, <1>2, <1>3, <1>4, <1>5, <1>6, <1>7, <1>8, <1>9, <1>10, <1>11,
           <1>12, <1>13 DEF Next

\* So it holds always.
LEMMA Invariance == Spec => []IInv
BY InitInv, NextInv, PTL DEF Spec

\* The state has its type, with the counts of bytes within the file's size and
\* no more than four references, for files and buffers of any size.
THEOREM TypeCorrect == Spec => []TypeOK
<1>1. IInv => TypeOK
  BY DEF IInv
<1> QED BY <1>1, Invariance, PTL

\* However do_transfer's reads and writes are split, and whatever
\* purple_xfer_write leaves over, the destination has a beginning of the file, and
\* the whole of it when purple_xfer_set_completed was called, unless it was called
\* because the peer acknowledged the whole file before it was sent.
THEOREM FileArrivesWhole == Spec => []WholeFile
<1>1. IInv => WholeFile
  <2> SUFFICES ASSUME IInv PROVE WholeFile
    OBVIOUS
  <2>1. x \in State /\ Phase(x)
    BY DEF IInv, TypeOK
  <2>2. CASE Asked(x) \/ Listening(x) \/ Connecting(x) \/ Orphaned(x)
    <3>1. x.out = <<>> /\ x.status # "done"
      BY <2>2 DEF Asked, Listening, Connecting, Orphaned, Unmoved, Untouched
    <3> QED BY <3>1, EmptyOut DEF WholeFile
  <2>3. CASE Running(x)
    <3>1. /\ x.out = BytesFrom(0, x.bytes_sent) /\ x.bytes_sent \in 0..Size
          /\ x.status # "done"
      BY <2>1, <2>3 DEF Running, Served, Buffered, State
    <3>2. Len(x.out) = x.bytes_sent
      BY <3>1, XferAssumption, BytesFromType
    <3> QED BY <3>1, <3>2 DEF WholeFile
  <2>4. CASE Gone(x)
    BY <2>4 DEF Gone, GoneBut, WholeOut, WholeFile
  <2> QED BY <2>1, <2>2, <2>3, <2>4 DEF Phase
<1> QED BY <1>1, Invariance, PTL

\* A transfer that has started has transfer_cb installed, or waits for
\* purple_xfer_ui_ready with the protocol's flag set: the two halves of the
\* handshake never both wait.
THEOREM NoWakeUpIsLost == Spec => []SomebodyContinues
<1>1. IInv => SomebodyContinues
  BY DEF IInv, Phase, Asked, Listening, Connecting, Running, Watched, Gone, GoneBut,
         Orphaned, SomebodyContinues
<1> QED BY <1>1, Invariance, PTL

\* Unless a transfer was cancelled while connect_cb was outstanding, purple_xfer_ref and
\* purple_xfer_unref balance: no callback, dialog or list entry outlives the
\* last reference.
THEOREM ReferencesSuffice == Spec => []StillReferenced
<1>1. IInv => StillReferenced
  <2> SUFFICES ASSUME IInv, ~x.orphaned
               PROVE  /\ ~x.misused
                      /\ (\/ x.watcher \/ x.inpa \/ x.dialog # "none" \/ x.in_list
                          \/ x.listening # "no" \/ x.connecting) => x.ref > 0
    BY DEF StillReferenced
  <2>1. CASE Gone(x)
    BY <2>1 DEF Gone, GoneBut, Quiet
  <2>2. CASE ~Gone(x)
    BY <2>2 DEF IInv, Phase, Asked, Listening, Connecting, Running, Served, Unmoved,
                Intact, Orphaned
  <2> QED BY <2>1, <2>2
<1> QED BY <1>1, Invariance, PTL
=============================================================================

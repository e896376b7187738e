-------------------------------- MODULE Xfer -------------------------------
(***************************************************************************)
(* A file transfer: libpurple/ft.c, with the protocol that uses it the way *)
(* ft.c offers it, IRC's DCC SEND (protocols/irc/dcc_send.c), and Pidgin's *)
(* list of transfers (pidgin/gtkft.c).  A sender listens and is connected  *)
(* to, a receiver connects; the data is moved when the socket is ready,    *)
(* or, for a UI that moderates its side (ui_read, ui_write), when both     *)
(* are.  The user may stop the transfer, the peer leave, the network take  *)
(* part of a write, and the disk fail, at any time.                        *)
(*                                                                         *)
(* One transfer is modelled, of a file of Size bytes that are numbered.  A *)
(* handler is a function from the transfer to the set of what it may       *)
(* become.  A definition that a comment calls a slip is a plausible        *)
(* mistake in the one after it.                                            *)
(***************************************************************************)
EXTENDS Naturals, Sequences

CONSTANTS
    Size,                       \* of the file
    FT_INITIAL_BUFFER_SIZE,
    FT_MAX_BUFFER_SIZE

ASSUME XferAssumption ==
    /\ Size \in Nat \ {0} /\ FT_INITIAL_BUFFER_SIZE \in Nat \ {0}
    /\ FT_MAX_BUFFER_SIZE \in Nat /\ FT_INITIAL_BUFFER_SIZE <= FT_MAX_BUFFER_SIZE

VARIABLE x

Bytes == 1..Size
BytesFrom(from, n) == [i \in 1..n |-> from + i]     \* n bytes of the file

State == [
    type : {"send", "receive"},
    ui   : {"files", "moderating"},     \* who reads and writes the file
    auto_clear : BOOLEAN,               \* the preference of Pidgin's list
    status : {"not_started", "accepted", "started", "done",
              "cancel_local", "cancel_remote"},
    ref    : 0..4,
    dialog : {"none", "ask", "choose"},
    in_list    : BOOLEAN,               \* Pidgin's list holds a reference
    xd         : {"alive", "freed"},    \* what DCC keeps
    listening  : {"no", "opening", "open"},
    inpa       : BOOLEAN,               \* the watch for acknowledgements
    connecting : BOOLEAN,               \* connect_cb is to be called
    watcher    : BOOLEAN,               \* transfer_cb is to be called
    fd         : {"none", "open", "closed"},
    dest_fp    : BOOLEAN,
    ready      : SUBSET {"ui", "prpl"},
    current_buffer_size : 1..FT_MAX_BUFFER_SIZE,
    bytes_sent : 0..Size, bytes_remaining : 0..Size,
    buffer : Seq(Bytes),                \* read, not yet written
    taken  : 0..Size,                   \* what the source has given
    out    : Seq(Bytes),                \* what the destination has got
    peer   : {"there", "gone"},
    misused  : BOOLEAN,                 \* freed memory was used
    overacked : BOOLEAN,                \* history: the peer acknowledged more
                                        \* than it was sent
    orphaned : BOOLEAN,                 \* history: cancelled while connecting
    stuck    : BOOLEAN ]                \* history: could not start to connect

Init ==
    x \in [type : {"send", "receive"}, ui : {"files", "moderating"},
           auto_clear : BOOLEAN, status : {"not_started"},
           ref : {2}, dialog : {"ask", "choose"}, in_list : {FALSE},
           xd : {"alive"}, listening : {"no"}, inpa : {FALSE},
           connecting : {FALSE}, watcher : {FALSE}, fd : {"none"},
           dest_fp : {FALSE}, ready : {{}},
           current_buffer_size : {FT_INITIAL_BUFFER_SIZE},
           bytes_sent : {0}, bytes_remaining : {Size}, buffer : {<<>>},
           taken : {0}, out : {<<>>}, peer : {"there"}, misused : {FALSE},
           overacked : {FALSE}, orphaned : {FALSE}, stuck : {FALSE}]
    /\ x.dialog = IF x.type = "send" THEN "choose" ELSE "ask"

Over(t) == t.status \in {"done", "cancel_local", "cancel_remote"}

-----------------------------------------------------------------------------
(* References, and the end of a transfer.                                  *)

\* irc_dccsend_send_destroy, irc_dccsend_recv_destroy
Closed(t) == [t EXCEPT !.xd = "freed", !.misused = @ \/ t.xd = "freed",
                       !.listening = "no", !.inpa = FALSE]

\* What purple_xfer_end and the cancels release.
Released(t) == [t EXCEPT !.watcher = FALSE, !.dest_fp = FALSE,
                         !.fd = IF @ = "open" THEN "closed" ELSE @]

\* purple_xfer_cancel_local and _remote, to the UI's part.
Stopped(t, status) ==
    [Released(Closed([t EXCEPT !.status = status, !.dialog = "none"])) EXCEPT
        !.bytes_remaining = 0, !.orphaned = @ \/ t.connecting]

\* purple_xfer_unref and purple_xfer_destroy
Unref(t) ==
    IF t.ref = 0 THEN [t EXCEPT !.misused = TRUE]
    ELSE LET u == [t EXCEPT !.ref = @ - 1]
         IN  IF u.ref = 0 /\ u.status = "started" THEN Stopped(u, "cancel_local")
             ELSE IF u.ref = 0 THEN [u EXCEPT !.dialog = "none"]
             ELSE u

\* pidgin_xfer_dialog_remove_xfer
Unlisted(t) == IF t.in_list THEN Unref([t EXCEPT !.in_list = FALSE]) ELSE t

\* Slip: the list does not own what it shows.
ListedUnowned(t) == [t EXCEPT !.in_list = TRUE]

\* purple_xfer_add, pidgin_xfer_dialog_add_xfer
Listed(t) == [t EXCEPT !.in_list = TRUE, !.ref = @ + 1]

\* purple_xfer_cancel_local, purple_xfer_cancel_remote
Cancelled(t, status) ==
    LET u == Stopped(t, status)
    IN  Unref(IF status = "cancel_local" /\ t.auto_clear THEN Unlisted(u) ELSE u)

\* purple_xfer_set_completed
Completed(t) ==
    LET u == [t EXCEPT !.status = "done"]
    IN  IF t.auto_clear THEN Unlisted(u) ELSE u

\* purple_xfer_end
Ended(t) == IF t.status = "done" THEN Unref(Released(Closed(t)))
                                 ELSE Cancelled(t, "cancel_local")

-----------------------------------------------------------------------------
(* The transfer of data.                                                   *)

\* Slip: as much as there is room for.
PortionUnbounded(t) == t.current_buffer_size

\* How much is read at once.
Portion(t) == IF t.bytes_remaining < t.current_buffer_size
              THEN t.bytes_remaining ELSE t.current_buffer_size

\* purple_xfer_increase_buffer_size
Grown(size) == IF (3 * size) \div 2 < FT_MAX_BUFFER_SIZE
               THEN (3 * size) \div 2 ELSE FT_MAX_BUFFER_SIZE

\* The end of do_transfer, when r bytes have been moved; filled: all there was
\* room for.
Moved(t, r, filled) ==
    LET u == IF t.bytes_sent + r >= Size THEN Completed(t) ELSE t
        v == [u EXCEPT !.bytes_sent = @ + r, !.bytes_remaining = @ - r,
                       !.current_buffer_size = IF filled THEN Grown(@) ELSE @]
    IN  IF v.status = "done" THEN Ended(v) ELSE v

\* do_transfer, PURPLE_XFER_RECEIVE.  A read from a socket that was closed is an
\* error, and so is one of no bytes.
Receive(t) ==
    LET Chunk(r) == [t EXCEPT !.out = @ \o BytesFrom(t.taken, r), !.taken = @ + r]
    IN  (IF t.peer = "gone" \/ Portion(t) = 0
         THEN {Cancelled(t, "cancel_remote")} ELSE {})
        \cup (IF t.peer = "there" THEN {t} ELSE {})
        \cup {Cancelled([t EXCEPT !.taken = @ + r], "cancel_local") :
                r \in 1..Portion(t)}
        \cup {Moved(Chunk(r), r, r = t.current_buffer_size) : r \in 1..Portion(t)}

\* Slip: what was not written is dropped.
UnsentDropped(data, r) == <<>>

\* What remains in priv->buffer when r bytes were written.
Unsent(data, r) == SubSeq(data, r + 1, Len(data))

\* purple_xfer_write of data that were read, and what do_transfer makes of the
\* result.
WriteOut(t, data) ==
    LET Written(r) ==
            IF t.ui = "files" THEN [t EXCEPT !.buffer = Unsent(data, r)]
            ELSE [t EXCEPT !.taken = @ - (Len(data) - r)]   \* data_not_sent
        Sent(r) == [Written(r) EXCEPT !.out = @ \o SubSeq(data, 1, r)]
    IN  (IF t.peer = "gone" THEN {Cancelled(t, "cancel_remote")} ELSE {})
        \cup {Moved(Sent(r), r, r = Len(data)) : r \in 0..Len(data)}

\* do_transfer, PURPLE_XFER_SEND, when the file is read by ft.c.
SendFile(t) ==
    LET need == IF Len(t.buffer) < Portion(t) THEN Portion(t) - Len(t.buffer)
                                              ELSE 0
        data == t.buffer \o BytesFrom(t.taken, need)
    IN  WriteOut([t EXCEPT !.taken = @ + need], data)
        \cup (IF need > 0 THEN {Cancelled(t, "cancel_local")} ELSE {})

\* do_transfer, PURPLE_XFER_SEND, when the UI reads it: it may have nothing yet.
SendUi(t) ==
    {[t EXCEPT !.watcher = FALSE, !.ready = @ \cup {"prpl"}],
     Cancelled(t, "cancel_local")}
    \cup UNION {WriteOut([t EXCEPT !.taken = @ + n], BytesFrom(t.taken, n)) :
                    n \in 1..Portion(t)}

DoTransfer(t) ==
    IF t.type = "receive" THEN Receive(t)
    ELSE IF Portion(t) = 0 THEN {[t EXCEPT !.watcher = FALSE]}
    ELSE IF t.ui = "files" THEN SendFile(t) ELSE SendUi(t)

\* begin_transfer
Begun(t) ==
    (IF t.ui = "files" THEN {Cancelled(t, "cancel_local")} ELSE {})
    \cup {[t EXCEPT !.dest_fp = (t.ui = "files"), !.watcher = (t.fd # "none")]}

-----------------------------------------------------------------------------
(* The user.                                                               *)

Alive == x.ref > 0 /\ ~x.misused

\* purple_xfer_ask_recv was answered.
AcceptOffer ==
    /\ Alive /\ x.dialog = "ask"
    /\ x' = [x EXCEPT !.dialog = "choose"]

\* cancel_recv_cb and, of a receiver, purple_xfer_choose_file_cancel_cb, and a
\* choice that is refused; purple_xfer_request_denied.
Refuse ==
    /\ Alive /\ x.type = "receive" /\ x.dialog # "none"
    /\ \E status \in {"not_started", "cancel_local"} :
          /\ x.dialog = "ask" => status = "cancel_local"
          /\ x' = Unref(Unref(Closed([x EXCEPT !.status = status,
                                               !.dialog = "none"])))

\* purple_xfer_choose_file_cancel_cb of a sender, or a choice that is refused; or
\* a file gone when purple_xfer_request_accepted looks again, where nothing is
\* told to the protocol.
ChooseNone ==
    /\ Alive /\ x.type = "send" /\ x.dialog = "choose"
    /\ LET t == [x EXCEPT !.dialog = "none"] IN
       \/ x' = Unref(Cancelled(t, "cancel_local"))
       \/ x' = Unref(Unref(t))

\* purple_xfer_choose_file_ok_cb, purple_xfer_request_accepted and
\* irc_dccsend_send_init or irc_dccsend_recv_init, purple_xfer_start.
Choose ==
    /\ Alive /\ x.dialog = "choose"
    /\ LET t == Listed([x EXCEPT !.dialog = "none"])
           s == [t EXCEPT !.status = "started"]
       IN  IF x.type = "send"
           THEN \/ x' = Unref([t EXCEPT !.listening = "opening", !.ref = @ + 1])
                \/ x' = Unref(Cancelled(t, "cancel_local"))
           ELSE \/ x' = Unref([s EXCEPT !.connecting = TRUE])
                \/ x' = Unref([s EXCEPT !.stuck = TRUE])

\* stop_button_cb, while the button is shown.
Stop ==
    /\ Alive /\ x.in_list /\ ~Over(x)
    /\ x' = Cancelled(x, "cancel_local")

\* remove_button_cb
Remove ==
    /\ Alive /\ x.in_list /\ Over(x)
    /\ x' = Unlisted(x)

\* Slip: the socket is not watched anew.
UiReadyUnwatched ==
    /\ Alive /\ x.ui = "moderating" /\ x.in_list /\ ~Over(x)
    /\ IF "prpl" \notin x.ready THEN x' = [x EXCEPT !.ready = @ \cup {"ui"}]
       ELSE x' \in DoTransfer([x EXCEPT !.ready = {}])

\* purple_xfer_ui_ready
UiReady ==
    /\ Alive /\ x.ui = "moderating" /\ x.in_list /\ ~Over(x)
    /\ IF "prpl" \notin x.ready THEN x' = [x EXCEPT !.ready = @ \cup {"ui"}]
       ELSE x' \in DoTransfer([x EXCEPT !.ready = {},
                                        !.watcher = @ \/ x.fd # "none"])

-----------------------------------------------------------------------------
(* The network.                                                            *)

\* irc_dccsend_network_listen_cb
ListenCb ==
    /\ Alive /\ x.listening = "opening"
    /\ \/ x' = Unref([x EXCEPT !.listening = "open"])
       \/ x' = Cancelled(Unref([x EXCEPT !.listening = "no"]), "cancel_local")

\* irc_dccsend_send_connected, purple_xfer_start
PeerConnects ==
    /\ Alive /\ x.listening = "open" /\ x.peer = "there"
    /\ x' \in Begun([x EXCEPT !.listening = "no", !.inpa = TRUE, !.fd = "open",
                              !.status = "started"])

\* connect_cb
ConnectCb ==
    /\ ~x.misused /\ x.connecting
    /\ LET t == [x EXCEPT !.connecting = FALSE] IN
       IF x.ref = 0 THEN x' = [t EXCEPT !.misused = TRUE]
       ELSE \/ x' = Cancelled(t, "cancel_local")
            \/ x' \in Begun([t EXCEPT !.fd = "open"])

\* Slip: the watch is removed, and that is all.
TransferCbForgets ==
    /\ Alive /\ x.watcher
    /\ IF ~x.dest_fp /\ "ui" \notin x.ready
       THEN x' = [x EXCEPT !.watcher = FALSE]
       ELSE x' \in DoTransfer([x EXCEPT !.ready = IF x.dest_fp THEN @ ELSE {}])

\* transfer_cb
TransferCb ==
    /\ Alive /\ x.watcher
    /\ IF ~x.dest_fp /\ "ui" \notin x.ready
       THEN x' = [x EXCEPT !.ready = @ \cup {"prpl"}, !.watcher = FALSE]
       ELSE x' \in DoTransfer([x EXCEPT !.ready = IF x.dest_fp THEN @ ELSE {}])

\* irc_dccsend_send_read: the peer is gone, or acknowledges the whole file, and
\* nobody looks whether it was sent.  While the watch is there it was not: the
\* last write ends the transfer before the peer can acknowledge it.
AckCb ==
    /\ Alive /\ x.inpa
    /\ \/ x.peer = "gone" /\ x' = [x EXCEPT !.inpa = FALSE]
       \/ x' = Ended(Completed([x EXCEPT !.inpa = FALSE, !.overacked = TRUE]))

PeerLeaves ==
    /\ x.peer = "there" /\ x.status = "started" /\ x.fd = "open"
    /\ x' = [x EXCEPT !.peer = "gone"]

Next ==
    \/ AcceptOffer \/ Refuse \/ ChooseNone \/ Choose \/ Stop \/ Remove \/ UiReady
    \/ ListenCb \/ PeerConnects \/ ConnectCb \/ TransferCb \/ AckCb \/ PeerLeaves

\* A step of an action in which bytes get to the destination, or that is the
\* last.
Moves(A) == A /\ (x'.out # x.out \/ Over(x'))

\* The event loop calls back what is ready; a UI becomes ready again, and a
\* socket whose peer stays; and who is ready again and again moves some data in
\* the end.
Fairness ==
    /\ WF_x(ConnectCb) /\ WF_x(TransferCb) /\ WF_x(UiReady)
    /\ SF_x(Moves(TransferCb)) /\ SF_x(Moves(UiReady))

Spec == Init /\ [][Next]_x /\ Fairness

-----------------------------------------------------------------------------
(* Properties.                                                             *)

\* Type invariant.
TypeOK == x \in State

\* However writes are split, and whatever is left of them is kept, the
\* destination gets the file in order, and all of it by the time the transfer
\* is reported complete, unless the peer itself acknowledged it before.
WholeFile ==
    /\ x.out = BytesFrom(0, Len(x.out))
    /\ x.status = "done" /\ ~x.overacked => Len(x.out) = Size

\* ft.c's handshake of the UI and the protocol loses no wake-up: a transfer that
\* has started is watched, or waits for a UI that is not ready.
SomebodyContinues ==
    x.status = "started" /\ ~x.connecting /\ ~x.stuck =>
        \/ x.watcher
        \/ (x.ui = "moderating" /\ x.ready = {"prpl"})

\* ft.h of purple_xfer_unref: only an erroneous call will destroy the transfer
\* while still in use.  True as long as it is not cancelled while it connects:
\* whatever may still call back or show it holds a reference.
StillReferenced ==
    ~x.orphaned =>
        /\ ~x.misused
        /\ (\/ x.watcher \/ x.inpa \/ x.dialog # "none" \/ x.in_list
            \/ x.listening # "no" \/ x.connecting) => x.ref > 0

\* A transfer that has started gets done or cancelled, unless it could not even
\* start to connect.
TransferEnds == (x.status = "started" /\ ~x.stuck) ~> Over(x)
=============================================================================

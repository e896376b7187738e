-------------------------------- MODULE Bosh --------------------------------
(***************************************************************************)
(* XMPP over HTTP, libpurple/protocols/jabber/bosh.c: stanzas wait in      *)
(* "pending" for a timer that sends them in one request, over one HTTP     *)
(* connection that pipelines or, once a server was seen not to, over two   *)
(* with one request at a time.  The server answers when it has something   *)
(* to say, so a request should always be open.                             *)
(*                                                                         *)
(* Stanzas and requests are told apart by nothing but where they are: the  *)
(* order within a ring is CircBuffer's matter.  Handlers map a state to    *)
(* the set of states they may return in.  Slips as in the other modules.   *)
(***************************************************************************)
EXTENDS Integers

CONSTANT MaxOpen    \* a bound on the requests that pile up

ASSUME MaxOpenAssumption == MaxOpen \in Nat \ {0}

VARIABLE bosh

Conns == {0, 1}                     \* NUM_HTTP_CONNECTIONS is 2
MAX_FAILED_CONNECTIONS == 3

\* A PurpleHTTPConnection, with what the network and the server know of it.
HTTPConnection == [
    state    : {"none", "offline", "connecting", "connected"},
    requests : Int,         \* "number of outstanding HTTP requests"
    write_buf : Nat,        \* the requests with a part in the ring
    writeh   : BOOLEAN,     \* the write watcher
    read_buf : BOOLEAN,     \* it holds the beginning of a response
    close    : BOOLEAN,     \* the server said "Connection: close"
    server   : Nat ]        \* requests it received and has not answered

State == [
    connections : [Conns -> HTTPConnection],
    pending     : BOOLEAN,  \* something is in the ring of that name
    pipelining  : BOOLEAN,
    state       : {"offline", "booting", "online"},
    failed_connections : 0..MAX_FAILED_CONNECTIONS,
    requests    : Int,
    send_timer  : BOOLEAN,
    inactivity_timer : BOOLEAN,             \* of the JabberStream
    auth   : {"no", "reinit", "done"},      \* of the JabberStream
    over   : {"no", "error", "closed", "dropped", "cut"} ]

\* "over" says where the model stops: an error was reported, or the stream
\* closed; a request was counted and never sent ("dropped"); or a connection
\* was made again with requests still counted, or half a request left in its
\* ring ("cut").  The last two the program does not notice, and goes on with
\* counts that are wrong for good.

NoConnection == [state |-> "none", requests |-> 0, write_buf |-> 0,
                 writeh |-> FALSE, read_buf |-> FALSE, close |-> FALSE,
                 server |-> 0]

Init == bosh = [
    connections |-> [i \in Conns |-> IF i = 0
                        THEN [NoConnection EXCEPT !.state = "offline"]
                        ELSE NoConnection],
    pending |-> FALSE, pipelining |-> TRUE, state |-> "offline",
    failed_connections |-> 0, requests |-> 0, send_timer |-> FALSE,
    inactivity_timer |-> FALSE, auth |-> "no", over |-> "no"]

-----------------------------------------------------------------------------
(* The functions of bosh.c.                                                *)

Error(s) == [s EXCEPT !.over = "error"]

\* http_connection_connect
Connect(s, i) == [s EXCEPT !.connections[i].state = "connecting"]

\* http_connection_send_request: counted, and then written whole or in part, or
\* refused.  A socket that would block, or behind a watcher, takes nothing, and
\* as the -1 is compared as a size_t, nothing is buffered.  What is written
\* before a connection stands is an error of the socket or refused by TLS.
Requested(s, i) ==
    LET c == s.connections[i]
        t == [s EXCEPT !.inactivity_timer = TRUE, !.requests = @ + 1,
                       !.connections[i].requests = @ + 1]
        refused == [t EXCEPT !.over = "dropped"]
    IN  IF c.writeh THEN {refused}
        ELSE {refused, Error(t)} \cup
             IF c.state # "connected" THEN {}
             ELSE {[t EXCEPT !.connections[i].server = @ + 1],
                   [t EXCEPT !.connections[i].write_buf = @ + 1,
                             !.connections[i].writeh = TRUE]}

\* jabber_bosh_connection_send, an ordinary packet: it waits for the timer.
Normal(s) == [s EXCEPT !.send_timer = TRUE]

\* The second half of jabber_bosh_connection_send: a <body/> with everything
\* pending, or one that restarts the stream.
SentOn(s, i) ==
    Requested(IF s.auth = "reinit"
              THEN [s EXCEPT !.send_timer = FALSE, !.auth = "done"]
              ELSE [s EXCEPT !.send_timer = FALSE, !.pending = FALSE], i)

With(s, state) == {i \in Conns : s.connections[i].state = state}

Free(s) == {i \in With(s, "connected") : s.connections[i].requests = 0}

First(I) == IF 0 \in I THEN 0 ELSE 1

\* jabber_bosh_connection_send, PACKET_FLUSH, with
\* find_available_http_connection.
Flushed(s) ==
    IF s.pipelining
    THEN IF s.connections[0].state = "connected" THEN SentOn(s, 0) ELSE {s}
    ELSE IF Free(s) # {} THEN SentOn(s, First(Free(s)))
    ELSE IF With(s, "connecting") # {} THEN {s}
    ELSE IF With(s, "offline") # {} THEN {Connect(s, First(With(s, "offline")))}
    ELSE IF With(s, "none") # {} THEN {Connect(s, First(With(s, "none")))}
    ELSE {s}

\* jabber_bosh_disable_pipelining, which happens once.
PipeliningDisabled(s) ==
    IF s.pipelining THEN Connect([s EXCEPT !.pipelining = FALSE], 1) ELSE s

\* Slip: it never gives up.
DisconnectedForgiven(s, i) ==
    LET c == s.connections[i]
        given_up == IF c.requests > 0 /\ ~c.read_buf THEN c.requests ELSE 0
        t == PipeliningDisabled(
                [s EXCEPT !.requests = @ - given_up,
                          !.connections[i] = [c EXCEPT
                              !.state = "offline", !.writeh = FALSE,
                              !.server = 0, !.requests = @ - given_up]])
    IN  IF c.requests <= 0 THEN t
        ELSE Connect([t EXCEPT !.failed_connections = @ + 1], i)

\* http_connection_disconnected: the requests are given up if nothing of an
\* answer was read, and the connection is made again if there were any.
Disconnected(s, i) ==
    LET c == s.connections[i]
        given_up == IF c.requests > 0 /\ ~c.read_buf THEN c.requests ELSE 0
        t == PipeliningDisabled(
                [s EXCEPT !.requests = @ - given_up,
                          !.connections[i] = [c EXCEPT
                              !.state = "offline", !.writeh = FALSE,
                              !.server = 0, !.requests = @ - given_up]])
        u == [t EXCEPT !.failed_connections = @ + 1]
    IN  IF c.requests <= 0 THEN t
        ELSE IF u.failed_connections = MAX_FAILED_CONNECTIONS THEN Error(u)
        ELSE Connect(u, i)

\* http_received_cb: the answer to the session request, or one with stanzas, of
\* which one may say that the login succeeded; both may end the session.  An
\* answer that is no XML is ignored: a session that is booting then boots for
\* ever, with no request open, unless its connection is made again.
Received(s) ==
    LET t == [s EXCEPT !.failed_connections = 0] IN
    {t, Error([t EXCEPT !.state = "offline"])} \cup
    IF s.state = "booting"
    THEN {[t EXCEPT !.state = "online", !.inactivity_timer = on] :
             on \in {s.inactivity_timer, TRUE}}
         \cup {Error(t)}
    ELSE IF s.auth = "no" THEN {[t EXCEPT !.auth = "reinit"]} ELSE {}

\* Slip: the count is not looked at.
ProcessedOnlyPending(s, i) ==
    LET t == IF s.connections[i].close /\ s.connections[i].state = "connected"
             THEN Disconnected(s, i) ELSE s
    IN  [IF t.state = "online" /\ t.pending
         THEN Normal(t) ELSE t EXCEPT !.connections[i].read_buf = FALSE]

\* The end of jabber_bosh_http_connection_process, when the buffer is empty.
Processed(s, i) ==
    LET t == IF s.connections[i].close /\ s.connections[i].state = "connected"
             THEN Disconnected(s, i) ELSE s
    IN  [IF t.state = "online" /\ (t.requests = 0 \/ t.pending)
         THEN Normal(t) ELSE t EXCEPT !.connections[i].read_buf = FALSE]

\* The beginning of it: a header may say "Connection: close".
HeadersRead(s, i, closes) ==
    IF closes THEN PipeliningDisabled([s EXCEPT !.connections[i].close = TRUE])
              ELSE s

\* Slip: only the connection's own count is lowered.
AnswerCountedOnce(s, i, closes) ==
    Received([HeadersRead(s, i, closes) EXCEPT !.connections[i].requests = @ - 1])

\* One response.
Answer(s, i, closes) ==
    Received([HeadersRead(s, i, closes) EXCEPT
                !.connections[i].requests = @ - 1, !.requests = @ - 1])

\* The loop over a read buffer with up to two whole responses, and the beginning
\* of another if "more"; the last header in it may say that the server closes.
Responses(s, i, n, more, closes) ==
    LET one == IF n = 0 THEN {s} ELSE Answer(s, i, closes /\ n = 1 /\ ~more)
        two == IF n < 2 THEN one
               ELSE UNION {Answer(t, i, closes /\ ~more) : t \in one}
    IN  IF more THEN {HeadersRead(t, i, closes) : t \in two}
        ELSE IF n = 0 THEN {s} ELSE {Processed(t, i) : t \in two}

-----------------------------------------------------------------------------
(* The events, until the model stops.                                      *)

Happens(S) == bosh.over = "no" /\ bosh' \in S

\* jabber_bosh_connection_connect
Start ==
    /\ bosh.state = "offline"
    /\ Happens({Connect([bosh EXCEPT !.state = "booting"], 0)})

\* Slip: the connection that stands again sends nothing.
EstablishedSilently(i) ==
    LET c == bosh.connections[i]
        s == [bosh EXCEPT
                !.connections[i] = [c EXCEPT
                    !.state = "connected", !.requests = 0, !.read_buf = FALSE,
                    !.close = FALSE]]
    IN  /\ c.state = "connecting"
        /\ Happens(IF c.requests # 0 \/ c.write_buf # 0
                   THEN {[s EXCEPT !.over = "cut"]}
                   ELSE IF s.auth = "reinit" THEN {Normal(s)}
                   ELSE IF s.state = "online" THEN {s}
                   ELSE Requested(s, 0))

\* connection_common_established_cb, with jabber_bosh_connection_boot, which
\* takes connections[0] whichever connection was established.
Established(i) ==
    LET c == bosh.connections[i]
        s == [bosh EXCEPT
                !.connections[i] = [c EXCEPT
                    !.state = "connected", !.requests = 0, !.read_buf = FALSE,
                    !.close = FALSE]]
    IN  /\ c.state = "connecting"
        /\ Happens(IF c.requests # 0 \/ c.write_buf # 0
                   THEN {[s EXCEPT !.over = "cut"]}
                   ELSE IF s.auth = "reinit" THEN {Normal(s)}
                   ELSE IF s.state = "online"
                   THEN IF s.requests = 0 \/ s.pending THEN Flushed(s) ELSE {s}
                   ELSE Requested(s, 0))

\* connection_established_cb without a socket, ssl_connection_error_cb
ConnectFails(i) ==
    /\ bosh.connections[i].state = "connecting"
    /\ Happens({Error(bosh)})

\* http_connection_read: n responses, the beginning of another if "more", or
\* the end of the connection.
Read(i, n, more, closes, eof) ==
    LET c == bosh.connections[i]
        s == [bosh EXCEPT !.connections[i] = [c EXCEPT
                             !.server = @ - n,
                             !.read_buf = @ \/ n > 0 \/ more]]
    IN  /\ c.state = "connected"
        /\ n <= c.server /\ (more => n < c.server)
        /\ n > 0 \/ more \/ eof
        /\ closes => n > 0 \/ more
        /\ Happens(Responses(IF eof THEN Disconnected(s, i) ELSE s,
                             i, n, more, closes))

\* http_connection_send_cb, which writes a part of the ring, that ends n of the
\* requests in it, or removes itself when the ring is empty.
SendCb(i) ==
    LET c == bosh.connections[i] IN
    /\ c.writeh
    /\ \/ /\ c.write_buf = 0
          /\ Happens({[bosh EXCEPT !.connections[i].writeh = FALSE]})
       \/ \E n \in 1..c.write_buf :
             Happens({[bosh EXCEPT !.connections[i].write_buf = @ - n,
                                   !.connections[i].server = @ + n]})
       \/ c.write_buf > 0 /\ Happens({Error(bosh)})

\* jabber_bosh_connection_send_raw, with a stanza
Send ==
    /\ bosh.state = "online" /\ bosh.requests < MaxOpen
    /\ Happens({Normal([bosh EXCEPT !.pending = TRUE])})

\* send_timer_cb
SendTimer ==
    /\ bosh.send_timer
    /\ Happens(Flushed([bosh EXCEPT !.send_timer = FALSE]))

\* inactivity_cb and jabber_bosh_connection_send_keepalive
KeepAlive ==
    /\ bosh.inactivity_timer /\ bosh.requests < MaxOpen
    /\ Happens(Flushed([bosh EXCEPT !.inactivity_timer = FALSE,
                                    !.send_timer = FALSE]))

\* jabber_close: jabber_bosh_connection_close sends a last request, with all that
\* is pending, and jabber_bosh_connection_destroy frees everything.
Close == Happens({[bosh EXCEPT !.over = "closed"]})

Next ==
    \/ Start \/ Send \/ SendTimer \/ KeepAlive \/ Close
    \/ \E i \in Conns :
          \/ Established(i) \/ ConnectFails(i) \/ SendCb(i)
          \/ \E n \in 0..2, more, closes, eof \in BOOLEAN :
                Read(i, n, more, closes, eof)

\* Timers and watchers are dispatched, connections end up established or not,
\* the server answers what it has received, and does not for ever hang up on a
\* fresh connection in the second before the timer.
Fairness ==
    /\ WF_bosh(Start) /\ WF_bosh(SendTimer)
    /\ SF_bosh(Free(bosh) # {} /\ SendTimer)
    /\ \A i \in Conns : /\ WF_bosh(Established(i)) /\ WF_bosh(SendCb(i))
                        /\ WF_bosh(Read(i, 1, FALSE, FALSE, FALSE))

Spec == Init /\ [][Next]_bosh /\ Fairness

-----------------------------------------------------------------------------
(* Properties.                                                             *)

\* Type invariant.
TypeOK == bosh \in State

\* "number of outstanding HTTP requests": what a connection counts is on its way
\* to the server, or waits for its answer.
OutstandingIsOutstanding ==
    bosh.over \in {"no", "dropped"} =>
        \A i \in Conns : LET c == bosh.connections[i] IN
            c.state = "connected" => c.requests = c.write_buf + c.server

\* The three counts agree with one another and with what is outstanding, until
\* a request is dropped or a connection comes back in the middle of something.
CountsAgree ==
    bosh.over = "no" =>
        /\ bosh.requests =
               bosh.connections[0].requests + bosh.connections[1].requests
        /\ OutstandingIsOutstanding

\* Until then the server of a session has a request to answer, or is about to
\* get one: it can always say something.
ServerCanPush ==
    bosh.over = "no" /\ bosh.state = "online" =>
        bosh.requests > 0 \/ bosh.send_timer \/ With(bosh, "connecting") # {}

\* And until then, no stanza stays pending.
PendingIsSent == bosh.pending ~> ~bosh.pending \/ bosh.over # "no"
=============================================================================

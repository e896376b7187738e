------------------------------ MODULE BoshProofs ------------------------------
(***************************************************************************)
(* Proofs about Bosh: its three counts of open requests agree with one     *)
(* another and with what is on the way, and the server of a session can    *)
(* always say something, for any number of requests.                       *)
(***************************************************************************)
EXTENDS Bosh, TLAPS

\* The counts in the middle of http_connection_read, when n answers have been
\* taken from connection i and not been counted yet.
Counted(s, i, n) ==
    /\ s.requests = s.connections[0].requests + s.connections[1].requests
    /\ s.connections[i].requests >= n
    /\ \A j \in Conns :
          LET c == s.connections[j] IN
          /\ c.requests >= 0
          /\ c.state = "connected" =>
                c.requests = c.write_buf + c.server + (IF j = i THEN n ELSE 0)
          /\ c.state # "connected" => c.server = 0 /\ ~c.writeh

\* While it pipelines, a session has one connection.
Shaped(s) ==
    /\ s.pipelining => /\ s.connections[1].state = "none"
                       /\ \/ s.state = "offline"
                          \/ s.connections[0].state \in {"connecting", "connected"}
    /\ s.state = "offline" => /\ s.pipelining
                              /\ s.connections[0].state = "offline"

Owing(s, i, n) == s.over = "no" => Counted(s, i, n)
Shape(s) == s.over = "no" => Shaped(s)

GivesUp(s) == s.over = "no" => s.failed_connections < MAX_FAILED_CONNECTIONS

\* ServerCanPush, of any state.
Pushes(s) ==
    s.over = "no" /\ s.state = "online" =>
        s.requests > 0 \/ s.send_timer \/ With(s, "connecting") # {}

\* What makes up for an answer of which only the beginning was read.
Backed(s, i) ==
    s.over = "no" =>
        \/ s.connections[i].state = "connected" /\ s.connections[i].server > 0
        \/ With(s, "connecting") # {}

\* Anywhere in http_connection_read, with n answers still to be counted.
Mid(s, i, n) ==
    /\ s \in State
    /\ s.failed_connections < MAX_FAILED_CONNECTIONS
          \/ s.connections[i].state # "connected"
    /\ s.over = "no" => /\ Counted(s, i, n) /\ Shaped(s) /\ s.state # "offline"
                        /\ s.failed_connections < MAX_FAILED_CONNECTIONS

Good(s) == s \in State /\ Owing(s, 0, 0) /\ Shape(s) /\ GivesUp(s) /\ Pushes(s)

IInv == Good(bosh)

\* The two connections.
LEMMA TwoConns == 0 \in Conns /\ 1 \in Conns /\ \A i \in Conns : i = 0 \/ i = 1
BY DEF Conns

\* Without answers to count, the connection does not matter.
LEMMA NothingOwed ==
    ASSUME NEW s, NEW i \in Conns, NEW j \in Conns, s \in State, Owing(s, i, 0)
    PROVE  Owing(s, j, 0)
BY TwoConns DEF Owing, Counted, State, HTTPConnection

\* http_connection_connect, of a connection that is not one.
LEMMA ConnectOwing ==
    ASSUME NEW s, NEW i \in Conns, NEW n \in Nat, NEW j \in Conns,
           s \in State, Owing(s, i, n),
           s.over = "no" => s.connections[j].state # "connected"
    PROVE  LET t == Connect(s, j) IN
           /\ t \in State /\ Owing(t, i, n) /\ With(t, "connecting") # {}
           /\ t.over = s.over /\ t.failed_connections = s.failed_connections
           /\ t.requests = s.requests /\ t.pipelining = s.pipelining
           /\ t.state = s.state /\ t.send_timer = s.send_timer
           /\ t.pending = s.pending
           /\ \A k \in Conns :
                /\ k # j => t.connections[k] = s.connections[k]
                /\ t.connections[j].state = "connecting"
                /\ t.connections[j].requests = s.connections[j].requests
<1> DEFINE t == Connect(s, j)
<1>1. t \in State
  BY DEF Connect, State, HTTPConnection
<1>2. /\ t.over = s.over /\ t.failed_connections = s.failed_connections
      /\ t.requests = s.requests /\ t.pipelining = s.pipelining
      /\ t.state = s.state /\ t.send_timer = s.send_timer
      /\ t.pending = s.pending
  BY DEF Connect, State
<1>3. \A k \in Conns :
        /\ t.connections[k].requests = s.connections[k].requests
        /\ t.connections[k].write_buf = s.connections[k].write_buf
        /\ t.connections[k].server = s.connections[k].server
        /\ t.connections[k].writeh = s.connections[k].writeh
        /\ t.connections[k].state =
              IF k = j THEN "connecting" ELSE s.connections[k].state
        /\ k # j => t.connections[k] = s.connections[k]
  BY DEF Connect, State, HTTPConnection
<1> HIDE DEF t
<1>4. With(t, "connecting") # {}
  BY <1>3 DEF With
<1>5. Owing(t, i, n)
  BY <1>2, <1>3, TwoConns DEF Owing, Counted
<1> QED BY <1>1, <1>2, <1>3, <1>4, <1>5 DEF t

\* jabber_bosh_disable_pipelining makes the second connection.
LEMMA PipeliningDisabledOwing ==
    ASSUME NEW s, NEW i \in Conns, NEW n \in Nat,
           s \in State, Owing(s, i, n),
           s.over = "no" /\ s.pipelining => s.connections[1].state = "none"
    PROVE  LET t == PipeliningDisabled(s) IN
           /\ t \in State /\ Owing(t, i, n) /\ t.over = s.over /\ ~t.pipelining
           /\ t.failed_connections = s.failed_connections
           /\ t.requests = s.requests /\ t.state = s.state
           /\ t.send_timer = s.send_timer /\ t.pending = s.pending
           /\ t.connections[0] = s.connections[0]
           /\ t.connections[1].state = "connecting" \/ t.connections = s.connections
           /\ s.pipelining => With(t, "connecting") # {}
<1> DEFINE u == [s EXCEPT !.pipelining = FALSE]
<1> DEFINE t == PipeliningDisabled(s)
<1>1. CASE ~s.pipelining
  <2>1. t = s
    BY <1>1 DEF PipeliningDisabled
  <2> QED BY <1>1, <2>1
<1>2. CASE s.pipelining
  <2>1. /\ u \in State /\ u.over = s.over /\ u.requests = s.requests
        /\ u.failed_connections = s.failed_connections /\ u.state = s.state
        /\ u.send_timer = s.send_timer /\ u.connections = s.connections
        /\ u.pending = s.pending /\ ~u.pipelining
    BY DEF State
  <2>2. t = Connect(u, 1)
    BY <1>2 DEF PipeliningDisabled
  <2> HIDE DEF u, t
  <2>3. Owing(u, i, n)
    BY <2>1 DEF Owing, Counted
  <2>4. u.over = "no" => u.connections[1].state # "connected"
    BY <1>2, <2>1
  <2>5. /\ t \in State /\ Owing(t, i, n) /\ With(t, "connecting") # {}
        /\ t.over = u.over /\ t.requests = u.requests /\ t.state = u.state
        /\ t.failed_connections = u.failed_connections
        /\ t.pipelining = u.pipelining /\ t.pending = u.pending
        /\ t.send_timer = u.send_timer /\ t.connections[0] = u.connections[0]
        /\ t.connections[1].state = "connecting"
    BY <2>1, <2>2, <2>3, <2>4, TwoConns, ConnectOwing
  <2> QED BY <1>2, <2>1, <2>5 DEF t
<1> QED BY <1>1, <1>2

\* What is left of a connection that was lost.
LEMMA LostConnection ==
    ASSUME NEW c \in HTTPConnection, NEW r \in Int
    PROVE  LET e == [c EXCEPT !.state = "offline", !.writeh = FALSE,
                              !.server = 0, !.requests = r]
           IN  /\ e \in HTTPConnection /\ e.state = "offline"
               /\ e.server = 0 /\ e.requests = r /\ ~e.writeh
BY DEF HTTPConnection

\* http_connection_disconnected gives requests up in both counts, and a session
\* with requests left gets its connection again, or ends.
LEMMA DisconnectedOwing ==
    ASSUME NEW s, NEW i \in Conns, NEW n \in Nat,
           s \in State, Owing(s, i, n), Shape(s), s.over = "no",
           s.state # "offline", s.failed_connections < MAX_FAILED_CONNECTIONS,
           s.connections[i].state = "connected",
           n > 0 => s.connections[i].read_buf
    PROVE  LET t == Disconnected(s, i) IN
           /\ t \in State /\ Owing(t, i, n) /\ Shape(t) /\ GivesUp(t)
           /\ t.state # "offline" /\ t.connections[i].state # "connected"
           /\ Pushes(s) => Pushes(t)
           /\ s.connections[i].requests > 0 /\ t.over = "no" =>
                With(t, "connecting") # {}
<1> DEFINE c == s.connections[i]
           given_up == IF c.requests > 0 /\ ~c.read_buf THEN c.requests ELSE 0
           e == [c EXCEPT !.state = "offline", !.writeh = FALSE,
                          !.server = 0, !.requests = @ - given_up]
           d == [s EXCEPT !.requests = @ - given_up, !.connections[i] = e]
           p == PipeliningDisabled(d)
           u == [p EXCEPT !.failed_connections = @ + 1]
           t == Disconnected(s, i)
<1>1. Counted(s, i, n) /\ Shaped(s)
  BY DEF Owing, Shape
<1>2. /\ c \in HTTPConnection /\ c.requests \in Int /\ c.requests >= 0
      /\ s.requests \in Int
  BY <1>1 DEF Counted, State, HTTPConnection
<1>3. /\ given_up \in Nat
      /\ given_up = 0 \/ (given_up = c.requests /\ n = 0)
      /\ c.requests = 0 => given_up = 0
  BY <1>2
<1>4. t = IF c.requests <= 0 THEN p
          ELSE IF u.failed_connections = MAX_FAILED_CONNECTIONS THEN Error(u)
          ELSE Connect(u, i)
  BY DEF Disconnected
<1> HIDE DEF given_up
<1>5. c.requests - given_up \in Int /\ s.requests - given_up \in Int
  BY <1>2, <1>3
<1>6. /\ e \in HTTPConnection /\ e.state = "offline" /\ e.server = 0
      /\ e.requests = c.requests - given_up /\ ~e.writeh
  <2> HIDE DEF c
  <2> QED BY <1>2, <1>5, LostConnection
<1> HIDE DEF e
<1>7. /\ d \in State /\ d.requests = s.requests - given_up
      /\ d.connections[i] = e
      /\ \A j \in Conns : j # i => d.connections[j] = s.connections[j]
      /\ d.over = s.over /\ d.state = s.state
      /\ d.pipelining = s.pipelining /\ d.send_timer = s.send_timer
      /\ d.failed_connections = s.failed_connections
  <2> DEFINE r == s.requests - given_up
  <2>1. r \in Int
    BY <1>5
  <2> HIDE DEF r
  <2>2. d = [s EXCEPT !.requests = r, !.connections[i] = e]
    BY DEF r
  <2> HIDE DEF d
  <2>3. /\ d \in State /\ d.requests = r /\ d.connections[i] = e
        /\ \A j \in Conns : j # i => d.connections[j] = s.connections[j]
        /\ d.over = s.over /\ d.state = s.state
        /\ d.pipelining = s.pipelining /\ d.send_timer = s.send_timer
        /\ d.failed_connections = s.failed_connections
    BY <1>6, <2>1, <2>2 DEF State
  <2> QED BY <2>3 DEF r
<1> HIDE DEF d
<1>8. /\ d \in State /\ d.over = "no" /\ d.state = s.state
      /\ d.requests = s.requests - given_up
      /\ d.pipelining = s.pipelining /\ d.send_timer = s.send_timer
      /\ d.failed_connections = s.failed_connections
      /\ d.connections[i].state = "offline" /\ d.connections[i].server = 0
      /\ d.connections[i].requests = c.requests - given_up
      /\ ~d.connections[i].writeh
      /\ \A j \in Conns : j # i => d.connections[j] = s.connections[j]
  BY <1>6, <1>7
<1>9. d \in State
  BY <1>8
<1>10. Counted(d, i, n)
  <2>1. d.requests = d.connections[0].requests + d.connections[1].requests
    <3>1. s.requests = s.connections[0].requests + s.connections[1].requests
      BY <1>1 DEF Counted
    <3>2. s.connections[0].requests \in Int /\ s.connections[1].requests \in Int
      BY TwoConns DEF State, HTTPConnection
    <3>3. CASE i = 0
      BY <1>2, <1>3, <1>8, <3>1, <3>2, <3>3, TwoConns
    <3>4. CASE i = 1
      BY <1>2, <1>3, <1>8, <3>1, <3>2, <3>4, TwoConns
    <3> QED BY <3>3, <3>4, TwoConns
  <2>2. d.connections[i].requests >= n
    BY <1>1, <1>2, <1>3, <1>8 DEF Counted
  <2> QED BY <1>1, <1>2, <1>3, <1>8, <2>1, <2>2 DEF Counted
<1>11. s.pipelining => i = 0 /\ d.connections[1].state = "none"
  BY <1>1, <1>8, TwoConns DEF Shaped
<1>12. /\ p \in State /\ Owing(p, i, n) /\ p.over = "no" /\ ~p.pipelining
       /\ p.failed_connections = s.failed_connections
       /\ p.requests = d.requests /\ p.state = s.state
       /\ p.send_timer = s.send_timer
       /\ p.connections[0] = d.connections[0]
       /\ p.connections[1].state = "connecting" \/ p.connections = d.connections
       /\ s.pipelining => With(p, "connecting") # {}
  BY <1>8, <1>9, <1>10, <1>11, PipeliningDisabledOwing DEF Owing
<1>13. p.connections[i].state # "connected"
  BY <1>8, <1>12, TwoConns
<1> HIDE DEF p
<1>14. CASE c.requests = 0
  <2>1. t = p
    BY <1>2, <1>4, <1>14
  <2>2. ASSUME With(s, "connecting") # {} PROVE With(p, "connecting") # {}
    <3>1. PICK j \in Conns : s.connections[j].state = "connecting"
      BY <2>2 DEF With
    <3>2. j # i /\ d.connections[j].state = "connecting"
      BY <1>8, <3>1
    <3> QED BY <1>12, <3>2, TwoConns DEF With
  <2>3. Pushes(s) => Pushes(p)
    BY <1>3, <1>8, <1>12, <1>14, <1>2, <2>2 DEF Pushes
  <2>4. p.state # "offline"
    BY <1>12
  <2> QED BY <1>12, <1>13, <1>14, <2>1, <2>3, <2>4 DEF Shape, Shaped, GivesUp
<1>15. CASE c.requests > 0
  <2>1. /\ u \in State /\ u.over = "no" /\ ~u.pipelining /\ u.state = s.state
        /\ u.failed_connections = s.failed_connections + 1
        /\ u.connections = p.connections /\ u.requests = p.requests
    BY <1>12 DEF State, MAX_FAILED_CONNECTIONS
  <2> HIDE DEF u
  <2>2. Owing(u, i, n)
    BY <1>12, <2>1 DEF Owing, Counted
  <2>3. CASE u.failed_connections = MAX_FAILED_CONNECTIONS
    <3>1. t = Error(u)
      BY <1>2, <1>4, <1>15, <2>3
    <3>2. /\ t \in State /\ t.over = "error" /\ t.state = u.state
          /\ t.connections = u.connections
      BY <2>1, <3>1 DEF Error, State
    <3>3. t.state # "offline" /\ t.connections[i].state # "connected"
      BY <1>13, <2>1, <3>2
    <3> QED BY <3>2, <3>3 DEF Owing, Shape, GivesUp, Pushes
  <2>4. CASE u.failed_connections # MAX_FAILED_CONNECTIONS
    <3>1. t = Connect(u, i)
      BY <1>2, <1>4, <1>15, <2>4
    <3>2. /\ t \in State /\ Owing(t, i, n) /\ With(t, "connecting") # {}
          /\ t.over = u.over /\ t.failed_connections = u.failed_connections
          /\ t.pipelining = u.pipelining /\ t.state = u.state
          /\ t.connections[i].state = "connecting"
      BY <1>13, <2>1, <2>2, <3>1, ConnectOwing
    <3>3. t.failed_connections < MAX_FAILED_CONNECTIONS
      BY <2>1, <2>4, <3>2 DEF State, MAX_FAILED_CONNECTIONS
    <3> QED BY <2>1, <3>2, <3>3 DEF Shape, Shaped, GivesUp, Pushes
  <2> QED BY <2>3, <2>4
<1> QED BY <1>2, <1>14, <1>15

\* Whatever the counts, what it leaves is a state, and the connection is lost.
LEMMA DisconnectedTyped ==
    ASSUME NEW s, NEW i \in Conns, s \in State,
           s.over # "no",
           s.failed_connections < MAX_FAILED_CONNECTIONS
    PROVE  LET t == Disconnected(s, i) IN t \in State /\ t.over # "no"
<1> DEFINE c == s.connections[i]
           given_up == IF c.requests > 0 /\ ~c.read_buf THEN c.requests ELSE 0
           e == [c EXCEPT !.state = "offline", !.writeh = FALSE,
                          !.server = 0, !.requests = @ - given_up]
           d == [s EXCEPT !.requests = @ - given_up, !.connections[i] = e]
           p == PipeliningDisabled(d)
           u == [p EXCEPT !.failed_connections = @ + 1]
           t == Disconnected(s, i)
<1>1. /\ c \in HTTPConnection /\ given_up \in Int
      /\ c.requests - given_up \in Int /\ s.requests - given_up \in Int
  BY DEF State, HTTPConnection
<1>2. t = IF c.requests <= 0 THEN p
          ELSE IF u.failed_connections = MAX_FAILED_CONNECTIONS THEN Error(u)
          ELSE Connect(u, i)
  BY DEF Disconnected
<1> HIDE DEF given_up
<1>3. e \in HTTPConnection
  <2> HIDE DEF c
  <2> QED BY <1>1, LostConnection
<1> HIDE DEF e
<1>4. /\ d \in State /\ d.over = s.over
      /\ d.failed_connections = s.failed_connections
  BY <1>1, <1>3 DEF State
<1> HIDE DEF d
<1>5. /\ p \in State /\ p.over = s.over
      /\ p.failed_connections = s.failed_connections
  BY <1>4, PipeliningDisabledOwing DEF Owing
<1> HIDE DEF p
<1>6. u \in State /\ u.over = s.over
  BY <1>5 DEF State, MAX_FAILED_CONNECTIONS
<1> HIDE DEF u
<1>7. Error(u) \in State /\ Error(u).over = "error"
  BY <1>6 DEF Error, State
<1>8. Connect(u, i) \in State /\ Connect(u, i).over = s.over
  BY <1>6, ConnectOwing DEF Owing
<1> QED BY <1>2, <1>5, <1>7, <1>8

\* A header that says "Connection: close".
LEMMA HeadersReadMid ==
    ASSUME NEW s, NEW i \in Conns, NEW n \in Nat, NEW closes \in BOOLEAN,
           Mid(s, i, n)
    PROVE  LET t == HeadersRead(s, i, closes) IN
           /\ Mid(t, i, n)
           /\ t.over = s.over /\ t.state = s.state
           /\ Backed(s, i) => Backed(t, i)
<1> DEFINE u == [s EXCEPT !.connections[i].close = TRUE]
           t == HeadersRead(s, i, closes)
<1>1. CASE ~closes
  <2>1. t = s
    BY <1>1 DEF HeadersRead
  <2> QED BY <2>1
<1>2. CASE closes
  <2>1. t = PipeliningDisabled(u)
    BY <1>2 DEF HeadersRead
  <2>2. /\ u \in State /\ u.over = s.over /\ u.requests = s.requests
        /\ u.failed_connections = s.failed_connections /\ u.state = s.state
        /\ u.pipelining = s.pipelining
        /\ \A j \in Conns :
             /\ u.connections[j].state = s.connections[j].state
             /\ u.connections[j].requests = s.connections[j].requests
             /\ u.connections[j].write_buf = s.connections[j].write_buf
             /\ u.connections[j].server = s.connections[j].server
             /\ u.connections[j].writeh = s.connections[j].writeh
    <3>1. s \in State
      BY DEF Mid
    <3>2. u \in State
      <4> DEFINE e == [s.connections[i] EXCEPT !.close = TRUE]
                 cs == [s.connections EXCEPT ![i] = e]
      <4>1. s.connections[i] \in HTTPConnection
        BY <3>1 DEF State
      <4>2. e \in HTTPConnection
        BY <4>1 DEF HTTPConnection
      <4> HIDE DEF e
      <4>3. cs \in [Conns -> HTTPConnection]
        BY <3>1, <4>2 DEF State
      <4>4. u = [s EXCEPT !.connections = cs]
        BY DEF e
      <4> HIDE DEF cs, u
      <4> QED BY <3>1, <4>3, <4>4 DEF State
    <3>3. /\ u.over = s.over /\ u.requests = s.requests
          /\ u.failed_connections = s.failed_connections /\ u.state = s.state
          /\ u.pipelining = s.pipelining
      BY <3>1 DEF State
    <3>4. \A j \in Conns :
             /\ u.connections[j].state = s.connections[j].state
             /\ u.connections[j].requests = s.connections[j].requests
             /\ u.connections[j].write_buf = s.connections[j].write_buf
             /\ u.connections[j].server = s.connections[j].server
             /\ u.connections[j].writeh = s.connections[j].writeh
      BY <3>1 DEF State, HTTPConnection
    <3> QED BY <3>2, <3>3, <3>4
  <2> HIDE DEF u, t
  <2>3. Mid(u, i, n)
    BY <2>2, TwoConns DEF Mid, Counted, Shaped
  <2>4. Backed(s, i) => Backed(u, i)
    BY <2>2 DEF Backed, With
  <2>5. u.over = "no" /\ u.pipelining => u.connections[1].state = "none"
    BY <2>3 DEF Mid, Shaped
  <2>6. Owing(u, i, n)
    BY <2>3 DEF Mid, Owing
  <2>7. /\ t \in State /\ Owing(t, i, n) /\ t.over = u.over /\ ~t.pipelining
        /\ t.failed_connections = u.failed_connections /\ t.state = u.state
        /\ t.connections[0] = u.connections[0]
        /\ t.connections[1].state = "connecting" \/ t.connections = u.connections
    BY <2>1, <2>2, <2>5, <2>6, PipeliningDisabledOwing
  <2>8. Mid(t, i, n)
    BY <2>3, <2>7, TwoConns DEF Mid, Owing, Shaped
  <2>9. Backed(u, i) => Backed(t, i)
    BY <2>7, TwoConns DEF Backed, With
  <2> QED BY <2>2, <2>4, <2>7, <2>8, <2>9 DEF t
<1> QED BY <1>1, <1>2

\* http_received_cb.
LEMMA ReceivedMid ==
    ASSUME NEW s, NEW i \in Conns, NEW n \in Nat, Mid(s, i, n),
           NEW t \in Received(s)
    PROVE  /\ Mid(t, i, n) /\ t.failed_connections = 0
           /\ Backed(s, i) => Backed(t, i)
<1> DEFINE u == [s EXCEPT !.failed_connections = 0]
<1>1. /\ u \in State /\ u.over = s.over /\ u.requests = s.requests
      /\ u.failed_connections = 0 /\ u.state = s.state
      /\ u.pipelining = s.pipelining /\ u.connections = s.connections
  BY DEF Mid, State, MAX_FAILED_CONNECTIONS
<1>2. Received(s) =
        {u, Error([u EXCEPT !.state = "offline"])} \cup
        IF s.state = "booting"
        THEN {[u EXCEPT !.state = "online", !.inactivity_timer = on] :
                 on \in {s.inactivity_timer, TRUE}}
             \cup {Error(u)}
        ELSE IF s.auth = "no" THEN {[u EXCEPT !.auth = "reinit"]} ELSE {}
  BY DEF Received
<1> HIDE DEF u
<1>3. /\ t \in State /\ t.failed_connections = 0
      /\ t.requests = u.requests /\ t.pipelining = u.pipelining
      /\ t.connections = u.connections
      /\ \/ t.over = "error"
         \/ t.over = u.over /\ t.state = u.state
         \/ t.over = u.over /\ t.state = "online"
  <2>1. CASE t = Error([u EXCEPT !.state = "offline"])
    BY <1>1, <2>1 DEF Error, State
  <2>2. CASE t = Error(u)
    BY <1>1, <2>2 DEF Error, State
  <2>3. CASE t = u
    BY <1>1, <2>3
  <2>4. CASE t = [u EXCEPT !.auth = "reinit"]
    BY <1>1, <2>4 DEF State
  <2>5. ASSUME NEW on \in BOOLEAN,
               t = [u EXCEPT !.state = "online", !.inactivity_timer = on]
        PROVE  <1>3
    BY <1>1, <2>5 DEF State
  <2>6. s.inactivity_timer \in BOOLEAN
    BY DEF Mid, State
  <2> QED BY <1>2, <2>1, <2>2, <2>3, <2>4, <2>5, <2>6
<1>4. Mid(t, i, n)
  BY <1>1, <1>3 DEF Mid, Counted, Shaped, MAX_FAILED_CONNECTIONS
<1>5. Backed(s, i) => Backed(t, i)
  BY <1>1, <1>3 DEF Backed, With
<1> QED BY <1>3, <1>4, <1>5

\* Both counts are lowered for one answer.
LEMMA AnswerMid ==
    ASSUME NEW s, NEW i \in Conns, NEW n \in Nat, NEW closes \in BOOLEAN,
           Mid(s, i, n + 1), NEW t \in Answer(s, i, closes)
    PROVE  /\ Mid(t, i, n) /\ t.failed_connections = 0
           /\ Backed(s, i) => Backed(t, i)
<1> DEFINE h == HeadersRead(s, i, closes)
           r == h.connections[i].requests - 1
           e == [h.connections[i] EXCEPT !.requests = r]
           a == [h EXCEPT !.connections[i].requests = @ - 1, !.requests = @ - 1]
<1>1. Mid(h, i, n + 1) /\ (Backed(s, i) => Backed(h, i))
  BY HeadersReadMid
<1>2. t \in Received(a)
  BY DEF Answer
<1>3. a = [h EXCEPT !.connections[i] = e, !.requests = h.requests - 1]
  OBVIOUS
<1> HIDE DEF h, a
<1>4. /\ h \in State /\ h.connections[i] \in HTTPConnection
      /\ h.requests \in Int /\ h.requests - 1 \in Int /\ r \in Int
  BY <1>1 DEF Mid, State, HTTPConnection
<1>5. /\ e \in HTTPConnection /\ e.requests = r
      /\ e.state = h.connections[i].state /\ e.server = h.connections[i].server
      /\ e.write_buf = h.connections[i].write_buf
      /\ e.writeh = h.connections[i].writeh
  <2> DEFINE c == h.connections[i]
  <2> HIDE DEF c, r
  <2>1. /\ [c EXCEPT !.requests = r] \in HTTPConnection
        /\ [c EXCEPT !.requests = r].requests = r
        /\ [c EXCEPT !.requests = r].state = c.state
        /\ [c EXCEPT !.requests = r].server = c.server
        /\ [c EXCEPT !.requests = r].write_buf = c.write_buf
        /\ [c EXCEPT !.requests = r].writeh = c.writeh
    BY <1>4 DEF HTTPConnection, c
  <2> QED BY <2>1 DEF c
<1> HIDE DEF e
<1>6. /\ a \in State /\ a.requests = h.requests - 1 /\ a.connections[i] = e
      /\ \A j \in Conns : j # i => a.connections[j] = h.connections[j]
      /\ a.over = h.over /\ a.state = h.state /\ a.pipelining = h.pipelining
      /\ a.failed_connections = h.failed_connections
  BY <1>3, <1>4, <1>5 DEF State
<1>7. Counted(h, i, n + 1) => Counted(a, i, n)
  <2> SUFFICES ASSUME Counted(h, i, n + 1) PROVE Counted(a, i, n)
    OBVIOUS
  <2>1. a.requests = a.connections[0].requests + a.connections[1].requests
    <3>1. h.requests = h.connections[0].requests + h.connections[1].requests
      BY DEF Counted
    <3>2. h.connections[0].requests \in Int /\ h.connections[1].requests \in Int
      BY <1>4, TwoConns DEF State, HTTPConnection
    <3>3. CASE i = 0
      BY <1>4, <1>5, <1>6, <3>1, <3>2, <3>3, TwoConns DEF r
    <3>4. CASE i = 1
      BY <1>4, <1>5, <1>6, <3>1, <3>2, <3>4, TwoConns DEF r
    <3> QED BY <3>3, <3>4, TwoConns
  <2>2. /\ a.connections[i].requests = h.connections[i].requests - 1
        /\ a.connections[i].requests \in Int
    BY <1>4, <1>5, <1>6 DEF r
  <2>3. a.connections[i].requests >= n
    <3> HIDE DEF r
    <3>1. h.connections[i].requests >= n + 1
      BY DEF Counted
    <3>2. h.connections[i].requests \in Int
      BY <1>4 DEF HTTPConnection
    <3> QED BY <2>2, <3>1, <3>2
  <2>4. /\ h.connections[i].write_buf \in Nat /\ h.connections[i].server \in Nat
    BY <1>4 DEF HTTPConnection
  <2>5. ASSUME NEW j \in Conns
        PROVE  LET c == a.connections[j] IN
               /\ c.requests >= 0
               /\ c.state = "connected" =>
                     c.requests = c.write_buf + c.server
                                    + (IF j = i THEN n ELSE 0)
               /\ c.state # "connected" => c.server = 0 /\ ~c.writeh
    <3>1. CASE j = i
      BY <1>4, <1>5, <1>6, <2>2, <2>3, <2>4, <3>1 DEF Counted
    <3>2. CASE j # i
      BY <1>6, <3>2 DEF Counted
    <3> QED BY <3>1, <3>2
  <2> QED BY <2>1, <2>3, <2>5 DEF Counted
<1>8. \A j \in Conns : /\ a.connections[j].state = h.connections[j].state
                       /\ a.connections[j].server = h.connections[j].server
  BY <1>5, <1>6
<1>9. Mid(a, i, n)
  BY <1>1, <1>6, <1>7, <1>8, TwoConns DEF Mid, Shaped
<1>10. Backed(h, i) => Backed(a, i)
  BY <1>6, <1>8 DEF Backed, With
<1> QED BY <1>1, <1>2, <1>9, <1>10, ReceivedMid

\* The end of a buffer: a connection the server closes is lost, and a session
\* without a request makes one.
LEMMA ProcessedGood ==
    ASSUME NEW s, NEW i \in Conns, Mid(s, i, 0)
    PROVE  Good(Processed(s, i))
<1> DEFINE t == IF s.connections[i].close /\ s.connections[i].state = "connected"
                THEN Disconnected(s, i) ELSE s
           v == IF t.state = "online" /\ (t.requests = 0 \/ t.pending)
                THEN Normal(t) ELSE t
           w == [v EXCEPT !.connections[i].read_buf = FALSE]
<1>1. s \in State /\ (s.over = "no" => Shape(s) /\ Owing(s, i, 0))
  BY DEF Mid, Shape, Owing
<1>2. t \in State /\ Owing(t, i, 0) /\ Shape(t) /\ GivesUp(t)
  <2>1. CASE /\ s.over = "no"
             /\ s.connections[i].close /\ s.connections[i].state = "connected"
    BY <1>1, <2>1, DisconnectedOwing DEF Mid
  <2>2. CASE /\ s.over # "no"
             /\ s.connections[i].close /\ s.connections[i].state = "connected"
    <3>1. t \in State /\ t.over # "no"
      BY <1>1, <2>2, DisconnectedTyped DEF Mid
    <3> QED BY <3>1 DEF Owing, Shape, GivesUp
  <2>3. CASE ~(s.connections[i].close /\ s.connections[i].state = "connected")
    BY <1>1, <2>3 DEF Mid, Owing, Shape, GivesUp
  <2> QED BY <2>1, <2>2, <2>3
<1>3. Processed(s, i) = w
  BY DEF Processed
<1> HIDE DEF t
<1>4. /\ v \in State /\ v.over = t.over /\ v.requests = t.requests
      /\ v.connections = t.connections /\ v.pipelining = t.pipelining
      /\ v.state = t.state /\ v.failed_connections = t.failed_connections
      /\ t.state = "online" /\ t.requests = 0 => v.send_timer
  BY <1>2 DEF Normal, State
<1> HIDE DEF v
<1>5. /\ w \in State /\ w.over = v.over /\ w.requests = v.requests
      /\ w.pipelining = v.pipelining /\ w.state = v.state
      /\ w.failed_connections = v.failed_connections
      /\ w.send_timer = v.send_timer
  <2> DEFINE e == [v.connections[i] EXCEPT !.read_buf = FALSE]
  <2>1. v.connections[i] \in HTTPConnection
    BY <1>4 DEF State
  <2>2. e \in HTTPConnection
    BY <2>1 DEF HTTPConnection
  <2>3. w = [v EXCEPT !.connections[i] = e]
    OBVIOUS
  <2> HIDE DEF e, w
  <2> QED BY <1>4, <2>2, <2>3 DEF State
<1>6. \A j \in Conns :
         /\ w.connections[j].state = v.connections[j].state
         /\ w.connections[j].requests = v.connections[j].requests
         /\ w.connections[j].write_buf = v.connections[j].write_buf
         /\ w.connections[j].server = v.connections[j].server
         /\ w.connections[j].writeh = v.connections[j].writeh
  BY <1>4 DEF State, HTTPConnection
<1> HIDE DEF w
<1>7. Owing(w, i, 0) /\ Shape(w) /\ GivesUp(w)
  BY <1>2, <1>4, <1>5, <1>6, TwoConns
     DEF Owing, Counted, Shape, Shaped, GivesUp
<1>8. Owing(w, 0, 0)
  BY <1>5, <1>7, NothingOwed, TwoConns
<1>9. Pushes(w)
  <2> SUFFICES ASSUME w.over = "no", w.state = "online", ~w.send_timer
               PROVE  w.requests > 0
    BY DEF Pushes
  <2>1. w.requests # 0
    BY <1>4, <1>5
  <2>2. /\ w.requests = w.connections[0].requests + w.connections[1].requests
        /\ w.connections[0].requests >= 0 /\ w.connections[1].requests >= 0
        /\ w.connections[0].requests \in Int /\ w.connections[1].requests \in Int
    BY <1>5, <1>8, TwoConns DEF Owing, Counted, State, HTTPConnection
  <2> QED BY <2>1, <2>2
<1> QED BY <1>3, <1>5, <1>7, <1>8, <1>9 DEF Good

\* What http_connection_send_request and jabber_bosh_connection_send rely on.
Ready(s) == /\ s \in State /\ s.over = "no"
            /\ Owing(s, 0, 0) /\ Shape(s) /\ GivesUp(s)

\* A session that stopped needs nothing more.
LEMMA OverGood == ASSUME NEW s, s \in State, s.over # "no" PROVE Good(s)
BY DEF Good, Owing, Shape, GivesUp, Pushes

\* http_connection_send_request.
LEMMA RequestedGood ==
    ASSUME NEW s, NEW i \in Conns, Ready(s), NEW t \in Requested(s, i)
    PROVE  Good(t)
<1> DEFINE c == s.connections[i]
           m == c.requests + 1
           e == [c EXCEPT !.requests = m]
           r == s.requests + 1
           q == [s EXCEPT !.inactivity_timer = TRUE, !.requests = @ + 1,
                          !.connections[i].requests = @ + 1]
           refused == [q EXCEPT !.over = "dropped"]
           sent == [q EXCEPT !.connections[i].server = @ + 1]
           buffered == [q EXCEPT !.connections[i].write_buf = @ + 1,
                                 !.connections[i].writeh = TRUE]
<1>1. \/ t = refused \/ t = Error(q)
      \/ c.state = "connected" /\ ~c.writeh /\ (t = sent \/ t = buffered)
  BY DEF Requested
<1>2. /\ s \in State /\ c \in HTTPConnection
      /\ m \in Int /\ r \in Int /\ c.requests \in Int /\ s.requests \in Int
  BY DEF Ready, State, HTTPConnection
<1>3. Counted(s, 0, 0)
  BY DEF Ready, Owing
<1>4. s.requests >= 0 /\ c.requests >= 0
  <2>1. /\ s.requests = s.connections[0].requests + s.connections[1].requests
        /\ s.connections[0].requests >= 0 /\ s.connections[1].requests >= 0
        /\ c.requests >= 0
    BY <1>3, TwoConns DEF Counted
  <2>2. s.connections[0].requests \in Int /\ s.connections[1].requests \in Int
    BY <1>2, TwoConns DEF State, HTTPConnection
  <2> QED BY <2>1, <2>2
<1>5. q = [s EXCEPT !.inactivity_timer = TRUE, !.requests = r,
                    !.connections[i] = e]
  OBVIOUS
<1>6. /\ e \in HTTPConnection /\ e.requests = m
      /\ e.state = c.state /\ e.server = c.server
      /\ e.write_buf = c.write_buf /\ e.writeh = c.writeh
  <2> HIDE DEF c, m
  <2> QED BY <1>2 DEF HTTPConnection
<1> HIDE DEF e, q
<1>7. /\ q \in State /\ q.requests = r /\ q.connections[i] = e
      /\ \A j \in Conns : j # i => q.connections[j] = s.connections[j]
      /\ q.over = s.over /\ q.state = s.state /\ q.pipelining = s.pipelining
      /\ q.failed_connections = s.failed_connections
  BY <1>2, <1>5, <1>6 DEF State
<1>8. CASE t = refused \/ t = Error(q)
  <2>1. t \in State /\ t.over # "no"
    BY <1>7, <1>8 DEF Error, State
  <2> QED BY <2>1, OverGood
<1>9. CASE c.state = "connected" /\ ~c.writeh /\ (t = sent \/ t = buffered)
  <2> DEFINE sv == e.server + 1
             wb == e.write_buf + 1
             es == [e EXCEPT !.server = sv]
             eb == [e EXCEPT !.write_buf = wb, !.writeh = TRUE]
  <2>1. /\ sent = [q EXCEPT !.connections[i] = es]
        /\ buffered = [q EXCEPT !.connections[i] = eb]
    <3>1. sent = [q EXCEPT !.connections[i] = es]
      BY <1>7
    <3>2. buffered = [q EXCEPT !.connections[i] = eb]
      BY <1>7 DEF State, HTTPConnection
    <3> QED BY <3>1, <3>2
  <2>2. sv \in Nat /\ wb \in Nat /\ e.server \in Nat /\ e.write_buf \in Nat
    BY <1>6 DEF HTTPConnection
  <2>3. /\ es \in HTTPConnection /\ es.requests = m /\ es.state = "connected"
        /\ es.server = sv /\ es.write_buf = e.write_buf
    <3> HIDE DEF sv, c, m
    <3> QED BY <1>6, <1>9, <2>2 DEF HTTPConnection
  <2>4. /\ eb \in HTTPConnection /\ eb.requests = m /\ eb.state = "connected"
        /\ eb.server = e.server /\ eb.write_buf = wb
    <3> HIDE DEF wb, c, m
    <3> QED BY <1>6, <1>9, <2>2 DEF HTTPConnection
  <2> HIDE DEF es, eb, sent, buffered
  <2>5. PICK g \in {es, eb} : t = [q EXCEPT !.connections[i] = g]
    BY <1>9, <2>1
  <2>6. /\ g \in HTTPConnection /\ g.requests = m /\ g.state = "connected"
        /\ g.server + g.write_buf = c.server + c.write_buf + 1
    BY <1>6, <2>2, <2>3, <2>4
  <2>7. /\ t \in State /\ t.requests = r /\ t.connections[i] = g
        /\ \A j \in Conns : j # i => t.connections[j] = s.connections[j]
        /\ t.over = s.over /\ t.state = s.state /\ t.pipelining = s.pipelining
        /\ t.failed_connections = s.failed_connections
    BY <1>7, <2>5, <2>6 DEF State
  <2>8. Counted(t, 0, 0)
    <3>1. t.requests = t.connections[0].requests + t.connections[1].requests
      <4>1. s.requests = s.connections[0].requests + s.connections[1].requests
        BY <1>3 DEF Counted
      <4>2. s.connections[0].requests \in Int /\ s.connections[1].requests \in Int
        BY <1>2, TwoConns DEF State, HTTPConnection
      <4>3. CASE i = 0
        BY <2>6, <2>7, <4>1, <4>2, <4>3, TwoConns
      <4>4. CASE i = 1
        BY <2>6, <2>7, <4>1, <4>2, <4>4, TwoConns
      <4> QED BY <4>3, <4>4, TwoConns
    <3>2. c.requests = c.write_buf + c.server
      <4>1. c.requests = c.write_buf + c.server + 0
        BY <1>3, <1>9 DEF Counted
      <4>2. c.write_buf \in Nat /\ c.server \in Nat
        BY <1>2 DEF HTTPConnection
      <4> QED BY <4>1, <4>2
    <3>3. c.write_buf \in Nat /\ c.server \in Nat
      BY <1>2 DEF HTTPConnection
    <3>4. g.write_buf \in Nat /\ g.server \in Nat
      BY <2>6 DEF HTTPConnection
    <3>5. ASSUME NEW j \in Conns
          PROVE  LET k == t.connections[j] IN
                 /\ k.requests >= 0
                 /\ k.state = "connected" =>
                       k.requests = k.write_buf + k.server
                                      + (IF j = 0 THEN 0 ELSE 0)
                 /\ k.state # "connected" => k.server = 0 /\ ~k.writeh
      <4>1. CASE j = i
        BY <1>2, <1>4, <2>6, <2>7, <3>2, <3>3, <3>4, <4>1
      <4>2. CASE j # i
        BY <1>3, <2>7, <4>2 DEF Counted
      <4> QED BY <4>1, <4>2
    <3>6. t.connections[0].requests >= 0
      BY <3>5, TwoConns
    <3> QED BY <3>1, <3>5, <3>6 DEF Counted
  <2>9. t.requests > 0
    BY <1>2, <1>4, <2>7
  <2>10. Shape(t)
    <3>1. \A j \in Conns : t.connections[j].state = s.connections[j].state
      BY <1>9, <2>6, <2>7
    <3> QED BY <2>7, <3>1, TwoConns DEF Ready, Shape, Shaped
  <2> QED BY <2>7, <2>8, <2>9, <2>10 DEF Good, Owing, GivesUp, Pushes, Ready
<1> QED BY <1>1, <1>8, <1>9

\* The second half of jabber_bosh_connection_send.
LEMMA SentOnGood ==
    ASSUME NEW s, NEW i \in Conns, Ready(s), NEW t \in SentOn(s, i)
    PROVE  Good(t)
<1> DEFINE u == IF s.auth = "reinit"
                THEN [s EXCEPT !.send_timer = FALSE, !.auth = "done"]
                ELSE [s EXCEPT !.send_timer = FALSE, !.pending = FALSE]
<1>1. /\ u \in State /\ u.over = s.over /\ u.requests = s.requests
      /\ u.connections = s.connections /\ u.state = s.state
      /\ u.pipelining = s.pipelining
      /\ u.failed_connections = s.failed_connections
  BY DEF Ready, State
<1>2. t \in Requested(u, i)
  BY DEF SentOn
<1> HIDE DEF u
<1>3. Ready(u)
  BY <1>1 DEF Ready, Owing, Counted, Shape, Shaped, GivesUp
<1> QED BY <1>2, <1>3, RequestedGood

\* PACKET_FLUSH: a request, or a connection that will make one, or every
\* connection has one.
LEMMA FlushedGood ==
    ASSUME NEW s, Ready(s), NEW t \in Flushed(s)
    PROVE  Good(t)
<1>1. s \in State /\ Counted(s, 0, 0) /\ Shaped(s)
  BY DEF Ready, Owing, Shape
<1>2. CASE \E i \in Conns : t \in SentOn(s, i)
  BY <1>2, SentOnGood
<1>3. CASE t = s /\ (With(s, "connecting") # {} \/ s.state # "online"
                       \/ s.requests > 0)
  BY <1>3 DEF Good, Ready, Pushes
<1>4. ASSUME NEW i \in Conns, t = Connect(s, i), ~s.pipelining,
             s.connections[i].state # "connected"
      PROVE  Good(t)
  <2>1. /\ t \in State /\ Owing(t, 0, 0) /\ With(t, "connecting") # {}
        /\ t.over = s.over /\ t.failed_connections = s.failed_connections
        /\ t.pipelining = s.pipelining /\ t.state = s.state
    BY <1>4, TwoConns, ConnectOwing DEF Ready
  <2> QED BY <1>1, <1>4, <2>1
          DEF Good, Ready, Shape, Shaped, GivesUp, Pushes
<1>5. CASE s.pipelining
  <2>1. CASE s.connections[0].state = "connected"
    <3>1. t \in SentOn(s, 0)
      BY <1>5, <2>1 DEF Flushed
    <3> QED BY <1>2, <3>1, TwoConns
  <2>2. CASE s.connections[0].state # "connected"
    <3>1. t = s
      BY <1>5, <2>2 DEF Flushed
    <3>2. s.state = "offline" \/ With(s, "connecting") # {}
      BY <1>1, <1>5, <2>2, TwoConns DEF Shaped, With
    <3> QED BY <1>3, <3>1, <3>2
  <2> QED BY <2>1, <2>2
<1>6. CASE ~s.pipelining
  <2>1. \A I \in SUBSET Conns : I # {} => First(I) \in I
    BY TwoConns DEF First
  <2>2. CASE Free(s) # {}
    <3>1. t \in SentOn(s, First(Free(s)))
      BY <1>6, <2>2 DEF Flushed
    <3>2. First(Free(s)) \in Conns
      BY TwoConns DEF First
    <3> QED BY <1>2, <3>1, <3>2
  <2>3. CASE Free(s) = {} /\ With(s, "connecting") # {}
    <3>1. t = s
      BY <1>6, <2>3 DEF Flushed
    <3> QED BY <1>3, <2>3, <3>1
  <2>4. ASSUME NEW state \in {"offline", "none"}, With(s, state) # {},
               t = Connect(s, First(With(s, state)))
        PROVE  Good(t)
    <3>1. With(s, state) \in SUBSET Conns
      BY DEF With
    <3>2. First(With(s, state)) \in With(s, state)
      BY <2>1, <2>4, <3>1
    <3>3. /\ First(With(s, state)) \in Conns
          /\ s.connections[First(With(s, state))].state = state
      BY <3>2 DEF With
    <3> QED BY <1>4, <1>6, <2>4, <3>3
  <2>5. CASE /\ Free(s) = {} /\ With(s, "connecting") = {}
             /\ With(s, "offline") = {} /\ With(s, "none") = {}
    <3>1. t = s
      BY <1>6, <2>5 DEF Flushed
    <3>2. s.connections[0].state = "connected"
      BY <1>1, <2>5, TwoConns DEF With, State, HTTPConnection
    <3>3. s.connections[0].requests # 0
      BY <2>5, <3>2, TwoConns DEF Free, With
    <3>4. /\ s.requests = s.connections[0].requests + s.connections[1].requests
          /\ s.connections[0].requests >= 0 /\ s.connections[1].requests >= 0
      BY <1>1, TwoConns DEF Counted
    <3>5. s.connections[0].requests \in Int /\ s.connections[1].requests \in Int
      BY <1>1, TwoConns DEF State, HTTPConnection
    <3>6. s.requests > 0
      BY <3>3, <3>4, <3>5
    <3> QED BY <1>3, <3>1, <3>6
  <2>6. CASE Free(s) = {} /\ With(s, "connecting") = {} /\ With(s, "offline") # {}
    <3>1. t = Connect(s, First(With(s, "offline")))
      BY <1>6, <2>6 DEF Flushed
    <3> QED BY <2>4, <2>6, <3>1
  <2>7. CASE /\ Free(s) = {} /\ With(s, "connecting") = {}
             /\ With(s, "offline") = {} /\ With(s, "none") # {}
    <3>1. t = Connect(s, First(With(s, "none")))
      BY <1>6, <2>7 DEF Flushed
    <3> QED BY <2>4, <2>7, <3>1
  <2> QED BY <2>2, <2>3, <2>5, <2>6, <2>7
<1> QED BY <1>5, <1>6

\* At first there is neither a request nor a connection.
LEMMA InitGood == Init => IInv
<1> SUFFICES ASSUME Init PROVE IInv
  OBVIOUS
<1> USE DEF NoConnection
<1>1. bosh \in State
  <2> DEFINE cs == [i \in Conns |-> IF i = 0
                        THEN [NoConnection EXCEPT !.state = "offline"]
                        ELSE NoConnection]
  <2>1. /\ NoConnection \in HTTPConnection
        /\ [NoConnection EXCEPT !.state = "offline"] \in HTTPConnection
    <3>1. NoConnection \in HTTPConnection
      BY DEF HTTPConnection
    <3> HIDE DEF NoConnection
    <3> QED BY <3>1 DEF HTTPConnection
  <2>2. cs \in [Conns -> HTTPConnection]
    <3> HIDE DEF NoConnection
    <3> QED BY <2>1
  <2>3. bosh = [connections |-> cs, pending |-> FALSE, pipelining |-> TRUE,
                state |-> "offline", failed_connections |-> 0, requests |-> 0,
                send_timer |-> FALSE, inactivity_timer |-> FALSE,
                auth |-> "no", over |-> "no"]
    BY DEF Init
  <2> HIDE DEF cs
  <2> QED BY <2>2, <2>3 DEF State, MAX_FAILED_CONNECTIONS
<1>2. /\ bosh.over = "no" /\ bosh.state = "offline" /\ bosh.pipelining
      /\ bosh.requests = 0 /\ bosh.failed_connections = 0
      /\ bosh.connections[0].state = "offline"
      /\ bosh.connections[1].state = "none"
  BY TwoConns DEF Init
<1>3. \A i \in Conns : /\ bosh.connections[i].requests = 0
                       /\ bosh.connections[i].server = 0
                       /\ ~bosh.connections[i].writeh
                       /\ bosh.connections[i].state # "connected"
  BY TwoConns DEF Init
<1> QED BY <1>1, <1>2, <1>3, TwoConns
        DEF IInv, Good, Owing, Counted, Shape, Shaped, GivesUp, Pushes,
            MAX_FAILED_CONNECTIONS

\* While the session goes on, the counts are right wherever an event begins.
LEMMA Going ==
    ASSUME IInv, bosh.over = "no"
    PROVE  /\ Ready(bosh) /\ Counted(bosh, 0, 0) /\ Shaped(bosh)
           /\ bosh.failed_connections < MAX_FAILED_CONNECTIONS
BY DEF IInv, Good, Ready, Owing, Shape, GivesUp

\* Each event keeps the invariant.
LEMMA StartGood == ASSUME IInv, Start PROVE IInv'
<1> DEFINE s == [bosh EXCEPT !.state = "booting"]
<1>1. bosh.over = "no" /\ bosh.state = "offline" /\ bosh' = Connect(s, 0)
  BY DEF Start, Happens
<1>2. /\ s \in State /\ s.over = "no" /\ s.requests = bosh.requests
      /\ s.connections = bosh.connections /\ s.state = "booting"
      /\ s.pipelining = bosh.pipelining
      /\ s.failed_connections = bosh.failed_connections
  BY <1>1 DEF IInv, Good, State
<1> HIDE DEF s
<1>3. Owing(s, 0, 0) /\ s.connections[0].state # "connected"
  BY <1>1, <1>2, Going DEF Owing, Counted, Shaped
<1>4. LET t == bosh' IN
      /\ t \in State /\ Owing(t, 0, 0) /\ t.over = s.over
      /\ t.failed_connections = s.failed_connections
      /\ t.pipelining = s.pipelining /\ t.state = s.state
      /\ t.connections[0].state = "connecting"
      /\ t.connections[1] = s.connections[1]
  BY <1>1, <1>2, <1>3, TwoConns, ConnectOwing
<1> QED BY <1>1, <1>2, <1>4, Going
        DEF IInv, Good, Shape, Shaped, GivesUp, Pushes

\* A connection that stands again.
LEMMA FreshConnection ==
    ASSUME NEW c \in HTTPConnection, NEW r \in Int
    PROVE  LET e == [c EXCEPT !.state = "connected", !.requests = r,
                              !.read_buf = FALSE, !.close = FALSE]
           IN  /\ e \in HTTPConnection /\ e.state = "connected"
               /\ e.requests = r /\ e.server = c.server
               /\ e.write_buf = c.write_buf
BY DEF HTTPConnection

LEMMA EstablishedGood ==
    ASSUME IInv, NEW i \in Conns, Established(i) PROVE IInv'
<1> DEFINE c == bosh.connections[i]
           e == [c EXCEPT !.state = "connected", !.requests = 0,
                          !.read_buf = FALSE, !.close = FALSE]
           s == [bosh EXCEPT !.connections[i] = e]
<1>1. /\ bosh.over = "no" /\ c.state = "connecting"
      /\ bosh' \in IF c.requests # 0 \/ c.write_buf # 0
                   THEN {[s EXCEPT !.over = "cut"]}
                   ELSE IF s.auth = "reinit" THEN {Normal(s)}
                   ELSE IF s.state = "online"
                   THEN IF s.requests = 0 \/ s.pending THEN Flushed(s) ELSE {s}
                   ELSE Requested(s, 0)
  BY DEF Established, Happens
<1>2. bosh \in State /\ c \in HTTPConnection
  BY DEF IInv, Good, State
<1>3. /\ e \in HTTPConnection /\ e.state = "connected" /\ e.requests = 0
      /\ e.server = c.server /\ e.write_buf = c.write_buf
  <2> HIDE DEF c
  <2> DEFINE zero == 0
  <2>1. zero \in Int
    OBVIOUS
  <2>2. e = [c EXCEPT !.state = "connected", !.requests = zero,
                      !.read_buf = FALSE, !.close = FALSE]
    OBVIOUS
  <2> HIDE DEF zero, e
  <2>3. /\ e \in HTTPConnection /\ e.state = "connected" /\ e.requests = zero
        /\ e.server = c.server /\ e.write_buf = c.write_buf
    BY <1>2, <2>1, <2>2, FreshConnection
  <2> QED BY <2>3 DEF zero
<1> HIDE DEF e
<1>4. /\ s \in State /\ s.connections[i] = e
      /\ \A j \in Conns : j # i => s.connections[j] = bosh.connections[j]
      /\ s.over = bosh.over /\ s.state = bosh.state
      /\ s.pipelining = bosh.pipelining /\ s.requests = bosh.requests
      /\ s.failed_connections = bosh.failed_connections
  BY <1>2, <1>3 DEF State
<1> HIDE DEF s
<1>5. CASE c.requests # 0 \/ c.write_buf # 0
  <2>1. bosh' \in State /\ bosh'.over = "cut"
    BY <1>1, <1>4, <1>5 DEF State
  <2> QED BY <2>1, OverGood DEF IInv
<1>6. CASE c.requests = 0 /\ c.write_buf = 0
  <2>1. Counted(bosh, 0, 0) /\ Shaped(bosh) /\ Ready(bosh)
    BY <1>1, Going
  <2>2. c.server = 0
    BY <1>1, <2>1 DEF Counted
  <2>3. Counted(s, 0, 0)
    BY <1>3, <1>4, <1>6, <2>1, <2>2, TwoConns DEF Counted
  <2>4. Shaped(s)
    BY <1>1, <1>3, <1>4, <2>1, TwoConns DEF Shaped
  <2>5. Ready(s)
    BY <1>1, <1>4, <2>1, <2>3, <2>4 DEF Ready, Owing, Shape, GivesUp
  <2>6. s.requests >= 0 /\ s.requests \in Int
    <3>1. s.requests = s.connections[0].requests + s.connections[1].requests
          /\ s.connections[0].requests >= 0 /\ s.connections[1].requests >= 0
      BY <2>3, TwoConns DEF Counted
    <3>2. /\ s.connections[0].requests \in Int /\ s.requests \in Int
          /\ s.connections[1].requests \in Int
      BY <1>4, TwoConns DEF State, HTTPConnection
    <3> QED BY <3>1, <3>2
  <2>7. CASE bosh' \in Flushed(s)
    BY <2>5, <2>7, FlushedGood DEF IInv
  <2>8. CASE bosh' \in Requested(s, 0)
    BY <2>5, <2>8, RequestedGood, TwoConns DEF IInv
  <2>9. CASE bosh' = s /\ s.requests # 0
    BY <2>5, <2>6, <2>9 DEF IInv, Good, Ready, Pushes
  <2>10. CASE bosh' = Normal(s)
    <3>1. LET t == bosh' IN
          /\ t \in State /\ t.over = s.over /\ t.requests = s.requests
          /\ t.connections = s.connections /\ t.state = s.state
          /\ t.pipelining = s.pipelining /\ t.send_timer
          /\ t.failed_connections = s.failed_connections
      BY <1>4, <2>10 DEF Normal, State
    <3> QED BY <2>5, <3>1
            DEF IInv, Good, Ready, Owing, Counted, Shape, Shaped, GivesUp, Pushes
  <2> QED BY <1>1, <1>6, <2>7, <2>8, <2>9, <2>10
<1> QED BY <1>5, <1>6

LEMMA ConnectFailsGood ==
    ASSUME IInv, NEW i \in Conns, ConnectFails(i) PROVE IInv'
<1>1. bosh' \in State /\ bosh'.over = "error"
  BY DEF IInv, Good, ConnectFails, Happens, Error, State
<1> QED BY <1>1, OverGood DEF IInv

\* http_connection_read, with n answers in the buffer and none counted yet.
Reading(s, i, n, more) ==
    /\ s \in State /\ s.over = "no" /\ s.state # "offline"
    /\ Counted(s, i, n) /\ Shaped(s) /\ Pushes(s)
    /\ s.failed_connections < MAX_FAILED_CONNECTIONS
    /\ s.connections[i].state = "connected"
    /\ n > 0 => s.connections[i].read_buf
    /\ more => s.connections[i].server > 0 /\ s.connections[i].requests > 0

LEMMA ReadingBegins ==
    ASSUME IInv, bosh.over = "no", NEW i \in Conns, NEW n \in 0..2,
           NEW more \in BOOLEAN,
           bosh.connections[i].state = "connected",
           n <= bosh.connections[i].server,
           more => n < bosh.connections[i].server
    PROVE  LET c == bosh.connections[i] IN
           Reading([bosh EXCEPT !.connections[i] = [c EXCEPT
                       !.server = @ - n, !.read_buf = @ \/ n > 0 \/ more]],
                   i, n, more)
<1> DEFINE c == bosh.connections[i]
           m == c.server - n
           a == [c EXCEPT !.server = m]
           b == a.read_buf \/ n > 0 \/ more
           e == [c EXCEPT !.server = @ - n, !.read_buf = @ \/ n > 0 \/ more]
           s == [bosh EXCEPT !.connections[i] = e]
<1>1. /\ bosh \in State /\ c \in HTTPConnection /\ c.server \in Nat
      /\ m \in Nat /\ b \in BOOLEAN /\ n \in Nat
      /\ c.requests \in Int /\ c.write_buf \in Nat
  BY DEF IInv, Good, State, HTTPConnection
<1>2. /\ Counted(bosh, 0, 0) /\ Shaped(bosh) /\ Pushes(bosh)
      /\ bosh.failed_connections < MAX_FAILED_CONNECTIONS
  BY Going DEF IInv, Good
<1>3. e = [a EXCEPT !.read_buf = b]
  OBVIOUS
<1>4. /\ a \in HTTPConnection /\ a.server = m /\ a.requests = c.requests
      /\ a.state = c.state /\ a.write_buf = c.write_buf /\ a.writeh = c.writeh
  <2> HIDE DEF c, m, e, s
  <2> QED BY <1>1 DEF HTTPConnection
<1>5. n > 0 => b
  OBVIOUS
<1> HIDE DEF a, e
<1>6. /\ e \in HTTPConnection /\ e.server = m /\ e.requests = c.requests
      /\ e.state = c.state /\ e.write_buf = c.write_buf /\ e.writeh = c.writeh
      /\ e.read_buf = b
  <2> HIDE DEF c, m, b, s
  <2> QED BY <1>1, <1>3, <1>4 DEF HTTPConnection
<1>7. /\ s \in State /\ s.connections[i] = e
      /\ \A j \in Conns : j # i => s.connections[j] = bosh.connections[j]
      /\ s.over = bosh.over /\ s.state = bosh.state
      /\ s.pipelining = bosh.pipelining /\ s.requests = bosh.requests
      /\ s.failed_connections = bosh.failed_connections
      /\ s.send_timer = bosh.send_timer
  BY <1>1, <1>6 DEF State
<1> HIDE DEF s
<1>8. \A j \in Conns :
        /\ s.connections[j].state = bosh.connections[j].state
        /\ s.connections[j].requests = bosh.connections[j].requests
        /\ s.connections[j].write_buf = bosh.connections[j].write_buf
        /\ s.connections[j].writeh = bosh.connections[j].writeh
  BY <1>6, <1>7
<1>9. c.requests = c.write_buf + c.server /\ c.requests >= n
  <2>1. c.requests = c.write_buf + c.server + 0
    BY <1>2 DEF Counted
  <2> QED BY <1>1, <2>1
<1>10. Counted(s, i, n)
  <2>1. c.requests = e.write_buf + e.server + n
    BY <1>1, <1>6, <1>9
  <2>2. ASSUME NEW j \in Conns
        PROVE  LET k == s.connections[j] IN
               /\ k.requests >= 0
               /\ k.state = "connected" =>
                     k.requests = k.write_buf + k.server
                                    + (IF j = i THEN n ELSE 0)
               /\ k.state # "connected" => k.server = 0 /\ ~k.writeh
    <3>1. CASE j = i
      BY <1>2, <1>6, <1>7, <2>1, <3>1 DEF Counted
    <3>2. CASE j # i
      BY <1>2, <1>7, <3>2 DEF Counted
    <3> QED BY <3>1, <3>2
  <2>3. s.requests = s.connections[0].requests + s.connections[1].requests
    BY <1>2, <1>7, <1>8, TwoConns DEF Counted
  <2>4. s.connections[i].requests >= n
    BY <1>8, <1>9
  <2> QED BY <2>2, <2>3, <2>4 DEF Counted
<1>11. Shaped(s) /\ s.state # "offline" /\ s.connections[i].state = "connected"
  BY <1>2, <1>7, <1>8, TwoConns DEF Shaped
<1>12. Pushes(s)
  BY <1>2, <1>7, <1>8 DEF Pushes, With
<1>13. more => s.connections[i].server > 0 /\ s.connections[i].requests > 0
  BY <1>1, <1>6, <1>7, <1>9
<1>14. n > 0 => s.connections[i].read_buf
  BY <1>6, <1>7, <1>5
<1>15. Reading(s, i, n, more)
  BY <1>2, <1>7, <1>10, <1>11, <1>12, <1>13, <1>14 DEF Reading
<1> QED BY <1>15 DEF s, e

\* And the end of the connection, if that is read too.
LEMMA ReadMid ==
    ASSUME NEW s, NEW i \in Conns, NEW n \in Nat, NEW more \in BOOLEAN,
           Reading(s, i, n, more), NEW eof \in BOOLEAN
    PROVE  LET t == IF eof THEN Disconnected(s, i) ELSE s IN
           /\ Mid(t, i, n) /\ Owing(t, i, n) /\ Shape(t) /\ GivesUp(t)
           /\ Pushes(t) /\ (more => Backed(t, i))
<1>1. CASE ~eof
  BY <1>1 DEF Reading, Mid, Owing, Shape, GivesUp, Backed
<1>2. CASE eof
  <2> DEFINE t == Disconnected(s, i)
  <2>1. /\ s \in State /\ Owing(s, i, n) /\ Shape(s) /\ s.over = "no"
        /\ s.state # "offline" /\ s.failed_connections < MAX_FAILED_CONNECTIONS
        /\ s.connections[i].state = "connected"
        /\ n > 0 => s.connections[i].read_buf
    BY DEF Reading, Owing, Shape
  <2>2. /\ t \in State /\ Owing(t, i, n) /\ Shape(t) /\ GivesUp(t)
        /\ t.state # "offline" /\ t.connections[i].state # "connected"
        /\ Pushes(s) => Pushes(t)
        /\ s.connections[i].requests > 0 /\ t.over = "no" =>
              With(t, "connecting") # {}
    BY <2>1, DisconnectedOwing
  <2> HIDE DEF t
  <2>3. Mid(t, i, n) /\ Pushes(t) /\ (more => Backed(t, i))
    BY <2>2 DEF Mid, Owing, Shape, GivesUp, Backed, Reading
  <2> QED BY <1>2, <2>2, <2>3 DEF t
<1> QED BY <1>1, <1>2

\* The loop over the read buffer.
LEMMA ResponsesGood ==
    ASSUME NEW s, NEW i \in Conns, NEW n \in 0..2,
           NEW more \in BOOLEAN, NEW closes \in BOOLEAN,
           Mid(s, i, n), Owing(s, i, n), Shape(s), GivesUp(s), Pushes(s),
           more => Backed(s, i),
           NEW t \in Responses(s, i, n, more, closes)
    PROVE  Good(t)
<1> DEFINE first == closes /\ n = 1 /\ ~more
           second == closes /\ ~more
           one == IF n = 0 THEN {s} ELSE Answer(s, i, first)
           two == IF n < 2 THEN one ELSE UNION {Answer(u, i, second) : u \in one}
<1>1. t \in IF more THEN {HeadersRead(u, i, closes) : u \in two}
            ELSE IF n = 0 THEN {s} ELSE {Processed(u, i) : u \in two}
  BY DEF Responses
<1>2. first \in BOOLEAN /\ second \in BOOLEAN
  OBVIOUS
<1> HIDE DEF first, second
<1>3. ASSUME NEW u \in two PROVE Mid(u, i, 0) /\ (more => Backed(u, i))
  <2>1. CASE n = 0
    <3>1. u = s
      BY <2>1
    <3> QED BY <2>1, <3>1
  <2>2. CASE n = 1
    <3>1. u \in Answer(s, i, first)
      BY <2>2
    <3>2. Mid(s, i, 0 + 1)
      BY <2>2
    <3> HIDE DEF two
    <3> QED BY <1>2, <3>1, <3>2, AnswerMid
  <2>3. CASE n = 2
    <3>1. PICK v \in Answer(s, i, first) : u \in Answer(v, i, second)
      BY <2>3
    <3>2. Mid(s, i, 1 + 1)
      BY <2>3
    <3> HIDE DEF two
    <3>3. Mid(v, i, 0 + 1) /\ (more => Backed(v, i))
      BY <1>2, <3>1, <3>2, AnswerMid
    <3> QED BY <1>2, <3>1, <3>3, AnswerMid
  <2> QED BY <2>1, <2>2, <2>3
<1> HIDE DEF two
<1>4. CASE more
  <2>1. PICK u \in two : t = HeadersRead(u, i, closes)
    BY <1>1, <1>4
  <2>2. Mid(t, i, 0) /\ Backed(t, i)
    BY <1>3, <1>4, <2>1, HeadersReadMid
  <2>3. t \in State /\ Owing(t, 0, 0) /\ Shape(t) /\ GivesUp(t)
    <3>1. t \in State /\ Owing(t, i, 0) /\ Shape(t) /\ GivesUp(t)
      BY <2>2 DEF Mid, Owing, Shape, GivesUp
    <3> QED BY <3>1, NothingOwed, TwoConns
  <2>4. ASSUME t.over = "no", t.connections[i].state = "connected",
               t.connections[i].server > 0
        PROVE  t.requests > 0
    <3>1. Counted(t, i, 0)
      BY <2>2, <2>4 DEF Mid
    <3>2. /\ t.connections[i].requests
               = t.connections[i].write_buf + t.connections[i].server + 0
          /\ t.requests = t.connections[0].requests + t.connections[1].requests
          /\ t.connections[0].requests >= 0 /\ t.connections[1].requests >= 0
      BY <2>4, <3>1, TwoConns DEF Counted
    <3>3. /\ t.connections[i].write_buf \in Nat /\ t.connections[i].server \in Nat
          /\ t.connections[0].requests \in Int /\ t.connections[1].requests \in Int
      BY <2>3, TwoConns DEF State, HTTPConnection
    <3>4. t.connections[i].requests > 0
      BY <2>4, <3>2, <3>3
    <3> QED BY <3>2, <3>3, <3>4, TwoConns
  <2>5. Pushes(t)
    BY <2>2, <2>4 DEF Backed, Pushes
  <2> QED BY <2>3, <2>5 DEF Good
<1>5. CASE ~more /\ n = 0
  <2>1. t = s
    BY <1>1, <1>5
  <2>2. s \in State /\ Owing(s, i, 0)
    BY <1>5 DEF Mid
  <2>3. Owing(s, 0, 0)
    BY <2>2, NothingOwed, TwoConns
  <2> QED BY <2>1, <2>2, <2>3 DEF Good
<1>6. CASE ~more /\ n # 0
  <2>1. PICK u \in two : t = Processed(u, i)
    BY <1>1, <1>6
  <2> QED BY <1>3, <2>1, ProcessedGood
<1> QED BY <1>4, <1>5, <1>6

LEMMA ReadGood ==
    ASSUME IInv, NEW i \in Conns, NEW n \in 0..2, NEW more \in BOOLEAN,
           NEW closes \in BOOLEAN, NEW eof \in BOOLEAN,
           Read(i, n, more, closes, eof)
    PROVE  IInv'
<1> DEFINE c == bosh.connections[i]
           s == [bosh EXCEPT !.connections[i] = [c EXCEPT
                   !.server = @ - n, !.read_buf = @ \/ n > 0 \/ more]]
           t == IF eof THEN Disconnected(s, i) ELSE s
<1>1. /\ bosh.over = "no" /\ c.state = "connected"
      /\ n <= c.server /\ (more => n < c.server)
      /\ bosh' \in Responses(t, i, n, more, closes)
  BY DEF Read, Happens
<1>2. Reading(s, i, n, more)
  BY <1>1, ReadingBegins
<1> HIDE DEF s
<1>3. n \in Nat
  OBVIOUS
<1>4. /\ Mid(t, i, n) /\ Owing(t, i, n) /\ Shape(t) /\ GivesUp(t)
      /\ Pushes(t) /\ (more => Backed(t, i))
  BY <1>2, <1>3, ReadMid
<1> HIDE DEF t
<1> QED BY <1>1, <1>4, ResponsesGood DEF IInv

LEMMA SendCbGood == ASSUME IInv, NEW i \in Conns, SendCb(i) PROVE IInv'
<1> DEFINE c == bosh.connections[i]
<1>1. bosh.over = "no" /\ c.writeh
  BY DEF SendCb, Happens
<1>2. /\ bosh \in State /\ c \in HTTPConnection /\ Counted(bosh, 0, 0)
      /\ Shaped(bosh) /\ Ready(bosh) /\ Pushes(bosh)
  BY <1>1, Going DEF IInv, Good, State
<1>3. /\ c.state = "connected" /\ c.requests = c.write_buf + c.server
      /\ c.write_buf \in Nat /\ c.server \in Nat /\ c.requests \in Int
  <2>1. c.state = "connected" /\ c.requests = c.write_buf + c.server + 0
    BY <1>1, <1>2 DEF Counted
  <2>2. c.write_buf \in Nat /\ c.server \in Nat /\ c.requests \in Int
    BY <1>2 DEF HTTPConnection
  <2> QED BY <2>1, <2>2
<1>4. ASSUME NEW e \in HTTPConnection, bosh' = [bosh EXCEPT !.connections[i] = e],
             e.state = c.state, e.requests = c.requests,
             e.write_buf + e.server = c.requests
      PROVE  IInv'
  <2> DEFINE t == [bosh EXCEPT !.connections[i] = e]
  <2>1. /\ t \in State /\ t.connections[i] = e
        /\ \A j \in Conns : j # i => t.connections[j] = bosh.connections[j]
        /\ t.over = bosh.over /\ t.state = bosh.state
        /\ t.pipelining = bosh.pipelining /\ t.requests = bosh.requests
        /\ t.failed_connections = bosh.failed_connections
        /\ t.send_timer = bosh.send_timer
    BY <1>2 DEF State
  <2>2. bosh' = t
    BY <1>4
  <2> HIDE DEF t
  <2>3. \A j \in Conns :
          /\ t.connections[j].state = bosh.connections[j].state
          /\ t.connections[j].requests = bosh.connections[j].requests
    BY <1>4, <2>1
  <2>4. Counted(t, 0, 0)
    <3>1. ASSUME NEW j \in Conns
          PROVE  LET k == t.connections[j] IN
                 /\ k.requests >= 0
                 /\ k.state = "connected" =>
                       k.requests = k.write_buf + k.server
                                      + (IF j = 0 THEN 0 ELSE 0)
                 /\ k.state # "connected" => k.server = 0 /\ ~k.writeh
      <4>1. CASE j = i
        <5>1. e.write_buf \in Nat /\ e.server \in Nat
          BY DEF HTTPConnection
        <5> QED BY <1>2, <1>3, <1>4, <2>1, <4>1, <5>1 DEF Counted
      <4>2. CASE j # i
        BY <1>2, <2>1, <4>2 DEF Counted
      <4> QED BY <4>1, <4>2
    <3>2. /\ t.requests = t.connections[0].requests + t.connections[1].requests
          /\ t.connections[0].requests >= 0
      BY <1>2, <2>1, <2>3, TwoConns DEF Counted
    <3> QED BY <3>1, <3>2 DEF Counted
  <2>5. Shape(t)
    BY <1>2, <2>1, <2>3, TwoConns DEF Shape, Shaped
  <2>6. Pushes(t)
    BY <1>2, <2>1, <2>3 DEF Pushes, With
  <2>7. Good(t)
    BY <1>2, <2>1, <2>4, <2>5, <2>6 DEF Good, Owing, GivesUp, Ready
  <2> QED BY <2>2, <2>7 DEF IInv
<1>5. CASE c.write_buf = 0 /\ bosh' = [bosh EXCEPT !.connections[i].writeh = FALSE]
  <2> DEFINE e == [c EXCEPT !.writeh = FALSE]
  <2>1. bosh' = [bosh EXCEPT !.connections[i] = e]
    BY <1>5
  <2>2. /\ e \in HTTPConnection /\ e.state = c.state /\ e.requests = c.requests
        /\ e.write_buf = c.write_buf /\ e.server = c.server
    <3> HIDE DEF c
    <3> QED BY <1>2 DEF HTTPConnection
  <2> HIDE DEF e
  <2> QED BY <1>3, <1>4, <2>1, <2>2
<1>6. ASSUME NEW n \in 1..c.write_buf,
             bosh' = [bosh EXCEPT !.connections[i].write_buf = @ - n,
                                  !.connections[i].server = @ + n]
      PROVE  IInv'
  <2> DEFINE wb == c.write_buf - n
             sv == c.server + n
             e == [c EXCEPT !.write_buf = wb, !.server = sv]
  <2>1. bosh' = [bosh EXCEPT !.connections[i] = e]
    BY <1>2, <1>6 DEF State, HTTPConnection
  <2>2. wb \in Nat /\ sv \in Nat /\ wb + sv = c.requests
    BY <1>3
  <2>3. /\ e \in HTTPConnection /\ e.state = c.state /\ e.requests = c.requests
        /\ e.write_buf = wb /\ e.server = sv
    <3> HIDE DEF c, wb, sv
    <3> QED BY <1>2, <2>2 DEF HTTPConnection
  <2> HIDE DEF e
  <2> QED BY <1>4, <2>1, <2>2, <2>3
<1>7. CASE bosh' = Error(bosh)
  <2>1. bosh' \in State /\ bosh'.over = "error"
    BY <1>2, <1>7 DEF Error, State
  <2> QED BY <2>1, OverGood DEF IInv
<1> QED BY <1>5, <1>6, <1>7 DEF SendCb, Happens

LEMMA SendGood == ASSUME IInv, Send PROVE IInv'
<1>1. /\ bosh.over = "no" /\ bosh \in State
      /\ bosh' = Normal([bosh EXCEPT !.pending = TRUE])
  BY DEF Send, Happens, IInv, Good
<1>2. LET t == bosh' IN
      /\ t \in State /\ t.over = bosh.over /\ t.requests = bosh.requests
      /\ t.connections = bosh.connections /\ t.state = bosh.state
      /\ t.pipelining = bosh.pipelining /\ t.send_timer
      /\ t.failed_connections = bosh.failed_connections
  BY <1>1 DEF Normal, State
<1> QED BY <1>2
        DEF IInv, Good, Owing, Counted, Shape, Shaped, GivesUp, Pushes

\* A flush after the timers were taken back.
LEMMA FlushGood ==
    ASSUME IInv, NEW s, s \in State, bosh.over = "no",
           s.over = bosh.over, s.requests = bosh.requests,
           s.connections = bosh.connections, s.state = bosh.state,
           s.pipelining = bosh.pipelining,
           s.failed_connections = bosh.failed_connections,
           bosh' \in Flushed(s)
    PROVE  IInv'
<1>1. Ready(s)
  BY Going DEF Ready, Owing, Counted, Shape, Shaped, GivesUp
<1> QED BY <1>1, FlushedGood DEF IInv

LEMMA SendTimerGood == ASSUME IInv, SendTimer PROVE IInv'
<1> DEFINE s == [bosh EXCEPT !.send_timer = FALSE]
<1>1. bosh.over = "no" /\ bosh' \in Flushed(s)
  BY DEF SendTimer, Happens
<1>2. /\ s \in State /\ s.over = bosh.over /\ s.requests = bosh.requests
      /\ s.connections = bosh.connections /\ s.state = bosh.state
      /\ s.pipelining = bosh.pipelining
      /\ s.failed_connections = bosh.failed_connections
  BY DEF IInv, Good, State
<1> HIDE DEF s
<1> QED BY <1>1, <1>2, FlushGood

LEMMA KeepAliveGood == ASSUME IInv, KeepAlive PROVE IInv'
<1> DEFINE s == [bosh EXCEPT !.inactivity_timer = FALSE, !.send_timer = FALSE]
<1>1. bosh.over = "no" /\ bosh' \in Flushed(s)
  BY DEF KeepAlive, Happens
<1>2. /\ s \in State /\ s.over = bosh.over /\ s.requests = bosh.requests
      /\ s.connections = bosh.connections /\ s.state = bosh.state
      /\ s.pipelining = bosh.pipelining
      /\ s.failed_connections = bosh.failed_connections
  BY DEF IInv, Good, State
<1> HIDE DEF s
<1> QED BY <1>1, <1>2, FlushGood

LEMMA CloseGood == ASSUME IInv, Close PROVE IInv'
<1>1. bosh' \in State /\ bosh'.over = "closed"
  BY DEF IInv, Good, Close, Happens, State
<1> QED BY <1>1, OverGood DEF IInv

LEMMA NextGood == IInv /\ [Next]_bosh => IInv'
<1> SUFFICES ASSUME IInv, [Next]_bosh PROVE IInv'
  OBVIOUS
<1>1. CASE Start
  BY <1>1, StartGood
<1>2. CASE Send
  BY <1>2, SendGood
<1>3. CASE SendTimer
  BY <1>3, SendTimerGood
<1>4. CASE KeepAlive
  BY <1>4, KeepAliveGood
<1>5. CASE Close
  BY <1>5, CloseGood
<1>6. ASSUME NEW i \in Conns, Established(i) PROVE IInv'
  BY <1>6, EstablishedGood
<1>7. ASSUME NEW i \in Conns, ConnectFails(i) PROVE IInv'
  BY <1>7, ConnectFailsGood
<1>8. ASSUME NEW i \in Conns, SendCb(i) PROVE IInv'
  BY <1>8, SendCbGood
<1>9. ASSUME NEW i \in Conns, NEW n \in 0..2, NEW more \in BOOLEAN,
             NEW closes \in BOOLEAN, NEW eof \in BOOLEAN,
             Read(i, n, more, closes, eof)
      PROVE  IInv'
  BY <1>9, ReadGood
<1>10. CASE UNCHANGED bosh
  BY <1>10 DEF IInv
<1> QED BY <1>1, <1>2, <1>3, <1>4, <1>5, <1>6, <1>7, <1>8, <1>9, <1>10 DEF Next

\* The invariant implies the three properties of states.
LEMMA GoodImplies == IInv => TypeOK /\ CountsAgree /\ ServerCanPush
<1> SUFFICES ASSUME IInv PROVE TypeOK /\ CountsAgree /\ ServerCanPush
  OBVIOUS
<1>1. TypeOK /\ ServerCanPush
  BY DEF IInv, Good, TypeOK, Pushes, ServerCanPush
<1>2. ASSUME bosh.over = "no" PROVE CountsAgree
  <2>1. Counted(bosh, 0, 0)
    BY <1>2, Going
  <2>2. ASSUME NEW i \in Conns, bosh.connections[i].state = "connected"
        PROVE  bosh.connections[i].requests =
                   bosh.connections[i].write_buf + bosh.connections[i].server
    <3>1. bosh.connections[i].requests =
            bosh.connections[i].write_buf + bosh.connections[i].server + 0
      BY <2>1, <2>2 DEF Counted
    <3>2. /\ bosh.connections[i].write_buf \in Nat
          /\ bosh.connections[i].server \in Nat
      BY DEF IInv, Good, State, HTTPConnection
    <3> QED BY <3>1, <3>2
  <2> QED BY <2>1, <2>2 DEF Counted, CountsAgree, OutstandingIsOutstanding
<1>3. bosh.over # "no" => CountsAgree
  BY DEF CountsAgree
<1> QED BY <1>1, <1>2, <1>3

LEMMA Invariant == Spec => []IInv
BY InitGood, NextGood, PTL DEF Spec

\* Type correctness of a session (all of PurpleBOSHConnection and its
\* connections).
THEOREM TypeCorrect == Spec => []TypeOK
BY Invariant, GoodImplies, PTL

\* The counts of bosh.c are exact, through pipelined answers, lost connections
\* and the change to two connections, until a request is dropped or cut.
THEOREM CountsAreExact == Spec => []CountsAgree
BY Invariant, GoodImplies, PTL

\* jabber_bosh_http_connection_process and the timers always leave the server
\* a request to answer, or one that will be made.
THEOREM ServerIsAsked == Spec => []ServerCanPush
BY Invariant, GoodImplies, PTL
=============================================================================

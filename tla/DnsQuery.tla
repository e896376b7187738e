------------------------------ MODULE DnsQuery ------------------------------
(***************************************************************************)
(* libpurple/dnsquery.c where it forks: host names are looked up by child  *)
(* processes, at most MAX_DNS_CHILDREN of them, one query at a time each.  *)
(* Queries that find no child wait in queued_requests; a child that has    *)
(* answered waits in free_dns_children, and leaves when nobody needed it   *)
(* for 20 seconds.  A caller may cancel its query at any time.             *)
(*                                                                         *)
(* The module's state is one record, and its functions map a state to the  *)
(* set of states they may return in.  Which free child is tried first is   *)
(* left open.  The operators marked "slip" are wrong versions of the one   *)
(* that follows; nothing but a test of the properties uses them.           *)
(***************************************************************************)
EXTENDS Integers, Sequences, FiniteSets

CONSTANTS
    Queries,        \* each of which is asked at most once
    Children,       \* names for the child processes
    None,
    MaxChildren     \* MAX_DNS_CHILDREN

ASSUME MaxChildrenAssumption == MaxChildren \in Nat \ {0}
ASSUME NoneAssumption == None \notin Queries /\ None \notin Children

VARIABLE dns

\* A child process, with its two pipes: job is the query whose name was written
\* to it and not answered yet to the parent, answer what it wrote back.  A child
\* that is leaving still has its pipes open, but reads no more.
Child == [life   : {"none", "running", "leaving", "exited"},
          job    : Queries \cup {None},
          answer : {"none", "hosts", "error"}]

NoProcess == [life |-> "none", job |-> None, answer |-> "none"]

State == [
    outcome  : [Queries -> {"unasked", "asked", "hosts", "error", "cancelled",
                            "again"}],     \* "again": called back once more
    timeout  : [Queries -> BOOLEAN],    \* initiate_resolving is due
    resolver : [Queries -> Children \cup {None}],
    queued_requests       : Seq(Queries),
    free_dns_children     : SUBSET Children,
    number_of_dns_children : Int,
    child_failed : BOOLEAN,     \* history: a child could not be made
    fork_failed  : BOOLEAN,     \* history: because of fork
    inpa     : [Children -> Queries \cup {None}],  \* the query told of answers
    child    : [Children -> Child] ]

Init == dns = [
    outcome  |-> [q \in Queries |-> "unasked"],
    timeout  |-> [q \in Queries |-> FALSE],
    resolver |-> [q \in Queries |-> None],
    queued_requests        |-> <<>>,
    free_dns_children      |-> {},
    number_of_dns_children |-> 0,
    child_failed |-> FALSE,
    fork_failed  |-> FALSE,
    inpa     |-> [c \in Children |-> None],
    child    |-> [c \in Children |-> NoProcess]]

-----------------------------------------------------------------------------
(* The functions of dnsquery.c.                                            *)

\* Slips: the watch of the answers is left behind, or the count not lowered.
ResolversDestroyedWatched(s, C) ==
    [s EXCEPT !.child = [c \in Children |-> IF c \in C THEN NoProcess ELSE @[c]],
              !.number_of_dns_children = @ - Cardinality(C)]

ResolversDestroyedUncounted(s, C) ==
    [s EXCEPT !.inpa  = [c \in Children |-> IF c \in C THEN None ELSE @[c]],
              !.child = [c \in Children |-> IF c \in C THEN NoProcess ELSE @[c]]]

\* purple_dnsquery_resolver_destroy, for each child of C: kill it.
ResolversDestroyed(s, C) ==
    [s EXCEPT !.inpa  = [c \in Children |-> IF c \in C THEN None ELSE @[c]],
              !.child = [c \in Children |-> IF c \in C THEN NoProcess ELSE @[c]],
              !.number_of_dns_children = @ - Cardinality(C)]

\* What g_slist_remove, for each query of Q, leaves of a list.
Without(list, Q) ==
    LET W[i \in 0..Len(list)] ==
            IF i = 0 THEN <<>>
            ELSE IF list[i] \in Q THEN W[i - 1] ELSE Append(W[i - 1], list[i])
    IN  W[Len(list)]

\* purple_dnsquery_destroy, for each query of Q: out of the queue, the child at
\* work for it killed, its timer removed.
Destroyed(s, Q) ==
    [ResolversDestroyed(s, {s.resolver[q] : q \in Q} \ {None}) EXCEPT
        !.queued_requests = Without(@, Q),
        !.timeout  = [q \in Queries |-> q \notin Q /\ @[q]],
        !.resolver = [q \in Queries |-> IF q \in Q THEN None ELSE @[q]]]

\* Callers cancel the queries of Q.
Cancelled(s, Q) ==
    [Destroyed(s, Q) EXCEPT
        !.outcome = [q \in Queries |-> IF q \in Q THEN "cancelled" ELSE @[q]]]

Pending(s) == {q \in Queries : s.outcome[q] = "asked"}

\* The callback of q, a caller's code, hears "hosts" or an "error", and may
\* cancel other queries.
CalledBack(s, q, heard) ==
    {[Cancelled(s, Q) EXCEPT !.outcome[q] =
            IF s.outcome[q] = "asked" THEN heard ELSE "again"] :
        Q \in SUBSET (Pending(s) \ {q})}

\* Slips: the child is given back, and killed with the query all the same; what
\* is given back is not looked at, and was no child.
GivenBackTwice(s, q) ==
    Destroyed([s EXCEPT !.free_dns_children = @ \cup ({s.resolver[q]} \ {None})],
              {q})

GivenBackBlindly(s, q) ==
    Destroyed([s EXCEPT !.free_dns_children = @ \cup {s.resolver[q]},
                        !.resolver[q] = None], {q})

\* The end of purple_dnsquery_resolved: the child of q is free again.
GivenBack(s, q) ==
    Destroyed([s EXCEPT !.free_dns_children = @ \cup ({s.resolver[q]} \ {None}),
                        !.resolver[q] = None], {q})

\* purple_dnsquery_resolved
Resolved(s, q) == {GivenBack(t, q) : t \in CalledBack(s, q, "hosts")}

\* purple_dnsquery_failed: the child, if any, is killed.
Failed(s, q) == {Destroyed(t, {q}) : t \in CalledBack(s, q, "error")}

\* The name of q is written to child c, and its answer watched for.
Given(s, q, c) ==
    [s EXCEPT !.free_dns_children = @ \ {c}, !.resolver[q] = c,
              !.child[c].job = q, !.inpa[c] = q]

\* Slip: a query for which all children are busy is forgotten.
NewResolverOrForget(s, q) ==
    IF s.number_of_dns_children >= MaxChildren THEN {s}
    ELSE {Given([s EXCEPT !.child[c].life = "running",
                          !.number_of_dns_children = @ + 1], q, c) :
             c \in {c \in Children : s.child[c].life = "none"}}

\* purple_dnsquery_resolver_new and the rest of handle_next_queued_request, for
\* a query no free child took: it waits on, or gets a child of its own, or fails
\* with the pipes, the write or (counting a child that is not there) the fork.
NewResolver(s, q) ==
    IF s.number_of_dns_children >= MaxChildren
    THEN {[s EXCEPT !.queued_requests = <<q>> \o @]}
    ELSE {Given([s EXCEPT !.child[c].life = "running",
                          !.number_of_dns_children = @ + 1], q, c) :
             c \in {c \in Children : s.child[c].life = "none"}}
         \cup Failed([s EXCEPT !.child_failed = TRUE], q)
         \cup Failed([s EXCEPT !.child_failed = TRUE, !.fork_failed = TRUE,
                               !.number_of_dns_children = @ - 1], q)

\* send_dns_request_to_child: an exited child takes no name, and one about to
\* exit may or may not.
MayRefuse(s) == {c \in s.free_dns_children : s.child[c].life # "running"}
MayAccept(s) == {c \in s.free_dns_children : s.child[c].life # "exited"}

\* handle_next_queued_request: of the free children, those in C are found gone,
\* and then c takes the first query, or none was left.
NextHandled(s) ==
    IF s.queued_requests = <<>> THEN {s}
    ELSE LET q       == Head(s.queued_requests)
             t       == [s EXCEPT !.queued_requests = Tail(@)]
             Gone(C) == [ResolversDestroyed(t, C) EXCEPT !.free_dns_children = @ \ C]
         IN  {Given(Gone(x[1]), q, x[2]) :
                 x \in {x \in (SUBSET MayRefuse(t)) \X MayAccept(t) :
                            x[2] \notin x[1]}}
             \cup IF t.free_dns_children = MayRefuse(t)
                  THEN NewResolver(Gone(t.free_dns_children), q) ELSE {}

-----------------------------------------------------------------------------
(* The events.                                                             *)

\* purple_dnsquery_a_account: nothing happens before the main loop's next turn.
Ask(q) ==
    /\ dns.outcome[q] = "unasked"
    /\ dns' = [dns EXCEPT !.outcome[q] = "asked", !.timeout[q] = TRUE]

\* Slip: a query that was answered at once is looked up all the same.
InitiateResolvingAnyway(q) ==
    LET s == [dns EXCEPT !.timeout[q] = FALSE] IN
    /\ dns.timeout[q]
    /\ \E t \in {s} \cup Resolved(s, q) \cup Failed(s, q) :
          dns' \in NextHandled([t EXCEPT !.queued_requests = Append(@, q)])

\* initiate_resolving: a numeric address is answered at once, and so is, with an
\* error, any name when the proxy is Tor; the others join the queue.
InitiateResolving(q) ==
    LET s == [dns EXCEPT !.timeout[q] = FALSE] IN
    /\ dns.timeout[q]
    /\ \/ dns' \in Resolved(s, q) \cup Failed(s, q)
       \/ dns' \in NextHandled([s EXCEPT !.queued_requests = Append(@, q)])

\* Slip: the queue is only handled when a query is asked.
HostResolvedAlone(c) ==
    LET q == dns.inpa[c]
        s == [dns EXCEPT !.inpa[c] = None,
                         !.child[c].job = None, !.child[c].answer = "none"]
    IN  /\ q # None
        /\ dns.child[c].answer # "none" \/ dns.child[c].life = "exited"
        /\ dns' \in IF dns.child[c].answer = "hosts" THEN Resolved(s, q)
                                                     ELSE Failed(s, q)

\* host_resolved: the child has answered, or its end of the pipe is closed.
HostResolved(c) ==
    LET q == dns.inpa[c]
        s == [dns EXCEPT !.inpa[c] = None,
                         !.child[c].job = None, !.child[c].answer = "none"]
    IN  /\ q # None
        /\ dns.child[c].answer # "none" \/ dns.child[c].life = "exited"
        /\ \E t \in IF dns.child[c].answer = "hosts" THEN Resolved(s, q)
                                                     ELSE Failed(s, q) :
              dns' \in NextHandled(t)

\* purple_dnsquery_destroy, called by whoever asked.
Cancel(q) ==
    /\ q \in Pending(dns)
    /\ dns' = Cancelled(dns, {q})

\* purple_dnsquery_resolver_run: the child answers a name it has read, and ends
\* after an error; it also ends when no name came for 20 seconds, or crashes.
ChildAnswers(c) ==
    LET p == dns.child[c] IN
    /\ p.life = "running" /\ p.job # None /\ p.answer = "none"
    /\ \/ dns' = [dns EXCEPT !.child[c].answer = "hosts"]
       \/ dns' = [dns EXCEPT !.child[c].answer = "error",
                             !.child[c].life = "leaving"]

ChildExpires(c) ==
    /\ dns.child[c].life = "running"
    /\ dns.child[c].job = None \/ dns.child[c].answer = "hosts"
    /\ dns' = [dns EXCEPT !.child[c].life = "leaving"]

ChildExits(c) ==
    /\ dns.child[c].life \in {"running", "leaving"}
    /\ dns' = [dns EXCEPT !.child[c].life = "exited"]

Next ==
    \/ \E q \in Queries : Ask(q) \/ InitiateResolving(q) \/ Cancel(q)
    \/ \E c \in Children : \/ HostResolved(c) \/ ChildAnswers(c)
                           \/ ChildExpires(c) \/ ChildExits(c)

\* The main loop dispatches timers and readable pipes; look-ups end.
Fairness ==
    /\ \A q \in Queries : WF_dns(InitiateResolving(q))
    /\ \A c \in Children :
          /\ WF_dns(HostResolved(c)) /\ WF_dns(ChildAnswers(c))
          /\ WF_dns(dns.child[c].life = "leaving" /\ ChildExits(c))

Spec == Init /\ [][Next]_dns /\ Fairness

-----------------------------------------------------------------------------
(* Properties.                                                             *)

\* Type invariant.
TypeOK == dns \in State

Alive == {c \in Children : dns.child[c].life # "none"}

\* A child works for one query, which waits for it alone, and an answer in its
\* pipe is for that query; a free child has no work, no watch, and no answer
\* left in its pipe that the next query would take for its own.
AnswersFindTheirQuery ==
    /\ \A c \in Alive \ dns.free_dns_children :
          \E q \in Queries : /\ dns.resolver[q] = c
                             /\ dns.inpa[c] = q /\ dns.child[c].job = q
                             /\ \A p \in Queries \ {q} : dns.resolver[p] # c
    /\ \A c \in dns.free_dns_children :
          /\ c \in Alive /\ dns.inpa[c] = None
          /\ dns.child[c].job = None /\ dns.child[c].answer = "none"
          /\ \A q \in Queries : dns.resolver[q] # c

\* A destroyed query, whose memory is freed, is in no list, has no timer, and no
\* child will report to it.
DestroyedIsUnreachable ==
    \A q \in Queries \ Pending(dns) :
        /\ ~dns.timeout[q] /\ dns.resolver[q] = None
        /\ \A i \in 1..Len(dns.queued_requests) : dns.queued_requests[i] # q
        /\ \A c \in Children : dns.inpa[c] # q

\* The count of children, which decides whether a new one may be made, is right,
\* whatever is cancelled and whoever crashes; a failing fork alone upsets it.
NumberIsRight ==
    ~dns.fork_failed => dns.number_of_dns_children = Cardinality(Alive)

SomeCancelled == \E q \in Queries : dns.outcome[q] = "cancelled"

\* A query waits in the queue only while a child is at work: its answer is what
\* gets the queue handled.
QueueIsServed ==
    dns.queued_requests # <<>> => \E q \in Queries : dns.resolver[q] # None

\* So it is, with children that crash and leave, while nobody cancels and a child
\* can be made when one is needed (a query that fails because it gets none does
\* not get the one behind it handled).
QueueIsServedUncancelled ==
    ~SomeCancelled /\ ~dns.child_failed => QueueIsServed

\* To its callers the module is a look-up: a query is called back once, with
\* addresses or with an error, and never when it was cancelled, whatever the
\* callbacks cancel and whichever child crashes.
Lookups == INSTANCE Lookup WITH outcome <- dns.outcome
IsLookup == Lookups!Spec

\* Every query that is asked is answered, in the same conditions.
EveryQueryAnswered ==
    \A q \in Queries :
        dns.outcome[q] = "asked" ~>
            \/ dns.outcome[q] \in {"hosts", "error"}
            \/ SomeCancelled \/ dns.child_failed
=============================================================================

--------------------------- MODULE DnsQueryProofs ---------------------------
(***************************************************************************)
(* Proofs about DnsQuery: whatever is cancelled and whichever child is     *)
(* lost, an answer finds its query, nothing refers to a destroyed query,   *)
(* the count of children is right, the queue is served, and the callers    *)
(* see a Lookup.  For any number of queries, and of children at a time.    *)
(***************************************************************************)
EXTENDS DnsQuery, FiniteSetTheorems, WellFoundedInduction, TLAPS

-----------------------------------------------------------------------------
(* Lists without some of their elements.  What the recursive function in   *)
(* Without computes is known by induction on its argument, here in the     *)
(* form that a set of numbers has a least element.                         *)

\* A set of numbers has a least element.
LEMMA Least ==
    ASSUME NEW T \in SUBSET Nat, T # {}
    PROVE  \E n \in T : \A m \in T : n <= m
<1>1. IsWellFoundedOn(OpToRel(<, Nat), Nat)
  BY NatLessThanWellFounded
<1>2. PICK n \in T : \A m \in T : ~(<<m, n>> \in OpToRel(<, Nat))
  BY <1>1, WFMin
<1>3. \A m \in T : ~(m < n)
  BY <1>2 DEF OpToRel
<1> QED BY <1>3

\* The body of the recursion, and that f solves it up to n.
Kept(list, Q, f, i) ==
    IF i = 0 THEN <<>>
    ELSE IF list[i] \in Q THEN f[i - 1] ELSE Append(f[i - 1], list[i])

Solves(list, Q, f, n) == f = [i \in 0..n |-> Kept(list, Q, f, i)]

\* There is such a function.
LEMMA Solvable ==
    ASSUME NEW list, NEW Q, NEW n \in Nat
    PROVE  \E f : Solves(list, Q, f, n)
<1> DEFINE T == {m \in Nat : ~\E f : Solves(list, Q, f, m)}
<1> SUFFICES ASSUME T # {} PROVE FALSE
  OBVIOUS
<1>1. PICK m \in T : \A k \in T : m <= k
  BY Least
<1>2. m \in Nat /\ ~\E f : Solves(list, Q, f, m)
  BY <1>1
<1>3. CASE m = 0
  <2>1. Solves(list, Q, [i \in 0..0 |-> <<>>], 0)
    BY DEF Solves, Kept
  <2> QED BY <1>2, <1>3, <2>1
<1>4. CASE m # 0
  <2>1. m - 1 \in Nat /\ m - 1 \notin T
    BY <1>1, <1>4
  <2>2. PICK f : Solves(list, Q, f, m - 1)
    BY <2>1
  <2>3. \A i \in 0..(m - 1) : f[i] = Kept(list, Q, f, i)
    BY <2>2 DEF Solves
  <2> DEFINE g == [i \in 0..m |-> IF i < m THEN f[i] ELSE Kept(list, Q, f, m)]
  <2>4. \A i \in 0..(m - 1) : g[i] = f[i]
    BY <1>2
  <2>5. g[m] = Kept(list, Q, f, m)
    BY <1>2
  <2>6. g = [i \in 0..m |-> g[i]]
    OBVIOUS
  <2> HIDE DEF g
  <2>7. \A i \in 0..m : Kept(list, Q, g, i) = Kept(list, Q, f, i)
    BY <1>2, <2>4 DEF Kept
  <2>8. \A i \in 0..m : g[i] = Kept(list, Q, g, i)
    BY <1>2, <2>3, <2>4, <2>5, <2>7
  <2>9. Solves(list, Q, g, m)
    BY <2>6, <2>8 DEF Solves
  <2> QED BY <1>2, <2>9
<1> QED BY <1>2, <1>3, <1>4

\* w is what remains of the first n elements; p has their places.
Picks(list, Q, w, n, p) ==
    /\ p \in [1..Len(w) -> 1..n]
    /\ \A i \in 1..Len(w) : w[i] = list[p[i]] /\ list[p[i]] \notin Q
    /\ \A i, j \in 1..Len(w) : i < j => p[i] < p[j]

\* What remains is picked from the list, in order.
LEMMA WithoutPicks ==
    ASSUME NEW S, NEW list \in Seq(S), NEW Q
    PROVE  /\ Without(list, Q) \in Seq(S)
           /\ \E p : Picks(list, Q, Without(list, Q), Len(list), p)
<1> DEFINE n == Len(list)
           F == CHOOSE f : Solves(list, Q, f, n)
<1>1. n \in Nat
  OBVIOUS
<1>2. Solves(list, Q, F, n)
  BY <1>1, Solvable
<1>3. Without(list, Q) = F[n]
  BY DEF Without, Solves, Kept
<1> HIDE DEF F
<1> DEFINE P(m) == F[m] \in Seq(S) /\ \E p : Picks(list, Q, F[m], m, p)
           T == {m \in 0..n : ~P(m)}
<1>4. ASSUME T # {} PROVE FALSE
  <2>0. T \in SUBSET Nat
    <3> HIDE DEF P
    <3> QED BY <1>1
  <2>1. PICK m \in T : \A k \in T : m <= k
    <3> HIDE DEF T
    <3> QED BY <1>4, <2>0, Least
  <2>2. m \in 0..n /\ ~P(m)
    BY <2>1
  <2>3. F[m] = Kept(list, Q, F, m)
    BY <1>2, <2>2 DEF Solves
  <2>4. CASE m = 0
    <3>1. F[m] = <<>>
      BY <2>3, <2>4 DEF Kept
    <3>2. Picks(list, Q, <<>>, 0, [i \in {} |-> 0])
      BY DEF Picks
    <3>3. F[m] \in Seq(S) /\ \E p : Picks(list, Q, F[m], m, p)
      BY <2>4, <3>1, <3>2
    <3> QED BY <2>2, <3>3
  <2>5. CASE m # 0
    <3>1. m - 1 \in 0..n /\ ~(m <= m - 1)
      BY <1>1, <2>2, <2>5
    <3>2. P(m - 1)
      <4> HIDE DEF P
      <4> QED BY <2>1, <3>1
    <3> DEFINE v == F[m - 1]
               k == Len(v)
    <3>3. v \in Seq(S) /\ k \in Nat
      BY <3>2
    <3>4. PICK p : Picks(list, Q, v, m - 1, p)
      BY <3>2
    <3>5. CASE list[m] \in Q
      <4>1. F[m] = v
        BY <2>3, <2>5, <3>5 DEF Kept
      <4>2. p \in [1..Len(v) -> 1..m]
        <5>1. 1..(m - 1) \subseteq 1..m
          BY <2>2, <1>1
        <5> HIDE DEF v
        <5> QED BY <3>4, <5>1 DEF Picks
      <4>3. Picks(list, Q, v, m, p)
        BY <3>4, <4>2 DEF Picks
      <4> QED BY <2>2, <3>3, <4>1, <4>3
    <3>6. CASE list[m] \notin Q
      <4> DEFINE w == Append(v, list[m])
                 r == [i \in 1..Len(w) |-> IF i = k + 1 THEN m ELSE p[i]]
      <4>1. F[m] = w
        BY <2>3, <2>5, <3>6 DEF Kept
      <4>2. list[m] \in S
        BY <1>1, <2>2, <2>5
      <4> HIDE DEF v
      <4>3. /\ w \in Seq(S) /\ Len(w) = k + 1 /\ w[k + 1] = list[m]
            /\ \A i \in 1..k : w[i] = v[i]
        BY <3>3, <4>2
      <4>4. \A i \in 1..k : p[i] \in 1..(m - 1)
        BY <3>4 DEF Picks
      <4>5. r[k + 1] = m /\ \A i \in 1..k : r[i] = p[i]
        BY <3>3, <4>3
      <4>6. r \in [1..Len(w) -> 1..m]
        BY <1>1, <2>2, <2>5, <3>3, <4>3, <4>4
      <4> HIDE DEF w, r, k
      <4>7. \A i \in 1..Len(w) : i \in 1..k \/ i = k + 1
        BY <3>3, <4>3
      <4>8. \A i \in 1..Len(w) : w[i] = list[r[i]] /\ list[r[i]] \notin Q
        BY <3>4, <3>6, <4>3, <4>5, <4>7 DEF Picks, k
      <4>9. \A i, j \in 1..Len(w) : i < j => r[i] < r[j]
        <5> SUFFICES ASSUME NEW i \in 1..Len(w), NEW j \in 1..Len(w), i < j
                     PROVE  r[i] < r[j]
          OBVIOUS
        <5>1. i \in 1..k
          BY <3>3, <4>3
        <5>2. CASE j = k + 1
          BY <1>1, <2>2, <4>4, <4>5, <5>1, <5>2
        <5>3. CASE j \in 1..k
          BY <3>4, <4>5, <5>1, <5>3 DEF Picks, k
        <5> QED BY <4>7, <5>2, <5>3
      <4>10. Picks(list, Q, w, m, r)
        BY <4>6, <4>8, <4>9 DEF Picks
      <4> QED BY <2>2, <4>1, <4>3, <4>10
    <3> QED BY <3>5, <3>6
  <2> QED BY <2>4, <2>5
<1>5. n \in 0..n
  BY <1>1
<1>6. P(n)
  BY <1>4, <1>5
<1> QED BY <1>3, <1>6

\* The queries in a list, and that none is in it twice.
Listed(list) == {list[i] : i \in 1..Len(list)}
Distinct(list) == \A i, j \in 1..Len(list) : list[i] = list[j] => i = j

\* What purple_dnsquery_destroy leaves of the queue.
LEMMA WithoutIs ==
    ASSUME NEW S, NEW list \in Seq(S), NEW Q, NEW w, w = Without(list, Q)
    PROVE  /\ w \in Seq(S)
           /\ Listed(w) \subseteq Listed(list) \ Q
           /\ Distinct(list) => Distinct(w)
<1>1. w \in Seq(S) /\ \E p : Picks(list, Q, w, Len(list), p)
  BY WithoutPicks
<1>2. PICK p : Picks(list, Q, w, Len(list), p)
  BY <1>1
<1>3. Len(list) \in Nat /\ Len(w) \in Nat
  BY <1>1
<1>4. \A i \in 1..Len(w) :
        p[i] \in 1..Len(list) /\ w[i] = list[p[i]] /\ w[i] \notin Q
  BY <1>2 DEF Picks
<1>5. Listed(w) \subseteq Listed(list) \ Q
  BY <1>4 DEF Listed
<1>6. ASSUME Distinct(list), NEW i \in 1..Len(w), NEW j \in 1..Len(w), w[i] = w[j]
      PROVE  i = j
  <2>1. p[i] = p[j]
    BY <1>4, <1>6 DEF Distinct
  <2>2. ~(i < j) /\ ~(j < i)
    BY <1>2, <1>3, <1>4, <2>1 DEF Picks
  <2> QED BY <1>3, <2>2
<1> QED BY <1>1, <1>5, <1>6 DEF Distinct

-----------------------------------------------------------------------------
(* The invariant.  q is the query that is being dealt with, if any, and x  *)
(* the child that it leaves idle, or that was just made for it: neither is *)
(* held to what is asked of the others.                                    *)

AliveIn(s) == {c \in Children : s.child[c].life # "none"}

\* No query is read, answered or watched for with this child.
Blank(s, c) ==
    s.inpa[c] = None /\ s.child[c].job = None /\ s.child[c].answer = "none"

\* The count of children is the number of them, unless a fork failed.
Counted(s) ==
    /\ IsFiniteSet(AliveIn(s))
    /\ s.fork_failed \/ s.number_of_dns_children = Cardinality(AliveIn(s))
    /\ s.fork_failed => s.child_failed

\* A query is in one place at most, in none when it is not asked, and if it has
\* a child, that child is busy and answers to it.
QueryOK(s, p, x) ==
    /\ s.timeout[p] \/ p \in Listed(s.queued_requests) \/ s.resolver[p] # None
            => s.outcome[p] = "asked"
    /\ s.timeout[p] => p \notin Listed(s.queued_requests) /\ s.resolver[p] = None
    /\ p \in Listed(s.queued_requests) => s.resolver[p] = None
    /\ s.resolver[p] # None =>
            /\ s.resolver[p] \in Children \ (s.free_dns_children \cup {x})
            /\ s.child[s.resolver[p]].life # "none"
            /\ s.inpa[s.resolver[p]] = p

\* A free child is alive, and blank, as is one that is not there; any other is
\* the child of the query it answers to.
ChildOK(s, c, q) ==
    /\ c \in s.free_dns_children \/ s.child[c].life = "none" => Blank(s, c)
    /\ c \in s.free_dns_children => s.child[c].life # "none"
    /\ c \notin s.free_dns_children /\ s.child[c].life # "none" =>
            /\ s.inpa[c] \in Queries \ {q}
            /\ s.resolver[s.inpa[c]] = c
            /\ s.child[c].job = s.inpa[c]

\* The query q is nowhere but with x.
QueryOut(s, q, x) ==
    ~s.timeout[q] /\ q \notin Listed(s.queued_requests) /\ s.resolver[q] \in {None, x}

\* The child x is idle but not free.
ChildOut(s, x) ==
    x \notin s.free_dns_children /\ s.child[x].life # "none" /\ Blank(s, x)

Sound(s, q, x) ==
    /\ s \in State
    /\ Counted(s)
    /\ Distinct(s.queued_requests)
    /\ \A p \in Queries \ {q} : QueryOK(s, p, x)
    /\ \A c \in Children \ {x} : ChildOK(s, c, q)
    /\ q \in Queries => QueryOut(s, q, x)
    /\ x \in Children => ChildOut(s, x)

\* A query that waits in the queue waits for a child at work.
Fed(s) ==
    \/ \E p \in Queries : s.outcome[p] = "cancelled"
    \/ s.child_failed
    \/ s.queued_requests = <<>>
    \/ \E p \in Queries : s.resolver[p] # None

IInv == Sound(dns, None, None) /\ Fed(dns)
-----------------------------------------------------------------------------
(* The state, field by field, and what each function does to it.           *)

Outcomes == {"unasked", "asked", "hosts", "error", "cancelled", "again"}
Lives == {"none", "running", "leaving", "exited"}
Answers == {"none", "hosts", "error"}

\* A state is what its fields are.
LEMMA StateIs ==
    \A s \in State :
        /\ s.outcome \in [Queries -> Outcomes]
        /\ s.timeout \in [Queries -> BOOLEAN]
        /\ s.resolver \in [Queries -> Children \cup {None}]
        /\ s.queued_requests \in Seq(Queries)
        /\ s.free_dns_children \in SUBSET Children
        /\ s.number_of_dns_children \in Int
        /\ s.child_failed \in BOOLEAN
        /\ s.fork_failed \in BOOLEAN
        /\ s.inpa \in [Children -> Queries \cup {None}]
        /\ s.child \in [Children -> Child]
<1>1. \A s \in State :
          /\ s.outcome \in [Queries -> Outcomes]
          /\ s.timeout \in [Queries -> BOOLEAN]
          /\ s.resolver \in [Queries -> Children \cup {None}]
          /\ s.queued_requests \in Seq(Queries)
          /\ s.free_dns_children \in SUBSET Children
  BY DEF State, Outcomes
<1>2. \A s \in State :
          /\ s.number_of_dns_children \in Int
          /\ s.child_failed \in BOOLEAN
          /\ s.fork_failed \in BOOLEAN
          /\ s.inpa \in [Children -> Queries \cup {None}]
          /\ s.child \in [Children -> Child]
  BY DEF State
<1> QED BY <1>1, <1>2

\* What purple_dnsquery_destroy leaves of each field.
LEMMA DestroyedIs ==
    ASSUME NEW s \in State, NEW Q \in SUBSET Queries, NEW C \in SUBSET Children,
           C = {s.resolver[p] : p \in Q} \ {None},
           NEW u, u = Destroyed(s, Q), Cardinality(C) \in Int
    PROVE  /\ u.outcome = s.outcome
           /\ u.timeout = [p \in Queries |-> p \notin Q /\ s.timeout[p]]
           /\ u.resolver = [p \in Queries |-> IF p \in Q THEN None ELSE s.resolver[p]]
           /\ u.queued_requests = Without(s.queued_requests, Q)
           /\ u.free_dns_children = s.free_dns_children
           /\ u.number_of_dns_children = s.number_of_dns_children - Cardinality(C)
           /\ u.child_failed = s.child_failed
           /\ u.fork_failed = s.fork_failed
           /\ u.inpa = [c \in Children |-> IF c \in C THEN None ELSE s.inpa[c]]
           /\ u.child = [c \in Children |-> IF c \in C THEN NoProcess ELSE s.child[c]]
           /\ u \in State
<1> DEFINE ti == [p \in Queries |-> p \notin Q /\ s.timeout[p]]
           re == [p \in Queries |-> IF p \in Q THEN None ELSE s.resolver[p]]
           qu == Without(s.queued_requests, Q)
           nu == s.number_of_dns_children - Cardinality(C)
           ip == [c \in Children |-> IF c \in C THEN None ELSE s.inpa[c]]
           ch == [c \in Children |-> IF c \in C THEN NoProcess ELSE s.child[c]]
<1>1. u = [outcome |-> s.outcome, timeout |-> ti, resolver |-> re,
           queued_requests |-> qu, free_dns_children |-> s.free_dns_children,
           number_of_dns_children |-> nu, child_failed |-> s.child_failed,
           fork_failed |-> s.fork_failed, inpa |-> ip, child |-> ch]
  <2> HIDE DEF nu
  <2> QED BY DEF Destroyed, ResolversDestroyed, State, nu
<1>2. ti \in [Queries -> BOOLEAN] /\ re \in [Queries -> Children \cup {None}]
  BY StateIs
<1>3. qu \in Seq(Queries)
  BY StateIs, WithoutIs
<1>4. nu \in Int
  BY StateIs
<1>5. ip \in [Children -> Queries \cup {None}]
  BY StateIs
<1>6. ch \in [Children -> Child]
  BY StateIs DEF NoProcess, Child
<1> HIDE DEF ti, re, qu, nu, ip, ch
<1>7. u \in State
  <2>1. /\ s.outcome \in [Queries -> Outcomes]
        /\ s.free_dns_children \in SUBSET Children
        /\ s.child_failed \in BOOLEAN /\ s.fork_failed \in BOOLEAN
    BY StateIs
  <2> QED BY <1>1, <1>2, <1>3, <1>4, <1>5, <1>6, <2>1 DEF State, Outcomes
<1>8. /\ u.outcome = s.outcome /\ u.timeout = ti /\ u.resolver = re
      /\ u.queued_requests = qu /\ u.free_dns_children = s.free_dns_children
      /\ u.number_of_dns_children = nu /\ u.child_failed = s.child_failed
      /\ u.fork_failed = s.fork_failed /\ u.inpa = ip /\ u.child = ch
  BY <1>1
<1> QED BY <1>7, <1>8 DEF ti, re, qu, nu, ip, ch

\* Children that are killed are no longer counted.
LEMMA CountedLess ==
    ASSUME NEW s \in State, Counted(s), NEW C \in SUBSET AliveIn(s),
           NEW u, AliveIn(u) = AliveIn(s) \ C,
           u.number_of_dns_children = s.number_of_dns_children - Cardinality(C),
           u.fork_failed = s.fork_failed, u.child_failed = s.child_failed
    PROVE  Counted(u)
<1>1. IsFiniteSet(AliveIn(s)) /\ IsFiniteSet(C) /\ IsFiniteSet(AliveIn(u))
  BY FS_Subset DEF Counted
<1>2. AliveIn(s) \cap C = C
  OBVIOUS
<1>3. Cardinality(AliveIn(u)) = Cardinality(AliveIn(s)) - Cardinality(C)
  <2> DEFINE A == AliveIn(s)
  <2>1. IsFiniteSet(A)
    BY <1>1
  <2> HIDE DEF A
  <2>2. Cardinality(A \ C) = Cardinality(A) - Cardinality(A \cap C)
    BY <2>1, FS_Difference
  <2> QED BY <1>2, <2>2 DEF A
<1> QED BY <1>1, <1>3 DEF Counted

\* Queries, and perhaps the one being dealt with, are destroyed: the rest is as
\* sound as before.
LEMMA DestroyedSound ==
    ASSUME NEW q \in Queries \cup {None}, NEW x \in Children \cup {None},
           NEW s, Sound(s, q, x), NEW Q \in SUBSET Queries,
           NEW y \in Children \cup {None},
           \/ q \notin Q /\ y = x
           \/ q \in Q /\ y = None /\ s.resolver[q] = x,
           NEW u, u = Destroyed(s, Q)
    PROVE  /\ Sound(u, q, y)
           /\ \A p \in Queries \ Q : u.resolver[p] = s.resolver[p]
           /\ u.outcome = s.outcome /\ u.child_failed = s.child_failed
           /\ u.free_dns_children = s.free_dns_children
           /\ s.queued_requests = <<>> => u.queued_requests = <<>>
<1> DEFINE C == {s.resolver[p] : p \in Q} \ {None}
<1>1. /\ s \in State /\ Counted(s) /\ Distinct(s.queued_requests)
      /\ \A p \in Queries \ {q} : QueryOK(s, p, x)
      /\ \A c \in Children \ {x} : ChildOK(s, c, q)
      /\ q \in Queries => QueryOut(s, q, x)
      /\ x \in Children => ChildOut(s, x)
  BY DEF Sound
<1>2. \A p \in Queries : s.resolver[p] \in Children \cup {None}
  BY <1>1, StateIs
<1>3. C \in SUBSET AliveIn(s)
  <2> SUFFICES ASSUME NEW p \in Q, s.resolver[p] # None
               PROVE  s.resolver[p] \in AliveIn(s)
    OBVIOUS
  <2>1. CASE p # q
    BY <1>1, <2>1 DEF QueryOK, AliveIn
  <2>2. CASE p = q
    BY <1>1, <1>2, <2>2 DEF QueryOut, ChildOut, AliveIn
  <2> QED BY <2>1, <2>2
<1>4. C \in SUBSET Children /\ Cardinality(C) \in Int
  BY <1>1, <1>3, FS_Subset, FS_CardinalityType DEF Counted, AliveIn
<1>5. /\ u.outcome = s.outcome
      /\ u.timeout = [p \in Queries |-> p \notin Q /\ s.timeout[p]]
      /\ u.resolver = [p \in Queries |-> IF p \in Q THEN None ELSE s.resolver[p]]
      /\ u.queued_requests = Without(s.queued_requests, Q)
      /\ u.free_dns_children = s.free_dns_children
      /\ u.number_of_dns_children = s.number_of_dns_children - Cardinality(C)
      /\ u.child_failed = s.child_failed
      /\ u.fork_failed = s.fork_failed
      /\ u.inpa = [c \in Children |-> IF c \in C THEN None ELSE s.inpa[c]]
      /\ u.child = [c \in Children |-> IF c \in C THEN NoProcess ELSE s.child[c]]
      /\ u \in State
  <2> HIDE DEF C
  <2>1. C = {s.resolver[p] : p \in Q} \ {None}
    BY DEF C
  <2> QED BY <1>1, <1>4, <2>1, DestroyedIs
<1> HIDE DEF C
<1>6. AliveIn(u) = AliveIn(s) \ C
  BY <1>5 DEF AliveIn, NoProcess
<1>7. Counted(u)
  BY <1>1, <1>3, <1>5, <1>6, CountedLess
<1>8. /\ Listed(u.queued_requests) \subseteq Listed(s.queued_requests) \ Q
      /\ Distinct(u.queued_requests)
  BY <1>1, <1>5, StateIs, WithoutIs
<1>9. ASSUME NEW p \in Queries \ {q} PROVE QueryOK(u, p, y)
  <2>1. QueryOK(s, p, x)
    BY <1>1
  <2>2. CASE p \in Q
    BY <1>5, <1>8, <2>2 DEF QueryOK
  <2>3. CASE p \notin Q
    <3>0. s.timeout[p] \in BOOLEAN
      BY <1>1, StateIs
    <3>1. u.timeout[p] = s.timeout[p] /\ u.resolver[p] = s.resolver[p]
      BY <1>5, <2>3, <3>0
    <3>2. /\ u.timeout[p] \/ p \in Listed(u.queued_requests) \/ u.resolver[p] # None
                => u.outcome[p] = "asked"
          /\ u.timeout[p] =>
                p \notin Listed(u.queued_requests) /\ u.resolver[p] = None
          /\ p \in Listed(u.queued_requests) => u.resolver[p] = None
      BY <1>5, <1>8, <2>1, <3>1 DEF QueryOK
    <3>3. ASSUME s.resolver[p] # None
          PROVE  /\ s.resolver[p] \notin C
                 /\ s.resolver[p] \in Children \ (s.free_dns_children \cup {x})
                 /\ s.child[s.resolver[p]].life # "none"
                 /\ s.inpa[s.resolver[p]] = p
      <4>1. /\ s.resolver[p] \in Children \ (s.free_dns_children \cup {x})
            /\ s.child[s.resolver[p]].life # "none"
            /\ s.inpa[s.resolver[p]] = p
        BY <2>1, <3>3 DEF QueryOK
      <4>2. ASSUME NEW r \in Q, s.resolver[r] = s.resolver[p] PROVE FALSE
        <5>1. CASE r = q
          BY <1>1, <3>3, <4>1, <4>2, <5>1 DEF QueryOut
        <5>2. CASE r # q
          BY <1>1, <2>3, <3>3, <4>1, <4>2, <5>2 DEF QueryOK
        <5> QED BY <5>1, <5>2
      <4> QED BY <4>1, <4>2 DEF C
    <3>4. ASSUME s.resolver[p] # None
          PROVE  /\ u.resolver[p] \in Children \ (u.free_dns_children \cup {y})
                 /\ u.child[u.resolver[p]].life # "none"
                 /\ u.inpa[u.resolver[p]] = p
      BY <1>5, <3>1, <3>3, <3>4
    <3> QED BY <3>1, <3>2, <3>4 DEF QueryOK
  <2> QED BY <2>2, <2>3
<1>10. ASSUME NEW c \in Children \ {y} PROVE ChildOK(u, c, q)
  <2>1. CASE c \in C
    <3>1. u.inpa[c] = None /\ u.child[c] = NoProcess
      BY <1>5, <2>1
    <3>2. c \notin s.free_dns_children
      <4>1. PICK p \in Q : c = s.resolver[p] /\ c # None
        BY <2>1 DEF C
      <4>2. CASE p # q
        BY <1>1, <4>1, <4>2 DEF QueryOK
      <4>3. CASE p = q
        BY <1>1, <4>1, <4>3 DEF QueryOut, ChildOut
      <4> QED BY <4>2, <4>3
    <3> QED BY <1>5, <3>1, <3>2 DEF ChildOK, Blank, NoProcess
  <2>2. CASE c \notin C
    <3>1. c # x
      <4>1. CASE q \in Q
        BY <2>2, <4>1, NoneAssumption DEF C
      <4> QED BY <4>1
    <3>2. ChildOK(s, c, q)
      BY <1>1, <3>1
    <3>3. u.inpa[c] = s.inpa[c] /\ u.child[c] = s.child[c]
      BY <1>5, <2>2
    <3>4. ASSUME c \notin s.free_dns_children, s.child[c].life # "none"
          PROVE  /\ s.inpa[c] \in Queries \ {q}
                 /\ u.resolver[s.inpa[c]] = c
                 /\ s.child[c].job = s.inpa[c]
      <4>1. /\ s.inpa[c] \in Queries \ {q}
            /\ s.resolver[s.inpa[c]] = c
            /\ s.child[c].job = s.inpa[c]
        BY <3>2, <3>4 DEF ChildOK
      <4>2. s.inpa[c] \notin Q
        BY <2>2, <4>1, NoneAssumption DEF C
      <4> QED BY <1>5, <4>1, <4>2
    <3> QED BY <1>5, <3>2, <3>3, <3>4 DEF ChildOK, Blank
  <2> QED BY <2>1, <2>2
<1>11. ASSUME q \in Queries PROVE QueryOut(u, q, y)
  <2>1. QueryOut(s, q, x)
    BY <1>1, <1>11
  <2>2. CASE q \in Q
    BY <1>5, <1>8, <1>11, <2>2 DEF QueryOut
  <2>3. CASE q \notin Q
    BY <1>5, <1>8, <1>11, <2>1, <2>3 DEF QueryOut
  <2> QED BY <2>2, <2>3
<1>12. ASSUME y \in Children PROVE ChildOut(u, y)
  <2>1. q \notin Q /\ y = x /\ ChildOut(s, y)
    BY <1>1, <1>12, NoneAssumption
  <2>2. y \notin C
    <3>1. ASSUME NEW p \in Q, s.resolver[p] = y PROVE FALSE
      BY <1>1, <1>12, <2>1, <3>1, NoneAssumption DEF QueryOK
    <3> QED BY <3>1 DEF C
  <2> QED BY <1>5, <1>12, <2>1, <2>2 DEF ChildOut, Blank
<1>13. Sound(u, q, y)
  BY <1>5, <1>7, <1>8, <1>9, <1>10, <1>11, <1>12 DEF Sound
<1>14. s.queued_requests = <<>> => u.queued_requests = <<>>
  <2>1. s.queued_requests \in Seq(Queries) /\ u.queued_requests \in Seq(Queries)
    BY <1>1, <1>5, StateIs
  <2>2. ASSUME s.queued_requests = <<>>, u.queued_requests # <<>> PROVE FALSE
    <3>1. u.queued_requests[1] \in Listed(u.queued_requests)
      BY <2>1, <2>2 DEF Listed
    <3>2. Listed(s.queued_requests) = {}
      BY <2>2 DEF Listed
    <3> QED BY <1>8, <3>1, <3>2
  <2> QED BY <2>2
<1> QED BY <1>5, <1>13, <1>14

-----------------------------------------------------------------------------
(* Answers, and what the callbacks do.                                     *)

\* A query that is dealt with, and has no child left, is like any other.
LEMMA NobodyOut ==
    ASSUME NEW q \in Queries \cup {None}, NEW s, Sound(s, q, None)
    PROVE  Sound(s, None, None)
<1>1. ASSUME NEW p \in Queries PROVE QueryOK(s, p, None)
  <2>1. CASE p = q
    <3>1. s \in State /\ QueryOut(s, q, None)
      BY <2>1 DEF Sound
    <3>2. ~s.timeout[p] /\ p \notin Listed(s.queued_requests) /\ s.resolver[p] = None
      BY <2>1, <3>1 DEF QueryOut
    <3> QED BY <3>2 DEF QueryOK
  <2>2. CASE p # q
    BY <2>2 DEF Sound
  <2> QED BY <2>1, <2>2
<1>2. ASSUME NEW c \in Children PROVE ChildOK(s, c, None)
  <2>1. ChildOK(s, c, q)
    BY NoneAssumption DEF Sound
  <2> QED BY <2>1, NoneAssumption DEF ChildOK
<1> QED BY <1>1, <1>2, NoneAssumption DEF Sound

\* Queries are settled that are nowhere, or are being dealt with.
LEMMA OutcomeSound ==
    ASSUME NEW q \in Queries \cup {None}, NEW x \in Children \cup {None},
           NEW s, Sound(s, q, x), NEW f \in [Queries -> Outcomes],
           \A p \in Queries \ {q} :
              \/ f[p] = s.outcome[p]
              \/ /\ ~s.timeout[p] /\ p \notin Listed(s.queued_requests)
                 /\ s.resolver[p] = None,
           NEW u, u = [s EXCEPT !.outcome = f]
    PROVE  /\ Sound(u, q, x)
           /\ u.outcome = f /\ u.resolver = s.resolver
           /\ u.free_dns_children = s.free_dns_children
           /\ u.child_failed = s.child_failed
           /\ u.queued_requests = s.queued_requests
<1>1. s \in State
  BY DEF Sound
<1>2. u \in State
  BY <1>1 DEF State, Outcomes
<1>3. /\ u.outcome = f /\ u.timeout = s.timeout /\ u.resolver = s.resolver
      /\ u.queued_requests = s.queued_requests
      /\ u.free_dns_children = s.free_dns_children
      /\ u.number_of_dns_children = s.number_of_dns_children
      /\ u.child_failed = s.child_failed /\ u.fork_failed = s.fork_failed
      /\ u.inpa = s.inpa /\ u.child = s.child
  BY <1>1 DEF State
<1>4. Counted(u)
  BY <1>3 DEF Sound, Counted, AliveIn
<1>5. ASSUME NEW p \in Queries \ {q} PROVE QueryOK(u, p, x)
  <2>1. QueryOK(s, p, x)
    BY DEF Sound
  <2>2. CASE f[p] = s.outcome[p]
    BY <1>3, <2>1, <2>2 DEF QueryOK
  <2>3. CASE /\ ~s.timeout[p] /\ p \notin Listed(s.queued_requests)
             /\ s.resolver[p] = None
    BY <1>3, <2>3 DEF QueryOK
  <2> QED BY <2>2, <2>3
<1>6. ASSUME NEW c \in Children \ {x} PROVE ChildOK(u, c, q)
  <2>1. ChildOK(s, c, q)
    BY DEF Sound
  <2> QED BY <1>3, <2>1 DEF ChildOK, Blank
<1>7. q \in Queries => QueryOut(u, q, x)
  BY <1>3 DEF Sound, QueryOut
<1>8. x \in Children => ChildOut(u, x)
  BY <1>3 DEF Sound, ChildOut, Blank
<1>9. Distinct(u.queued_requests)
  BY <1>3 DEF Sound
<1> QED BY <1>2, <1>3, <1>4, <1>5, <1>6, <1>7, <1>8, <1>9 DEF Sound

\* From s to u, outcomes change only as a look-up's may.
Settles(s, u) ==
    \A p \in Queries :
        \/ u.outcome[p] = s.outcome[p]
        \/ /\ s.outcome[p] = "asked"
           /\ u.outcome[p] \in {"hosts", "error", "cancelled"}

\* From s to t, no query but q loses its child unless it is cancelled.
Spares(s, t, q) ==
    /\ t.child_failed = s.child_failed
    /\ s.queued_requests = <<>> => t.queued_requests = <<>>
    /\ \A p \in Queries \ {q} :
          t.outcome[p] = "cancelled" \/ t.resolver[p] = s.resolver[p]

\* Cancelling queries.
LEMMA CancelledSound ==
    ASSUME NEW q \in Queries \cup {None}, NEW x \in Children \cup {None},
           NEW s, Sound(s, q, x), NEW Q \in SUBSET Pending(s), q \notin Q,
           NEW u, u = Cancelled(s, Q)
    PROVE  /\ Sound(u, q, x)
           /\ u.outcome = [p \in Queries |-> IF p \in Q THEN "cancelled"
                                             ELSE s.outcome[p]]
           /\ \A p \in Queries \ Q : u.resolver[p] = s.resolver[p]
           /\ u.child_failed = s.child_failed
           /\ u.free_dns_children = s.free_dns_children
           /\ s.queued_requests = <<>> => u.queued_requests = <<>>
<1> DEFINE d == Destroyed(s, Q)
           f == [p \in Queries |-> IF p \in Q THEN "cancelled" ELSE s.outcome[p]]
<1>1. Q \in SUBSET Queries
  BY DEF Pending
<1>2. PICK e : e = d
  OBVIOUS
<1> HIDE DEF d
<1>3. /\ Sound(e, q, x)
      /\ \A p \in Queries \ Q : e.resolver[p] = s.resolver[p]
      /\ e.outcome = s.outcome /\ e.child_failed = s.child_failed
      /\ e.free_dns_children = s.free_dns_children
      /\ s.queued_requests = <<>> => e.queued_requests = <<>>
  BY <1>1, <1>2, DestroyedSound DEF d
<1>4. s \in State /\ e \in State /\ s.outcome \in [Queries -> Outcomes]
  BY <1>3, StateIs DEF Sound
<1>5. f \in [Queries -> Outcomes]
  BY <1>4 DEF Outcomes
<1>6. u = [e EXCEPT !.outcome = f]
  <2>1. e.outcome = s.outcome
    BY <1>3
  <2> QED BY <1>2, <2>1 DEF Cancelled, d
<1>7. ASSUME NEW p \in Queries \ {q}
      PROVE  \/ f[p] = e.outcome[p]
             \/ /\ ~e.timeout[p] /\ p \notin Listed(e.queued_requests)
                /\ e.resolver[p] = None
  <2>1. CASE p \in Q
    <3>1. /\ e.timeout[p] = FALSE
          /\ e.resolver[p] = None
          /\ e.queued_requests = Without(s.queued_requests, Q)
      BY <1>1, <1>2, <1>4, <2>1 DEF d, Destroyed, ResolversDestroyed, State
    <3>2. Listed(e.queued_requests) \subseteq Listed(s.queued_requests) \ Q
      BY <1>4, <3>1, StateIs, WithoutIs
    <3> QED BY <2>1, <3>1, <3>2
  <2>2. CASE p \notin Q
    BY <1>3, <2>2
  <2> QED BY <2>1, <2>2
<1> HIDE DEF f
<1>8. /\ Sound(u, q, x) /\ u.outcome = f /\ u.resolver = e.resolver
      /\ u.free_dns_children = e.free_dns_children
      /\ u.child_failed = e.child_failed
      /\ u.queued_requests = e.queued_requests
  BY <1>3, <1>5, <1>6, <1>7, OutcomeSound
<1> QED BY <1>3, <1>8 DEF f

\* The callback of a query that is being answered.
LEMMA CalledBackSound ==
    ASSUME NEW q \in Queries, NEW x \in Children \cup {None},
           NEW s, Sound(s, q, x), s.outcome[q] = "asked",
           NEW heard \in {"hosts", "error"}, NEW t \in CalledBack(s, q, heard)
    PROVE  /\ Sound(t, q, x) /\ Settles(s, t) /\ Spares(s, t, q)
           /\ t.resolver[q] = s.resolver[q]
<1>1. PICK Q \in SUBSET (Pending(s) \ {q}) :
        t = [Cancelled(s, Q) EXCEPT !.outcome[q] = heard]
  BY DEF CalledBack
<1>2. PICK e : e = Cancelled(s, Q)
  OBVIOUS
<1>3. Q \in SUBSET Pending(s) /\ q \notin Q
  BY <1>1
<1>4. /\ Sound(e, q, x)
      /\ e.outcome = [p \in Queries |-> IF p \in Q THEN "cancelled"
                                        ELSE s.outcome[p]]
      /\ \A p \in Queries \ Q : e.resolver[p] = s.resolver[p]
      /\ e.child_failed = s.child_failed
      /\ s.queued_requests = <<>> => e.queued_requests = <<>>
  BY <1>2, <1>3, CancelledSound
<1> DEFINE f == [e.outcome EXCEPT ![q] = heard]
<1>5. e \in State /\ e.outcome \in [Queries -> Outcomes]
  BY <1>4, StateIs DEF Sound
<1>6. f \in [Queries -> Outcomes]
  BY <1>5 DEF Outcomes
<1>7. t = [e EXCEPT !.outcome = f]
  BY <1>1, <1>2
<1>8. \A p \in Queries \ {q} : f[p] = e.outcome[p]
  BY <1>5
<1>9. f[q] = heard
  BY <1>5
<1> HIDE DEF f
<1>10. /\ Sound(t, q, x) /\ t.outcome = f /\ t.resolver = e.resolver
       /\ t.child_failed = e.child_failed
       /\ t.queued_requests = e.queued_requests
  BY <1>4, <1>6, <1>7, <1>8, OutcomeSound
<1>11. \A p \in Queries \ {q} : p \in Q => s.outcome[p] = "asked"
  BY <1>3 DEF Pending
<1>12. Settles(s, t)
  BY <1>4, <1>8, <1>9, <1>10, <1>11 DEF Settles
<1>13. \A p \in Queries \ {q} :
         t.outcome[p] = "cancelled" \/ t.resolver[p] = s.resolver[p]
  BY <1>4, <1>8, <1>10
<1>14. t.resolver[q] = s.resolver[q]
  BY <1>3, <1>4, <1>10
<1> QED BY <1>4, <1>10, <1>12, <1>13, <1>14 DEF Spares

\* The query q gives back the child x.
Freed(s, q, x) ==
    [s EXCEPT !.free_dns_children = @ \cup ({x} \ {None}), !.resolver[q] = None]

\* A child that is idle is free from now on.
LEMMA FreeSound ==
    ASSUME NEW q \in Queries, NEW x \in Children \cup {None},
           NEW s, Sound(s, q, x), s.resolver[q] = x,
           NEW u, u = Freed(s, q, x)
    PROVE  /\ Sound(u, q, None) /\ u.resolver[q] = None
           /\ u.outcome = s.outcome /\ u.child_failed = s.child_failed
           /\ u.queued_requests = s.queued_requests
           /\ \A p \in Queries \ {q} : u.resolver[p] = s.resolver[p]
<1>1. /\ s \in State
      /\ s.resolver \in [Queries -> Children \cup {None}]
      /\ s.free_dns_children \in SUBSET Children
  BY StateIs DEF Sound
<1> DEFINE re == [s.resolver EXCEPT ![q] = None]
           fr == s.free_dns_children \cup ({x} \ {None})
<1>2. /\ u.outcome = s.outcome /\ u.timeout = s.timeout /\ u.resolver = re
      /\ u.queued_requests = s.queued_requests
      /\ u.free_dns_children = fr
      /\ u.number_of_dns_children = s.number_of_dns_children
      /\ u.child_failed = s.child_failed /\ u.fork_failed = s.fork_failed
      /\ u.inpa = s.inpa /\ u.child = s.child
  BY <1>1 DEF State, Freed
<1>3. re \in [Queries -> Children \cup {None}] /\ fr \in SUBSET Children
  BY <1>1
<1>4. u = [s EXCEPT !.resolver = re, !.free_dns_children = fr]
  BY <1>1 DEF State, Freed
<1>5. re[q] = None /\ \A p \in Queries \ {q} : re[p] = s.resolver[p]
  BY <1>1
<1> HIDE DEF re
<1>6. u \in State
  <2> HIDE DEF fr
  <2> QED BY <1>1, <1>3, <1>4 DEF State
<1>7. Counted(u) /\ Distinct(u.queued_requests)
  BY <1>2 DEF Sound, Counted, AliveIn
<1>8. ASSUME NEW p \in Queries \ {q} PROVE QueryOK(u, p, None)
  <2>1. QueryOK(s, p, x)
    BY DEF Sound
  <2>2. u.resolver[p] = s.resolver[p]
    BY <1>2, <1>5
  <2> QED BY <1>2, <2>1, <2>2 DEF QueryOK
<1>9. ASSUME NEW c \in Children PROVE ChildOK(u, c, q)
  <2>1. CASE c = x
    <3>1. ChildOut(s, c)
      BY <2>1 DEF Sound
    <3>2. c \in u.free_dns_children
      BY <1>2, <2>1, NoneAssumption
    <3> QED BY <1>2, <3>1, <3>2 DEF ChildOK, ChildOut, Blank
  <2>2. CASE c # x
    <3>1. ChildOK(s, c, q)
      BY <2>2 DEF Sound
    <3>2. c \in u.free_dns_children <=> c \in s.free_dns_children
      BY <1>2, <2>2
    <3> QED BY <1>2, <1>5, <3>1, <3>2 DEF ChildOK, Blank
  <2> QED BY <2>1, <2>2
<1>10. QueryOut(u, q, None)
  BY <1>2, <1>5 DEF Sound, QueryOut
<1>11. Sound(u, q, None)
  BY <1>6, <1>7, <1>8, <1>9, <1>10, NoneAssumption DEF Sound
<1> QED BY <1>2, <1>5, <1>11

\* A query is answered with addresses or an error.
LEMMA ClosedSound ==
    ASSUME NEW q \in Queries, NEW x \in Children \cup {None},
           NEW s, Sound(s, q, x), s.outcome[q] = "asked", s.resolver[q] = x,
           NEW u \in Resolved(s, q) \cup Failed(s, q)
    PROVE  Sound(u, None, None) /\ Settles(s, u) /\ Spares(s, u, q)
<1>1. ASSUME NEW t \in CalledBack(s, q, "hosts"), u = GivenBack(t, q)
      PROVE  Sound(u, None, None) /\ Settles(s, u) /\ Spares(s, u, q)
  <2>1. /\ Sound(t, q, x) /\ Settles(s, t) /\ Spares(s, t, q)
        /\ t.resolver[q] = x
    BY <1>1, CalledBackSound
  <2>2. PICK v : v = Freed(t, q, x)
    OBVIOUS
  <2>3. /\ Sound(v, q, None) /\ v.resolver[q] = None
        /\ v.outcome = t.outcome /\ v.child_failed = t.child_failed
        /\ v.queued_requests = t.queued_requests
        /\ \A p \in Queries \ {q} : v.resolver[p] = t.resolver[p]
    BY <2>1, <2>2, FreeSound
  <2>4. u = Destroyed(v, {q})
    BY <1>1, <2>1, <2>2 DEF GivenBack, Freed
  <2>5. /\ Sound(u, q, None)
        /\ \A p \in Queries \ {q} : u.resolver[p] = v.resolver[p]
        /\ u.outcome = v.outcome /\ u.child_failed = v.child_failed
        /\ v.queued_requests = <<>> => u.queued_requests = <<>>
    <3> DEFINE Q == {q}
    <3>1. Q \in SUBSET Queries /\ q \in Q
      OBVIOUS
    <3>2. u = Destroyed(v, Q)
      BY <2>4
    <3> HIDE DEF Q
    <3>3. /\ Sound(u, q, None)
          /\ \A p \in Queries \ Q : u.resolver[p] = v.resolver[p]
          /\ u.outcome = v.outcome /\ u.child_failed = v.child_failed
          /\ v.queued_requests = <<>> => u.queued_requests = <<>>
      BY <2>3, <3>1, <3>2, DestroyedSound
    <3> QED BY <3>3 DEF Q
  <2>6. Sound(u, None, None)
    BY <2>5, NobodyOut
  <2> QED BY <2>1, <2>3, <2>5, <2>6 DEF Settles, Spares
<1>2. ASSUME NEW t \in CalledBack(s, q, "error"), u = Destroyed(t, {q})
      PROVE  Sound(u, None, None) /\ Settles(s, u) /\ Spares(s, u, q)
  <2>1. /\ Sound(t, q, x) /\ Settles(s, t) /\ Spares(s, t, q)
        /\ t.resolver[q] = x
    BY <1>2, CalledBackSound
  <2>2. /\ Sound(u, q, None)
        /\ \A p \in Queries \ {q} : u.resolver[p] = t.resolver[p]
        /\ u.outcome = t.outcome /\ u.child_failed = t.child_failed
        /\ t.queued_requests = <<>> => u.queued_requests = <<>>
    <3> DEFINE Q == {q}
    <3>1. Q \in SUBSET Queries /\ q \in Q
      OBVIOUS
    <3>2. u = Destroyed(t, Q)
      BY <1>2
    <3> HIDE DEF Q
    <3>3. /\ Sound(u, q, None)
          /\ \A p \in Queries \ Q : u.resolver[p] = t.resolver[p]
          /\ u.outcome = t.outcome /\ u.child_failed = t.child_failed
          /\ t.queued_requests = <<>> => u.queued_requests = <<>>
      BY <2>1, <3>1, <3>2, DestroyedSound
    <3> QED BY <3>3 DEF Q
  <2>3. Sound(u, None, None)
    BY <2>2, NobodyOut
  <2> QED BY <2>1, <2>2, <2>3 DEF Settles, Spares
<1> QED BY <1>1, <1>2 DEF Resolved, Failed

-----------------------------------------------------------------------------
(* Children are made, given work, and found gone.                          *)

\* The child c can be given work: it is x, made just now, or it is free.
Ready(s, c, x) == x = c \/ (x = None /\ c \in s.free_dns_children)

\* A query gets a free child, or one that was just made for it.
LEMMA GivenSound ==
    ASSUME NEW q \in Queries, NEW c \in Children, NEW x \in Children \cup {None},
           NEW s, Sound(s, q, x), s.outcome[q] = "asked",
           Ready(s, c, x),
           NEW u, u = Given(s, q, c)
    PROVE  /\ Sound(u, None, None)
           /\ u.outcome = s.outcome /\ u.resolver[q] = c
<1>1. /\ s \in State
      /\ s.resolver \in [Queries -> Children \cup {None}]
      /\ s.free_dns_children \in SUBSET Children
      /\ s.inpa \in [Children -> Queries \cup {None}]
      /\ s.child \in [Children -> Child]
  BY StateIs DEF Sound
<1> DEFINE re == [s.resolver EXCEPT ![q] = c]
           fr == s.free_dns_children \ {c}
           ip == [s.inpa EXCEPT ![c] = q]
           ch == [s.child EXCEPT ![c] = [s.child[c] EXCEPT !.job = q]]
<1>2. u = [s EXCEPT !.free_dns_children = fr, !.resolver = re, !.child = ch,
                    !.inpa = ip]
  BY <1>1 DEF Given, State
<1>3. s.child[c] \in Child /\ [s.child[c] EXCEPT !.job = q] \in Child
  BY <1>1 DEF Child
<1>4. /\ re \in [Queries -> Children \cup {None}] /\ fr \in SUBSET Children
      /\ ip \in [Children -> Queries \cup {None}]
      /\ ch \in [Children -> Child]
  BY <1>1, <1>3
<1>5. /\ re[q] = c /\ \A p \in Queries \ {q} : re[p] = s.resolver[p]
      /\ ip[c] = q /\ \A d \in Children \ {c} : ip[d] = s.inpa[d]
      /\ \A d \in Children \ {c} : ch[d] = s.child[d]
  BY <1>1
<1>6. ch[c].job = q /\ ch[c].life = s.child[c].life
  BY <1>1, <1>3 DEF Child
<1> HIDE DEF re, ip, ch
<1>7. /\ u.outcome = s.outcome /\ u.timeout = s.timeout /\ u.resolver = re
      /\ u.queued_requests = s.queued_requests
      /\ u.free_dns_children = fr
      /\ u.number_of_dns_children = s.number_of_dns_children
      /\ u.child_failed = s.child_failed /\ u.fork_failed = s.fork_failed
      /\ u.inpa = ip /\ u.child = ch
  BY <1>1, <1>2 DEF State
<1>8. u \in State
  <2> HIDE DEF fr
  <2> QED BY <1>1, <1>2, <1>4 DEF State
<1>9. AliveIn(u) = AliveIn(s)
  BY <1>5, <1>6, <1>7 DEF AliveIn
<1>10. Counted(u) /\ Distinct(u.queued_requests)
  BY <1>7, <1>9 DEF Sound, Counted
<1>11. /\ s.child[c].life # "none"
       /\ \A p \in Queries \ {q} : s.resolver[p] # c
  <2>1. CASE x = c
    <3>1. ChildOut(s, c) /\ \A p \in Queries \ {q} : QueryOK(s, p, c)
      BY <2>1 DEF Sound
    <3> QED BY <3>1, NoneAssumption DEF ChildOut, QueryOK
  <2>2. CASE x = None /\ c \in s.free_dns_children
    <3>1. ChildOK(s, c, q) /\ \A p \in Queries \ {q} : QueryOK(s, p, None)
      BY <2>2, NoneAssumption DEF Sound
    <3> QED BY <2>2, <3>1, NoneAssumption DEF ChildOK, QueryOK
  <2> QED BY <2>1, <2>2 DEF Ready
<1>12. ASSUME NEW p \in Queries PROVE QueryOK(u, p, None)
  <2>1. CASE p = q
    <3>1. ~s.timeout[q] /\ q \notin Listed(s.queued_requests)
      BY DEF Sound, QueryOut
    <3> QED BY <1>5, <1>6, <1>7, <1>11, <2>1, <3>1, NoneAssumption DEF QueryOK
  <2>2. CASE p # q
    <3>1. QueryOK(s, p, x)
      BY <2>2 DEF Sound
    <3>2. s.resolver[p] # None => s.resolver[p] \in Children \ {c}
      BY <1>1, <1>11, <2>2
    <3>3. u.resolver[p] = s.resolver[p] /\ u.timeout[p] = s.timeout[p]
      BY <1>5, <1>7, <2>2
    <3>4. /\ u.timeout[p] \/ p \in Listed(u.queued_requests) \/ u.resolver[p] # None
                => u.outcome[p] = "asked"
          /\ u.timeout[p] =>
                p \notin Listed(u.queued_requests) /\ u.resolver[p] = None
          /\ p \in Listed(u.queued_requests) => u.resolver[p] = None
      BY <1>7, <3>1, <3>3 DEF QueryOK
    <3>5. ASSUME u.resolver[p] # None
          PROVE  /\ u.resolver[p] \in Children \ (u.free_dns_children \cup {None})
                 /\ u.child[u.resolver[p]].life # "none"
                 /\ u.inpa[u.resolver[p]] = p
      BY <1>5, <1>7, <3>1, <3>2, <3>3, <3>5, NoneAssumption DEF QueryOK
    <3> QED BY <3>4, <3>5 DEF QueryOK
  <2> QED BY <2>1, <2>2
<1>13. ASSUME NEW d \in Children PROVE ChildOK(u, d, None)
  <2>1. CASE d = c
    BY <1>5, <1>6, <1>7, <1>11, <2>1, NoneAssumption DEF ChildOK
  <2>2. CASE d # c
    <3>1. ChildOK(s, d, q)
      BY <2>2, NoneAssumption DEF Sound, Ready
    <3>2. /\ u.inpa[d] = s.inpa[d] /\ u.child[d] = s.child[d]
          /\ d \in u.free_dns_children <=> d \in s.free_dns_children
      BY <1>5, <1>7, <2>2
    <3>3. ASSUME d \notin s.free_dns_children, s.child[d].life # "none"
          PROVE  /\ s.inpa[d] \in Queries \ {q}
                 /\ u.resolver[s.inpa[d]] = d
                 /\ s.child[d].job = s.inpa[d]
      BY <1>5, <1>7, <3>1, <3>3 DEF ChildOK
    <3> QED BY <3>1, <3>2, <3>3, NoneAssumption DEF ChildOK, Blank
  <2> QED BY <2>1, <2>2
<1>14. Sound(u, None, None)
  BY <1>8, <1>10, <1>12, <1>13, NoneAssumption DEF Sound
<1> QED BY <1>5, <1>7, <1>14

\* Child c is made.
Made(s, c) ==
    [s EXCEPT !.child[c].life = "running", !.number_of_dns_children = @ + 1]

\* A child is made for the query that is being dealt with.
LEMMA MadeSound ==
    ASSUME NEW q \in Queries, NEW c \in Children, NEW s, Sound(s, q, None),
           s.child[c].life = "none", NEW u, u = Made(s, c)
    PROVE  Sound(u, q, c) /\ u.outcome = s.outcome
<1>1. s \in State /\ s.child \in [Children -> Child]
      /\ s.number_of_dns_children \in Int
  BY StateIs DEF Sound
<1> DEFINE nu == s.number_of_dns_children + 1
           ch == [s.child EXCEPT ![c] = [s.child[c] EXCEPT !.life = "running"]]
<1>2. u = [s EXCEPT !.child = ch, !.number_of_dns_children = nu]
  BY <1>1 DEF Made, State
<1>3. s.child[c] \in Child /\ [s.child[c] EXCEPT !.life = "running"] \in Child
  BY <1>1 DEF Child
<1>4. ch \in [Children -> Child] /\ nu \in Int
  BY <1>1, <1>3
<1>5. \A d \in Children \ {c} : ch[d] = s.child[d]
  BY <1>1
<1>6. /\ ch[c].life = "running" /\ ch[c].job = s.child[c].job
      /\ ch[c].answer = s.child[c].answer
  BY <1>1, <1>3 DEF Child
<1> HIDE DEF ch
<1>7. /\ u.outcome = s.outcome /\ u.timeout = s.timeout
      /\ u.resolver = s.resolver
      /\ u.queued_requests = s.queued_requests
      /\ u.free_dns_children = s.free_dns_children
      /\ u.number_of_dns_children = nu
      /\ u.child_failed = s.child_failed /\ u.fork_failed = s.fork_failed
      /\ u.inpa = s.inpa /\ u.child = ch
  BY <1>1, <1>2 DEF State
<1>8. u \in State
  <2> HIDE DEF nu
  <2> QED BY <1>1, <1>2, <1>4 DEF State
<1>9. Counted(u)
  <2>1. AliveIn(u) = AliveIn(s) \cup {c} /\ c \notin AliveIn(s)
    BY <1>5, <1>6, <1>7 DEF AliveIn
  <2>2. IsFiniteSet(AliveIn(s))
    BY DEF Sound, Counted
  <2> DEFINE A == AliveIn(s)
  <2>3. IsFiniteSet(A) /\ c \notin A
    BY <2>1, <2>2
  <2> HIDE DEF A
  <2>4. IsFiniteSet(A \cup {c}) /\ Cardinality(A \cup {c}) = Cardinality(A) + 1
    BY <2>3, FS_AddElement
  <2>5. IsFiniteSet(AliveIn(u)) /\ Cardinality(AliveIn(u)) = Cardinality(A) + 1
    BY <2>1, <2>4 DEF A
  <2>6. s.fork_failed \/ s.number_of_dns_children = Cardinality(A)
    BY DEF A, Sound, Counted
  <2>7. s.fork_failed => s.child_failed
    BY DEF Sound, Counted
  <2> QED BY <1>7, <2>5, <2>6, <2>7 DEF Counted
<1>10. ChildOK(s, c, q)
  BY NoneAssumption DEF Sound
<1>11. ASSUME NEW p \in Queries \ {q} PROVE QueryOK(u, p, c)
  <2>1. QueryOK(s, p, None)
    BY DEF Sound
  <2>2. s.resolver[p] # c
    BY <2>1, NoneAssumption DEF QueryOK
  <2> QED BY <1>5, <1>7, <2>1, <2>2 DEF QueryOK
<1>12. ASSUME NEW d \in Children \ {c} PROVE ChildOK(u, d, q)
  <2>1. ChildOK(s, d, q)
    BY NoneAssumption DEF Sound
  <2> QED BY <1>5, <1>7, <2>1 DEF ChildOK, Blank
<1>13. QueryOut(u, q, c)
  BY <1>7 DEF Sound, QueryOut
<1>14. ChildOut(u, c)
  BY <1>6, <1>7, <1>10 DEF ChildOK, ChildOut, Blank
<1>15. Distinct(u.queued_requests)
  BY <1>7 DEF Sound
<1> QED BY <1>7, <1>8, <1>9, <1>11, <1>12, <1>13, <1>14, <1>15 DEF Sound

\* The free children in C are killed.
Left(s, C) == [ResolversDestroyed(s, C) EXCEPT !.free_dns_children = @ \ C]

\* Free children are found gone.
LEMMA LeftSound ==
    ASSUME NEW q \in Queries, NEW s, Sound(s, q, None),
           NEW C \in SUBSET s.free_dns_children, NEW u, u = Left(s, C)
    PROVE  /\ Sound(u, q, None)
           /\ u.outcome = s.outcome
           /\ u.free_dns_children = s.free_dns_children \ C
<1>1. /\ s \in State /\ s.free_dns_children \in SUBSET Children
      /\ s.child \in [Children -> Child]
      /\ s.inpa \in [Children -> Queries \cup {None}]
      /\ s.number_of_dns_children \in Int
  BY StateIs DEF Sound
<1>2. \A c \in Children : ChildOK(s, c, q)
  BY NoneAssumption DEF Sound
<1>3. C \in SUBSET AliveIn(s)
  BY <1>1, <1>2 DEF ChildOK, AliveIn
<1>4. Counted(s) /\ Cardinality(C) \in Int
  <2>1. Counted(s)
    BY DEF Sound
  <2> QED BY <1>3, <2>1, FS_Subset, FS_CardinalityType DEF Counted
<1> DEFINE nu == s.number_of_dns_children - Cardinality(C)
           fr == s.free_dns_children \ C
           ip == [c \in Children |-> IF c \in C THEN None ELSE s.inpa[c]]
           ch == [c \in Children |-> IF c \in C THEN NoProcess ELSE s.child[c]]
<1>5. u = [s EXCEPT !.inpa = ip, !.child = ch, !.number_of_dns_children = nu,
                    !.free_dns_children = fr]
  <2> HIDE DEF nu
  <2> QED BY <1>1 DEF Left, ResolversDestroyed, State, nu
<1>6. ch \in [Children -> Child]
  BY <1>1 DEF NoProcess, Child
<1>7. ip \in [Children -> Queries \cup {None}] /\ fr \in SUBSET Children
      /\ nu \in Int
  BY <1>1, <1>4
<1>8. \A c \in Children : /\ c \in C => ip[c] = None /\ ch[c] = NoProcess
                          /\ c \notin C => ip[c] = s.inpa[c] /\ ch[c] = s.child[c]
  OBVIOUS
<1> HIDE DEF ip, ch, nu
<1>9. /\ u.outcome = s.outcome /\ u.timeout = s.timeout
      /\ u.resolver = s.resolver
      /\ u.queued_requests = s.queued_requests
      /\ u.free_dns_children = fr
      /\ u.number_of_dns_children = nu
      /\ u.child_failed = s.child_failed /\ u.fork_failed = s.fork_failed
      /\ u.inpa = ip /\ u.child = ch
  BY <1>1, <1>5 DEF State
<1>10. u \in State
  <2> HIDE DEF fr
  <2> QED BY <1>1, <1>5, <1>6, <1>7 DEF State
<1>11. AliveIn(u) = AliveIn(s) \ C
  BY <1>8, <1>9 DEF AliveIn, NoProcess
<1>12. Counted(u)
  BY <1>1, <1>3, <1>4, <1>9, <1>11, CountedLess DEF nu
<1>13. ASSUME NEW p \in Queries \ {q} PROVE QueryOK(u, p, None)
  <2>1. QueryOK(s, p, None)
    BY DEF Sound
  <2> QED BY <1>8, <1>9, <2>1 DEF QueryOK
<1>14. ASSUME NEW c \in Children PROVE ChildOK(u, c, q)
  <2>1. CASE c \in C
    BY <1>8, <1>9, <2>1 DEF ChildOK, Blank, NoProcess
  <2>2. CASE c \notin C
    BY <1>2, <1>8, <1>9, <2>2 DEF ChildOK, Blank
  <2> QED BY <2>1, <2>2
<1>15. QueryOut(u, q, None)
  BY <1>9 DEF Sound, QueryOut
<1>16. Distinct(u.queued_requests)
  BY <1>9 DEF Sound
<1> QED BY <1>9, <1>10, <1>12, <1>13, <1>14, <1>15, <1>16, NoneAssumption DEF Sound

-----------------------------------------------------------------------------
(* The queue of requests.                                                  *)

\* The list w is l with q at either end.
Ended(w, l, q) == w = Append(l, q) \/ w = <<q>> \o l

\* A query put at either end of a list it is not in.
LEMMA EndsIs ==
    ASSUME NEW l \in Seq(Queries), Distinct(l), NEW q \in Queries,
           q \notin Listed(l), NEW w, Ended(w, l, q)
    PROVE  /\ w \in Seq(Queries) /\ w # <<>>
           /\ Distinct(w) /\ Listed(w) = Listed(l) \cup {q}
<1>1. CASE w = Append(l, q)
  <2>1. /\ w \in Seq(Queries) /\ Len(w) = Len(l) + 1 /\ w[Len(l) + 1] = q
        /\ \A i \in 1..Len(l) : w[i] = l[i]
    BY <1>1
  <2>2. \A i \in 1..Len(w) : i \in 1..Len(l) \/ i = Len(l) + 1
    BY <2>1
  <2>3. \A i \in 1..Len(l) : i \in 1..Len(w)
    BY <2>1
  <2>4. Len(l) + 1 \in 1..Len(w)
    BY <2>1
  <2>5. Listed(w) = Listed(l) \cup {q}
    BY <2>1, <2>2, <2>3, <2>4 DEF Listed
  <2>6. \A i \in 1..Len(l) : l[i] # q
    BY DEF Listed
  <2>7. Distinct(w)
    BY <2>1, <2>2, <2>6 DEF Distinct
  <2> QED BY <2>1, <2>5, <2>7
<1>2. CASE w = <<q>> \o l
  <2>1. /\ w \in Seq(Queries) /\ Len(w) = Len(l) + 1 /\ w[1] = q
        /\ \A i \in 1..Len(l) : w[i + 1] = l[i]
    BY <1>2
  <2>2. \A i \in 1..Len(w) : i = 1 \/ i - 1 \in 1..Len(l)
    BY <2>1
  <2>3. \A i \in 1..Len(l) : i + 1 \in 1..Len(w)
    BY <2>1
  <2>4. 1 \in 1..Len(w)
    BY <2>1
  <2>5. \A i \in 1..Len(w) : i # 1 => w[i] = l[i - 1]
    BY <2>1, <2>2
  <2>6. Listed(w) = Listed(l) \cup {q}
    <3>1. ASSUME NEW i \in 1..Len(w) PROVE w[i] \in Listed(l) \cup {q}
      BY <2>1, <2>2, <2>5 DEF Listed
    <3>2. q \in Listed(w)
      BY <2>1, <2>4 DEF Listed
    <3>3. ASSUME NEW i \in 1..Len(l) PROVE l[i] \in Listed(w)
      <4>1. i + 1 \in 1..Len(w) /\ w[i + 1] = l[i]
        BY <2>1, <2>3
      <4> QED BY <4>1 DEF Listed
    <3>4. Listed(w) \subseteq Listed(l) \cup {q}
      BY <3>1 DEF Listed
    <3>5. Listed(l) \subseteq Listed(w)
      BY <3>3 DEF Listed
    <3> QED BY <3>2, <3>4, <3>5
  <2>7. \A i \in 1..Len(l) : l[i] # q
    BY DEF Listed
  <2>8. Distinct(w)
    <3> SUFFICES ASSUME NEW i \in 1..Len(w), NEW j \in 1..Len(w), w[i] = w[j]
                 PROVE  i = j
      BY DEF Distinct
    <3>1. CASE i = 1 \/ j = 1
      BY <2>1, <2>2, <2>5, <2>7, <3>1
    <3>2. CASE i # 1 /\ j # 1
      <4>1. i - 1 \in 1..Len(l) /\ j - 1 \in 1..Len(l) /\ l[i - 1] = l[j - 1]
        BY <2>2, <2>5, <3>2
      <4>2. i - 1 = j - 1
        BY <4>1 DEF Distinct
      <4> QED BY <4>2
    <3> QED BY <3>1, <3>2
  <2> QED BY <2>1, <2>6, <2>8
<1> QED BY <1>1, <1>2 DEF Ended

\* The first query of a list is not in the rest of it.
LEMMA TailIs ==
    ASSUME NEW l \in Seq(Queries), Distinct(l), l # <<>>, NEW w, w = Tail(l)
    PROVE  /\ w \in Seq(Queries) /\ Distinct(w)
           /\ Head(l) \in Queries /\ Head(l) \in Listed(l)
           /\ Listed(w) \subseteq Listed(l) \ {Head(l)}
<1>1. /\ w \in Seq(Queries) /\ Len(w) = Len(l) - 1 /\ Head(l) = l[1]
      /\ \A i \in 1..Len(w) : w[i] = l[i + 1]
      /\ Len(l) \in Nat /\ Len(l) # 0
  OBVIOUS
<1>2. 1 \in 1..Len(l) /\ l[1] \in Queries
  BY <1>1
<1>3. \A i \in 1..Len(w) : i + 1 \in 1..Len(l) /\ i + 1 # 1
  BY <1>1
<1>4. Distinct(w)
  <2> SUFFICES ASSUME NEW i \in 1..Len(w), NEW j \in 1..Len(w), w[i] = w[j]
               PROVE  i = j
    BY DEF Distinct
  <2>1. i + 1 \in 1..Len(l) /\ j + 1 \in 1..Len(l) /\ l[i + 1] = l[j + 1]
    BY <1>1, <1>3
  <2>2. i + 1 = j + 1
    BY <2>1 DEF Distinct
  <2> QED BY <2>2
<1>5. Listed(w) \subseteq Listed(l) \ {Head(l)}
  <2>1. ASSUME NEW i \in 1..Len(w) PROVE w[i] \in Listed(l) \ {l[1]}
    <3>1. i + 1 \in 1..Len(l) /\ i + 1 # 1 /\ w[i] = l[i + 1]
      BY <1>1, <1>3
    <3> QED BY <1>2, <3>1 DEF Distinct, Listed
  <2>2. Listed(w) \subseteq Listed(l) \ {l[1]}
    BY <2>1 DEF Listed
  <2> QED BY <1>1, <2>2
<1> QED BY <1>1, <1>2, <1>4, <1>5 DEF Listed

\* The queue is l from now on.
Queued(s, l) == [s EXCEPT !.queued_requests = l]

\* A query that was dealt with is put in the queue.
LEMMA QueuedSound ==
    ASSUME NEW q \in Queries, NEW s, Sound(s, q, None), s.outcome[q] = "asked",
           NEW l, Ended(l, s.queued_requests, q),
           NEW u, u = Queued(s, l)
    PROVE  /\ Sound(u, None, None) /\ u.queued_requests = l /\ l # <<>>
           /\ u.outcome = s.outcome /\ u.resolver = s.resolver
           /\ u.child_failed = s.child_failed
<1>1. s \in State /\ s.queued_requests \in Seq(Queries)
  BY StateIs DEF Sound
<1>2. /\ Distinct(s.queued_requests) /\ QueryOut(s, q, None)
      /\ \A p \in Queries \ {q} : QueryOK(s, p, None)
      /\ \A c \in Children : ChildOK(s, c, q)
  BY NoneAssumption DEF Sound
<1>3. /\ l \in Seq(Queries) /\ l # <<>>
      /\ Distinct(l) /\ Listed(l) = Listed(s.queued_requests) \cup {q}
  BY <1>1, <1>2, EndsIs DEF QueryOut
<1>4. /\ u.outcome = s.outcome /\ u.timeout = s.timeout
      /\ u.resolver = s.resolver
      /\ u.queued_requests = l
      /\ u.free_dns_children = s.free_dns_children
      /\ u.number_of_dns_children = s.number_of_dns_children
      /\ u.child_failed = s.child_failed /\ u.fork_failed = s.fork_failed
      /\ u.inpa = s.inpa /\ u.child = s.child
  BY <1>1 DEF Queued, State
<1>5. u \in State
  BY <1>1, <1>3 DEF Queued, State
<1>6. Counted(u)
  BY <1>4 DEF Sound, Counted, AliveIn
<1>7. ASSUME NEW p \in Queries PROVE QueryOK(u, p, None)
  <2>1. CASE p = q
    BY <1>2, <1>3, <1>4, <2>1 DEF QueryOK, QueryOut
  <2>2. CASE p # q
    <3>1. QueryOK(s, p, None)
      BY <1>2, <2>2
    <3>2. p \in Listed(u.queued_requests) <=> p \in Listed(s.queued_requests)
      BY <1>3, <1>4, <2>2
    <3> QED BY <1>4, <3>1, <3>2 DEF QueryOK
  <2> QED BY <2>1, <2>2
<1>8. ASSUME NEW c \in Children PROVE ChildOK(u, c, None)
  <2>1. ChildOK(s, c, q)
    BY <1>2
  <2> QED BY <1>4, <2>1, NoneAssumption DEF ChildOK, Blank
<1>9. Sound(u, None, None)
  BY <1>3, <1>4, <1>5, <1>6, <1>7, <1>8, NoneAssumption DEF Sound
<1> QED BY <1>3, <1>4, <1>9

\* The first query is taken from the queue.
LEMMA TakenSound ==
    ASSUME NEW s, Sound(s, None, None), s.queued_requests # <<>>,
           NEW q, q = Head(s.queued_requests),
           NEW u, u = Queued(s, Tail(s.queued_requests))
    PROVE  /\ q \in Queries /\ Sound(u, q, None)
           /\ u.outcome = s.outcome /\ s.outcome[q] = "asked"
<1> DEFINE l == Tail(s.queued_requests)
<1>1. s \in State /\ s.queued_requests \in Seq(Queries)
  BY StateIs DEF Sound
<1>2. /\ Distinct(s.queued_requests)
      /\ \A p \in Queries : QueryOK(s, p, None)
      /\ \A c \in Children : ChildOK(s, c, None)
  BY NoneAssumption DEF Sound
<1>3. /\ l \in Seq(Queries) /\ Distinct(l)
      /\ q \in Queries /\ q \in Listed(s.queued_requests)
      /\ Listed(l) \subseteq Listed(s.queued_requests) \ {q}
  BY <1>1, <1>2, TailIs
<1> HIDE DEF l
<1>4. /\ u.outcome = s.outcome /\ u.timeout = s.timeout
      /\ u.resolver = s.resolver
      /\ u.queued_requests = l
      /\ u.free_dns_children = s.free_dns_children
      /\ u.number_of_dns_children = s.number_of_dns_children
      /\ u.child_failed = s.child_failed /\ u.fork_failed = s.fork_failed
      /\ u.inpa = s.inpa /\ u.child = s.child
  BY <1>1 DEF Queued, State, l
<1>5. u \in State
  BY <1>1, <1>3 DEF Queued, State, l
<1>6. Counted(u)
  BY <1>4 DEF Sound, Counted, AliveIn
<1>7. ~s.timeout[q] /\ s.resolver[q] = None /\ s.outcome[q] = "asked"
  BY <1>2, <1>3 DEF QueryOK
<1>8. ASSUME NEW p \in Queries \ {q} PROVE QueryOK(u, p, None)
  <2>1. QueryOK(s, p, None)
    BY <1>2
  <2> QED BY <1>3, <1>4, <2>1 DEF QueryOK
<1>9. ASSUME NEW c \in Children PROVE ChildOK(u, c, q)
  <2>1. ChildOK(s, c, None)
    BY <1>2
  <2>2. s.resolver[q] # c
    BY <1>7, NoneAssumption
  <2> QED BY <1>4, <2>1, <2>2 DEF ChildOK, Blank
<1>10. QueryOut(u, q, None)
  BY <1>3, <1>4, <1>7 DEF QueryOut
<1>11. Sound(u, q, None)
  BY <1>3, <1>4, <1>5, <1>6, <1>8, <1>9, <1>10, NoneAssumption DEF Sound
<1> QED BY <1>3, <1>4, <1>7, <1>11

\* No child could be made; a fork that fails lowers the count as well.
NotMade(s)   == [s EXCEPT !.child_failed = TRUE]
NotForked(s) == [s EXCEPT !.child_failed = TRUE, !.fork_failed = TRUE,
                          !.number_of_dns_children = @ - 1]

\* What remains true when a child could not be made.
LEMMA NotMadeSound ==
    ASSUME NEW q \in Queries, NEW s, Sound(s, q, None),
           NEW u, u = NotMade(s) \/ u = NotForked(s)
    PROVE  /\ Sound(u, q, None) /\ u.child_failed
           /\ u.outcome = s.outcome /\ u.resolver = s.resolver
<1>1. s \in State /\ s.number_of_dns_children \in Int
  BY StateIs DEF Sound
<1> DEFINE nu == s.number_of_dns_children - 1
<1>2. nu \in Int
  BY <1>1
<1>3. u \in State
  <2> HIDE DEF nu
  <2> QED BY <1>1, <1>2 DEF NotMade, NotForked, State, nu
<1>4. /\ u.outcome = s.outcome /\ u.timeout = s.timeout
      /\ u.resolver = s.resolver
      /\ u.queued_requests = s.queued_requests
      /\ u.free_dns_children = s.free_dns_children
      /\ u.child_failed
      /\ u.fork_failed \/ /\ u.fork_failed = s.fork_failed
                          /\ u.number_of_dns_children = s.number_of_dns_children
      /\ u.inpa = s.inpa /\ u.child = s.child
  BY <1>1 DEF NotMade, NotForked, State
<1>5. Counted(u)
  <2>1. AliveIn(u) = AliveIn(s)
    BY <1>4 DEF AliveIn
  <2>2. IsFiniteSet(AliveIn(s))
    BY DEF Sound, Counted
  <2>3. s.fork_failed \/ s.number_of_dns_children = Cardinality(AliveIn(s))
    BY DEF Sound, Counted
  <2>4. u.fork_failed \/ u.number_of_dns_children = Cardinality(AliveIn(u))
    <3>1. CASE u.fork_failed
      BY <3>1
    <3>2. CASE /\ u.fork_failed = s.fork_failed
               /\ u.number_of_dns_children = s.number_of_dns_children
      BY <2>1, <2>3, <3>2
    <3> QED BY <1>4, <3>1, <3>2
  <2> QED BY <1>4, <2>1, <2>2, <2>4 DEF Counted
<1>6. ASSUME NEW p \in Queries \ {q} PROVE QueryOK(u, p, None)
  <2>1. QueryOK(s, p, None)
    BY DEF Sound
  <2> QED BY <1>4, <2>1 DEF QueryOK
<1>7. ASSUME NEW c \in Children PROVE ChildOK(u, c, q)
  <2>1. ChildOK(s, c, q)
    BY NoneAssumption DEF Sound
  <2> QED BY <1>4, <2>1 DEF ChildOK, Blank
<1>8. QueryOut(u, q, None) /\ Distinct(u.queued_requests)
  BY <1>4 DEF Sound, QueryOut
<1> QED BY <1>3, <1>4, <1>5, <1>6, <1>7, <1>8, NoneAssumption DEF Sound

\* The query waits on, or gets a child of its own, or fails.
LEMMA NewResolverSound ==
    ASSUME NEW q \in Queries, NEW s, Sound(s, q, None), s.outcome[q] = "asked",
           s.free_dns_children = {}, NEW u \in NewResolver(s, q)
    PROVE  Sound(u, None, None) /\ Fed(u) /\ Settles(s, u)
<1>1. CASE /\ s.number_of_dns_children >= MaxChildren
           /\ u = Queued(s, <<q>> \o s.queued_requests)
  <2>1. /\ Sound(u, None, None)
        /\ u.outcome = s.outcome /\ u.resolver = s.resolver
        /\ u.child_failed = s.child_failed
    <3> DEFINE l == <<q>> \o s.queued_requests
    <3>1. u = Queued(s, l) /\ Ended(l, s.queued_requests, q)
      BY <1>1 DEF Ended
    <3> HIDE DEF l
    <3> QED BY <3>1, QueuedSound
  <2>2. CASE s.fork_failed
    BY <2>1, <2>2 DEF Fed, Settles, Sound, Counted
  <2>3. CASE ~s.fork_failed
    <3>1. /\ IsFiniteSet(AliveIn(s))
          /\ s.number_of_dns_children = Cardinality(AliveIn(s))
      BY <2>3 DEF Sound, Counted
    <3>2. Cardinality(AliveIn(s)) >= MaxChildren
      BY <1>1, <3>1
    <3>3. AliveIn(s) # {}
      BY <3>2, FS_EmptySet, MaxChildrenAssumption
    <3>4. PICK c \in Children : s.child[c].life # "none"
      BY <3>3 DEF AliveIn
    <3>5. ChildOK(s, c, q)
      BY NoneAssumption DEF Sound
    <3>6. s.inpa[c] \in Queries /\ s.resolver[s.inpa[c]] = c
      BY <3>4, <3>5 DEF ChildOK
    <3>7. u.resolver[s.inpa[c]] # None
      BY <2>1, <3>6, NoneAssumption
    <3> QED BY <2>1, <3>6, <3>7 DEF Fed, Settles
  <2> QED BY <2>2, <2>3
<1>2. ASSUME NEW c \in Children, s.child[c].life = "none",
             u = Given(Made(s, c), q, c)
      PROVE  Sound(u, None, None) /\ Fed(u) /\ Settles(s, u)
  <2>1. PICK t : t = Made(s, c)
    OBVIOUS
  <2>2. Sound(t, q, c) /\ t.outcome = s.outcome
    BY <1>2, <2>1, MadeSound
  <2>3. Sound(u, None, None) /\ u.outcome = t.outcome /\ u.resolver[q] = c
    <3>1. c \in Children \cup {None} /\ t.outcome[q] = "asked"
      BY <2>2
    <3>2. u = Given(t, q, c)
      BY <1>2, <2>1
    <3>3. Ready(t, c, c)
      BY DEF Ready
    <3> QED BY <2>2, <3>1, <3>2, <3>3, GivenSound
  <2> QED BY <2>2, <2>3, NoneAssumption DEF Fed, Settles
<1>3. ASSUME NEW t, t = NotMade(s) \/ t = NotForked(s), u \in Failed(t, q)
      PROVE  Sound(u, None, None) /\ Fed(u) /\ Settles(s, u)
  <2>1. /\ Sound(t, q, None) /\ t.child_failed
        /\ t.outcome = s.outcome /\ t.resolver = s.resolver
    BY <1>3, NotMadeSound
  <2>2. t.resolver[q] = None
    BY <2>1 DEF Sound, QueryOut
  <2>3. Sound(u, None, None) /\ Settles(t, u) /\ Spares(t, u, q)
    BY <1>3, <2>1, <2>2, ClosedSound
  <2> QED BY <2>1, <2>3 DEF Fed, Settles, Spares
<1>4. \/ /\ s.number_of_dns_children >= MaxChildren
         /\ u = Queued(s, <<q>> \o s.queued_requests)
      \/ \E c \in Children : s.child[c].life = "none" /\ u = Given(Made(s, c), q, c)
      \/ u \in Failed(NotMade(s), q) \cup Failed(NotForked(s), q)
  BY DEF NewResolver, Queued, Made, NotMade, NotForked
<1> QED BY <1>1, <1>2, <1>3, <1>4

\* What handling the queue leaves: whoever is still in it waits for a child.
LEMMA NextHandledSound ==
    ASSUME NEW s, Sound(s, None, None), NEW u \in NextHandled(s)
    PROVE  Sound(u, None, None) /\ Fed(u) /\ Settles(s, u)
<1>1. CASE s.queued_requests = <<>>
  BY <1>1 DEF NextHandled, Fed, Settles
<1>2. CASE s.queued_requests # <<>>
  <2> DEFINE q == Head(s.queued_requests)
             t == Queued(s, Tail(s.queued_requests))
  <2>1. /\ q \in Queries /\ Sound(t, q, None)
        /\ t.outcome = s.outcome /\ s.outcome[q] = "asked"
    BY <1>2, TakenSound
  <2>2. \/ \E C \in SUBSET MayRefuse(t), c \in MayAccept(t) :
              c \notin C /\ u = Given(Left(t, C), q, c)
        \/ u \in NewResolver(Left(t, t.free_dns_children), q)
    BY <1>2 DEF NextHandled, Queued, Left
  <2> HIDE DEF q, t
  <2>3. ASSUME NEW C \in SUBSET MayRefuse(t), NEW c \in MayAccept(t),
               c \notin C, u = Given(Left(t, C), q, c)
        PROVE  Sound(u, None, None) /\ Fed(u) /\ Settles(s, u)
    <3>1. PICK v : v = Left(t, C)
      OBVIOUS
    <3>2. C \in SUBSET t.free_dns_children
      BY DEF MayRefuse
    <3>3. /\ Sound(v, q, None) /\ v.outcome = t.outcome
          /\ v.free_dns_children = t.free_dns_children \ C
      BY <2>1, <3>1, <3>2, LeftSound
    <3>4. c \in v.free_dns_children
      BY <2>3, <3>3 DEF MayAccept
    <3>5. c \in Children
      BY <3>3, <3>4, StateIs DEF Sound
    <3>6. Ready(v, c, None)
      BY <3>4 DEF Ready
    <3>7. Sound(u, None, None) /\ u.outcome = v.outcome /\ u.resolver[q] = c
      BY <2>1, <2>3, <3>1, <3>3, <3>5, <3>6, GivenSound
    <3> QED BY <2>1, <3>3, <3>5, <3>7, NoneAssumption DEF Fed, Settles
  <2>4. ASSUME u \in NewResolver(Left(t, t.free_dns_children), q)
        PROVE  Sound(u, None, None) /\ Fed(u) /\ Settles(s, u)
    <3>1. PICK v : v = Left(t, t.free_dns_children)
      OBVIOUS
    <3>2. /\ Sound(v, q, None) /\ v.outcome = t.outcome
          /\ v.free_dns_children = {}
      BY <2>1, <3>1, LeftSound
    <3>3. Sound(u, None, None) /\ Fed(u) /\ Settles(v, u)
      BY <2>1, <2>4, <3>1, <3>2, NewResolverSound
    <3> QED BY <2>1, <3>2, <3>3 DEF Settles
  <2> QED BY <2>2, <2>3, <2>4
<1> QED BY <1>1, <1>2

-----------------------------------------------------------------------------
(* The events.  Each leaves the state sound, the queue served, and what    *)
(* the callers see in accordance with Lookup.                              *)

\* What an event may do to the outcomes.
Looks(s, u) == Settles(s, u) \/ \E q \in Queries :
    /\ s.outcome[q] = "unasked"
    /\ u.outcome = [s.outcome EXCEPT ![q] = "asked"]

\* What an event that leaves s in u has to establish.
Orderly(s, u) == Sound(u, None, None) /\ Fed(u) /\ Looks(s, u)

\* A query is asked.
LEMMA AskKeeps ==
    ASSUME IInv, NEW q \in Queries, Ask(q) PROVE Orderly(dns, dns')
<1> USE DEF IInv
<1> DEFINE u == [dns EXCEPT !.outcome[q] = "asked", !.timeout[q] = TRUE]
<1>1. /\ dns \in State
      /\ dns.outcome \in [Queries -> Outcomes]
      /\ dns.timeout \in [Queries -> BOOLEAN]
  BY StateIs DEF Sound
<1>2. dns.outcome[q] = "unasked" /\ dns' = u
  BY DEF Ask
<1> DEFINE oc == [dns.outcome EXCEPT ![q] = "asked"]
           ti == [dns.timeout EXCEPT ![q] = TRUE]
<1>3. u = [dns EXCEPT !.outcome = oc, !.timeout = ti]
  BY <1>1 DEF State
<1>4. oc \in [Queries -> Outcomes] /\ ti \in [Queries -> BOOLEAN]
  BY <1>1 DEF Outcomes
<1>5. \A p \in Queries \ {q} : oc[p] = dns.outcome[p] /\ ti[p] = dns.timeout[p]
  BY <1>1
<1>6. oc[q] = "asked"
  BY <1>1
<1> HIDE DEF ti, oc
<1>7. /\ u.outcome = oc /\ u.timeout = ti
      /\ u.resolver = dns.resolver
      /\ u.queued_requests = dns.queued_requests
      /\ u.free_dns_children = dns.free_dns_children
      /\ u.number_of_dns_children = dns.number_of_dns_children
      /\ u.child_failed = dns.child_failed /\ u.fork_failed = dns.fork_failed
      /\ u.inpa = dns.inpa /\ u.child = dns.child
  BY <1>1, <1>3 DEF State
<1>8. u \in State
  BY <1>1, <1>3, <1>4 DEF State, Outcomes
<1> HIDE DEF u
<1>9. Counted(u) /\ Distinct(u.queued_requests)
  BY <1>7 DEF Sound, Counted, AliveIn
<1>10. ASSUME NEW p \in Queries PROVE QueryOK(u, p, None)
  <2>1. QueryOK(dns, p, None)
    BY NoneAssumption DEF Sound
  <2>2. CASE p = q
    <3>1. q \notin Listed(dns.queued_requests) /\ dns.resolver[q] = None
      BY <1>2, <2>1, <2>2 DEF QueryOK
    <3> QED BY <1>6, <1>7, <2>2, <3>1 DEF QueryOK
  <2>3. CASE p # q
    BY <1>5, <1>7, <2>1, <2>3 DEF QueryOK
  <2> QED BY <2>2, <2>3
<1>11. ASSUME NEW c \in Children PROVE ChildOK(u, c, None)
  <2>1. ChildOK(dns, c, None)
    BY NoneAssumption DEF Sound
  <2> QED BY <1>7, <2>1 DEF ChildOK, Blank
<1>12. Sound(u, None, None)
  BY <1>8, <1>9, <1>10, <1>11, NoneAssumption DEF Sound
<1>13. Fed(u)
  <2>1. ASSUME NEW p \in Queries, dns.outcome[p] = "cancelled"
        PROVE  u.outcome[p] = "cancelled"
    BY <1>2, <1>5, <1>7, <2>1
  <2> QED BY <1>7, <2>1 DEF Fed
<1>14. Looks(dns, u)
  BY <1>2, <1>7 DEF Looks, oc
<1> QED BY <1>2, <1>12, <1>13, <1>14 DEF Orderly

\* The timer of a query has fired.
Fired(s, q) == [s EXCEPT !.timeout[q] = FALSE]

\* The timer is gone before the query is looked at.
LEMMA FiredSound ==
    ASSUME NEW q \in Queries, NEW s, Sound(s, None, None), s.timeout[q],
           NEW u, u = Fired(s, q)
    PROVE  /\ Sound(u, q, None) /\ u.outcome = s.outcome
           /\ u.outcome[q] = "asked" /\ u.resolver[q] = None
           /\ u.resolver = s.resolver /\ u.child_failed = s.child_failed
           /\ u.queued_requests = s.queued_requests
<1>1. s \in State /\ s.timeout \in [Queries -> BOOLEAN]
  BY StateIs DEF Sound
<1> DEFINE ti == [s.timeout EXCEPT ![q] = FALSE]
<1>2. ti \in [Queries -> BOOLEAN] /\ ~ti[q]
  BY <1>1
<1>3. \A p \in Queries \ {q} : ti[p] = s.timeout[p]
  BY <1>1
<1>4. u = [s EXCEPT !.timeout = ti]
  BY <1>1 DEF Fired, State
<1> HIDE DEF ti
<1>5. /\ u.outcome = s.outcome /\ u.timeout = ti /\ u.resolver = s.resolver
      /\ u.queued_requests = s.queued_requests
      /\ u.free_dns_children = s.free_dns_children
      /\ u.number_of_dns_children = s.number_of_dns_children
      /\ u.child_failed = s.child_failed /\ u.fork_failed = s.fork_failed
      /\ u.inpa = s.inpa /\ u.child = s.child
  BY <1>1, <1>4 DEF State
<1>6. u \in State
  BY <1>1, <1>2, <1>4 DEF State
<1>7. Counted(u) /\ Distinct(u.queued_requests)
  BY <1>5 DEF Sound, Counted, AliveIn
<1>8. /\ s.outcome[q] = "asked" /\ s.resolver[q] = None
      /\ q \notin Listed(s.queued_requests)
  BY NoneAssumption DEF Sound, QueryOK
<1>9. ASSUME NEW p \in Queries \ {q} PROVE QueryOK(u, p, None)
  <2>1. QueryOK(s, p, None)
    BY NoneAssumption DEF Sound
  <2> QED BY <1>3, <1>5, <2>1 DEF QueryOK
<1>10. ASSUME NEW c \in Children PROVE ChildOK(u, c, q)
  <2>1. ChildOK(s, c, None)
    BY NoneAssumption DEF Sound
  <2>2. s.resolver[q] # c
    BY <1>8, NoneAssumption
  <2> QED BY <1>5, <2>1, <2>2 DEF ChildOK, Blank
<1>11. QueryOut(u, q, None)
  BY <1>2, <1>5, <1>8 DEF QueryOut
<1>12. Sound(u, q, None)
  BY <1>6, <1>7, <1>9, <1>10, <1>11, NoneAssumption DEF Sound
<1> QED BY <1>5, <1>8, <1>12

\* A query is resolved at last, or joins the queue.
LEMMA InitiateResolvingKeeps ==
    ASSUME IInv, NEW q \in Queries, InitiateResolving(q)
    PROVE  Orderly(dns, dns')
<1> DEFINE s == Fired(dns, q)
<1>1. dns.timeout[q] /\ Sound(dns, None, None) /\ Fed(dns)
  BY DEF IInv, InitiateResolving
<1>2. /\ Sound(s, q, None) /\ s.outcome = dns.outcome
      /\ s.outcome[q] = "asked" /\ s.resolver[q] = None
      /\ s.resolver = dns.resolver /\ s.child_failed = dns.child_failed
      /\ s.queued_requests = dns.queued_requests
  <2> HIDE DEF s
  <2>1. s = Fired(dns, q)
    BY DEF s
  <2> QED BY <1>1, <2>1, FiredSound
<1>3. \/ dns' \in Resolved(s, q) \cup Failed(s, q)
      \/ dns' \in NextHandled(Queued(s, Append(s.queued_requests, q)))
  BY DEF InitiateResolving, Fired, Queued
<1> HIDE DEF s
<1>4. CASE dns' \in Resolved(s, q) \cup Failed(s, q)
  <2>1. Sound(dns', None, None) /\ Settles(s, dns') /\ Spares(s, dns', q)
    BY <1>2, <1>4, ClosedSound
  <2>2. Settles(dns, dns')
    BY <1>2, <2>1 DEF Settles
  <2>3. Fed(dns')
    <3>1. CASE dns.child_failed \/ dns.queued_requests = <<>>
      BY <1>2, <2>1, <3>1 DEF Fed, Spares
    <3>2. ASSUME NEW p \in Queries, dns.outcome[p] = "cancelled"
          PROVE  Fed(dns')
      <4>1. dns'.outcome[p] = "cancelled"
        BY <2>2, <3>2 DEF Settles
      <4> QED BY <4>1 DEF Fed
    <3>3. ASSUME NEW p \in Queries, dns.resolver[p] # None PROVE Fed(dns')
      BY <1>2, <2>1, <3>3 DEF Fed, Spares
    <3> QED BY <1>1, <3>1, <3>2, <3>3 DEF Fed
  <2> QED BY <2>1, <2>2, <2>3 DEF Orderly, Looks
<1>5. CASE dns' \in NextHandled(Queued(s, Append(s.queued_requests, q)))
  <2> DEFINE l == Append(s.queued_requests, q)
             t == Queued(s, l)
  <2>1. Ended(l, s.queued_requests, q)
    BY DEF Ended
  <2> HIDE DEF l
  <2>2. Sound(t, None, None) /\ t.outcome = s.outcome
    BY <1>2, <2>1, QueuedSound
  <2>3. dns' \in NextHandled(t)
    BY <1>5 DEF l
  <2> HIDE DEF t
  <2>4. Sound(dns', None, None) /\ Fed(dns') /\ Settles(t, dns')
    BY <2>2, <2>3, NextHandledSound
  <2> QED BY <1>2, <2>2, <2>4 DEF Orderly, Looks, Settles
<1> QED BY <1>3, <1>4, <1>5

\* A query is cancelled.
LEMMA CancelKeeps ==
    ASSUME IInv, NEW q \in Queries, Cancel(q) PROVE Orderly(dns, dns')
<1> DEFINE Q == {q}
<1>1. /\ Sound(dns, None, None) /\ Q \in SUBSET Pending(dns)
      /\ None \notin Q /\ q \in Q /\ dns' = Cancelled(dns, Q)
  BY NoneAssumption DEF IInv, Cancel
<1>2. \A p \in Q : dns.outcome[p] = "asked"
  BY <1>1 DEF Pending
<1> HIDE DEF Q
<1>3. /\ Sound(dns', None, None)
      /\ \A p \in Queries :
            dns'.outcome[p] = IF p \in Q THEN "cancelled" ELSE dns.outcome[p]
  <2>1. PICK u : u = dns'
    OBVIOUS
  <2>2. None \in Queries \cup {None} /\ None \in Children \cup {None}
    OBVIOUS
  <2>3. u = Cancelled(dns, Q)
    BY <1>1, <2>1
  <2>4. /\ Sound(u, None, None)
        /\ \A p \in Queries :
              u.outcome[p] = IF p \in Q THEN "cancelled" ELSE dns.outcome[p]
    <3>1. PICK n \in Queries \cup {None}, x \in Children \cup {None} :
             n = None /\ x = None
      BY <2>2
    <3>2. Sound(dns, n, x) /\ n \notin Q /\ Q \in SUBSET Pending(dns)
      BY <1>1, <3>1
    <3>3. /\ Sound(u, n, x)
          /\ u.outcome = [p \in Queries |-> IF p \in Q THEN "cancelled"
                                            ELSE dns.outcome[p]]
      BY <2>3, <3>2, CancelledSound
    <3> QED BY <3>1, <3>3
  <2> QED BY <2>1, <2>4
<1>4. Settles(dns, dns')
  BY <1>2, <1>3 DEF Settles
<1>5. Fed(dns')
  BY <1>1, <1>3 DEF Fed
<1> QED BY <1>3, <1>4, <1>5 DEF Orderly, Looks

\* What a child wrote, or that it is gone, is read, and its watch removed.
Heard(s, c) == [s EXCEPT !.inpa[c] = None,
                         !.child[c].job = None, !.child[c].answer = "none"]

\* The child is idle then, and the query it worked for is dealt with.
LEMMA HeardSound ==
    ASSUME NEW c \in Children, NEW s, Sound(s, None, None),
           NEW q, q = s.inpa[c], q # None, NEW u, u = Heard(s, c)
    PROVE  /\ q \in Queries /\ Sound(u, q, c) /\ u.outcome = s.outcome
           /\ u.outcome[q] = "asked" /\ u.resolver[q] = c
<1>1. /\ s \in State
      /\ s.inpa \in [Children -> Queries \cup {None}]
      /\ s.child \in [Children -> Child]
  BY StateIs DEF Sound
<1>2. q \in Queries
  BY <1>1
<1>3. ChildOK(s, c, None) /\ QueryOK(s, q, None)
  BY <1>2, NoneAssumption DEF Sound
<1>4. /\ c \notin s.free_dns_children /\ s.child[c].life # "none"
      /\ s.resolver[q] = c
  BY <1>3 DEF ChildOK, Blank
<1>5. /\ s.outcome[q] = "asked" /\ ~s.timeout[q]
      /\ q \notin Listed(s.queued_requests)
  BY <1>3, <1>4, NoneAssumption DEF QueryOK
<1> DEFINE k == [[s.child[c] EXCEPT !.job = None] EXCEPT !.answer = "none"]
           ip == [s.inpa EXCEPT ![c] = None]
           ch == [s.child EXCEPT ![c] = k]
<1>6. u = [s EXCEPT !.inpa = ip, !.child = ch]
  BY <1>1 DEF Heard, State
<1>7. s.child[c] \in Child
  BY <1>1
<1>8. /\ k \in Child /\ k.job = None /\ k.answer = "none"
      /\ k.life = s.child[c].life
  BY <1>7 DEF Child
<1> HIDE DEF k
<1>9. /\ ip \in [Children -> Queries \cup {None}] /\ ch \in [Children -> Child]
      /\ ip[c] = None /\ ch[c] = k
      /\ \A d \in Children \ {c} : ip[d] = s.inpa[d] /\ ch[d] = s.child[d]
  BY <1>1, <1>8
<1> HIDE DEF ip, ch
<1>10. /\ u.outcome = s.outcome /\ u.timeout = s.timeout
       /\ u.resolver = s.resolver
       /\ u.queued_requests = s.queued_requests
       /\ u.free_dns_children = s.free_dns_children
       /\ u.number_of_dns_children = s.number_of_dns_children
       /\ u.child_failed = s.child_failed /\ u.fork_failed = s.fork_failed
       /\ u.inpa = ip /\ u.child = ch
  BY <1>1, <1>6 DEF State
<1>11. u \in State
  BY <1>1, <1>6, <1>9 DEF State
<1>12. Counted(u) /\ Distinct(u.queued_requests)
  <2>1. AliveIn(u) = AliveIn(s)
    BY <1>8, <1>9, <1>10 DEF AliveIn
  <2> QED BY <1>10, <2>1 DEF Sound, Counted
<1>13. ASSUME NEW p \in Queries \ {q} PROVE QueryOK(u, p, c)
  <2>1. QueryOK(s, p, None)
    BY NoneAssumption DEF Sound
  <2>2. s.resolver[p] # c
    BY <2>1, NoneAssumption DEF QueryOK
  <2> QED BY <1>9, <1>10, <2>1, <2>2 DEF QueryOK
<1>14. ASSUME NEW d \in Children \ {c} PROVE ChildOK(u, d, q)
  <2>1. ChildOK(s, d, None)
    BY NoneAssumption DEF Sound
  <2>2. d \notin s.free_dns_children /\ s.child[d].life # "none" =>
            s.inpa[d] # q
    BY <1>4, <2>1 DEF ChildOK
  <2> QED BY <1>9, <1>10, <2>1, <2>2 DEF ChildOK, Blank
<1>15. QueryOut(u, q, c)
  BY <1>4, <1>5, <1>10 DEF QueryOut
<1>16. ChildOut(u, c)
  BY <1>4, <1>8, <1>9, <1>10 DEF ChildOut, Blank
<1>17. Sound(u, q, c)
  BY <1>11, <1>12, <1>13, <1>14, <1>15, <1>16 DEF Sound
<1> QED BY <1>2, <1>4, <1>5, <1>10, <1>17

\* A query is answered, and the queue handled.
LEMMA HostResolvedKeeps ==
    ASSUME IInv, NEW c \in Children, HostResolved(c) PROVE Orderly(dns, dns')
<1> DEFINE q == dns.inpa[c]
           s == Heard(dns, c)
<1>1. q # None /\ Sound(dns, None, None)
  BY DEF IInv, HostResolved
<1>2. PICK t \in Resolved(s, q) \cup Failed(s, q) : dns' \in NextHandled(t)
  BY DEF HostResolved, Heard
<1> HIDE DEF q, s
<1>3. /\ q \in Queries /\ Sound(s, q, c) /\ s.outcome = dns.outcome
      /\ s.outcome[q] = "asked" /\ s.resolver[q] = c
  BY <1>1, HeardSound DEF q, s
<1>4. Sound(t, None, None) /\ Settles(s, t)
  <2>1. c \in Children \cup {None}
    OBVIOUS
  <2> QED BY <1>2, <1>3, <2>1, ClosedSound
<1>5. Sound(dns', None, None) /\ Fed(dns') /\ Settles(t, dns')
  BY <1>2, <1>4, NextHandledSound
<1> QED BY <1>3, <1>4, <1>5 DEF Orderly, Looks, Settles

\* The child c is k from now on.
Turned(s, c, k) == [s EXCEPT !.child = [@ EXCEPT ![c] = k]]

\* A child may write an answer to what it has read, and leave.
LEMMA TurnedKeeps ==
    ASSUME IInv, NEW c \in Children, dns.child[c].life # "none",
           NEW k \in Child, k.life # "none", k.job = dns.child[c].job,
           k.answer = dns.child[c].answer \/ k.job # None,
           dns' = Turned(dns, c, k)
    PROVE  Orderly(dns, dns')
<1> USE DEF IInv
<1> DEFINE u == Turned(dns, c, k)
           ch == [dns.child EXCEPT ![c] = k]
<1>1. dns \in State /\ dns.child \in [Children -> Child]
  BY StateIs DEF Sound
<1>2. /\ ch \in [Children -> Child] /\ ch[c] = k
      /\ \A d \in Children \ {c} : ch[d] = dns.child[d]
  BY <1>1
<1>3. u = [dns EXCEPT !.child = ch]
  BY <1>1 DEF Turned, State
<1> HIDE DEF ch, u
<1>4. /\ u.outcome = dns.outcome /\ u.timeout = dns.timeout
      /\ u.resolver = dns.resolver
      /\ u.queued_requests = dns.queued_requests
      /\ u.free_dns_children = dns.free_dns_children
      /\ u.number_of_dns_children = dns.number_of_dns_children
      /\ u.child_failed = dns.child_failed /\ u.fork_failed = dns.fork_failed
      /\ u.inpa = dns.inpa /\ u.child = ch
  BY <1>1, <1>3 DEF State
<1>5. u \in State
  BY <1>1, <1>2, <1>3 DEF State
<1>6. Counted(u) /\ Distinct(u.queued_requests)
  <2>1. AliveIn(u) = AliveIn(dns)
    BY <1>2, <1>4 DEF AliveIn
  <2> QED BY <1>4, <2>1 DEF Sound, Counted
<1>7. ASSUME NEW p \in Queries PROVE QueryOK(u, p, None)
  <2>1. QueryOK(dns, p, None)
    BY NoneAssumption DEF Sound
  <2> QED BY <1>2, <1>4, <2>1 DEF QueryOK
<1>8. ASSUME NEW d \in Children PROVE ChildOK(u, d, None)
  <2>1. ChildOK(dns, d, None)
    BY NoneAssumption DEF Sound
  <2>2. CASE d = c
    BY <1>2, <1>4, <2>1, <2>2 DEF ChildOK, Blank
  <2>3. CASE d # c
    BY <1>2, <1>4, <2>1, <2>3 DEF ChildOK, Blank
  <2> QED BY <2>2, <2>3
<1>9. Sound(u, None, None)
  BY <1>5, <1>6, <1>7, <1>8, NoneAssumption DEF Sound
<1>10. Fed(u) /\ Looks(dns, u)
  BY <1>4 DEF Fed, Looks, Settles
<1> QED BY <1>9, <1>10 DEF Orderly, u

\* A child does something of its own accord.
LEMMA ChildKeeps ==
    ASSUME IInv, NEW c \in Children,
           ChildAnswers(c) \/ ChildExpires(c) \/ ChildExits(c)
    PROVE  Orderly(dns, dns')
<1>1. dns \in State /\ dns.child \in [Children -> Child]
  BY StateIs DEF Sound, IInv
<1>2. dns.child[c] \in Child
  BY <1>1
<1> DEFINE k0 == dns.child[c]
<1>3. CASE ChildAnswers(c)
  <2> DEFINE k1 == [k0 EXCEPT !.answer = "hosts"]
             k2 == [[k0 EXCEPT !.answer = "error"] EXCEPT !.life = "leaving"]
  <2>1. /\ k1 \in Child /\ k1.life = k0.life /\ k1.job = k0.job
        /\ k2 \in Child /\ k2.life = "leaving" /\ k2.job = k0.job
    BY <1>2 DEF Child
  <2>2. k0.life = "running" /\ k0.job # None
    BY <1>3 DEF ChildAnswers
  <2>3. CASE dns' = [dns EXCEPT !.child[c].answer = "hosts"]
    <3>1. dns' = Turned(dns, c, k1)
      BY <1>1, <2>3 DEF Turned, State
    <3> HIDE DEF k1
    <3> QED BY <2>1, <2>2, <3>1, TurnedKeeps
  <2>4. CASE dns' = [dns EXCEPT !.child[c].answer = "error",
                                !.child[c].life = "leaving"]
    <3>1. dns' = Turned(dns, c, k2)
      BY <1>1, <2>4 DEF Turned, State
    <3> HIDE DEF k2
    <3> QED BY <2>1, <2>2, <3>1, TurnedKeeps
  <2> QED BY <1>3, <2>3, <2>4 DEF ChildAnswers
<1>4. CASE ChildExpires(c) \/ ChildExits(c)
  <2> DEFINE k1 == [k0 EXCEPT !.life = "leaving"]
             k2 == [k0 EXCEPT !.life = "exited"]
  <2>1. /\ k1 \in Child /\ k1.life = "leaving" /\ k1.job = k0.job
        /\ k1.answer = k0.answer
        /\ k2 \in Child /\ k2.life = "exited" /\ k2.job = k0.job
        /\ k2.answer = k0.answer
    BY <1>2 DEF Child
  <2>2. k0.life # "none"
    BY <1>4 DEF ChildExpires, ChildExits
  <2>3. dns' = Turned(dns, c, k1) \/ dns' = Turned(dns, c, k2)
    BY <1>1, <1>4 DEF ChildExpires, ChildExits, Turned, State
  <2> HIDE DEF k1, k2
  <2> QED BY <2>1, <2>2, <2>3, TurnedKeeps
<1> QED BY <1>3, <1>4

-----------------------------------------------------------------------------
(* The theorems.                                                           *)

\* The invariant holds initially.
LEMMA InitSound == Init => IInv
<1> SUFFICES ASSUME Init PROVE Sound(dns, None, None) /\ Fed(dns)
  BY DEF IInv
<1>1. /\ dns.queued_requests = <<>> /\ dns.free_dns_children = {}
      /\ dns.number_of_dns_children = 0
      /\ dns.child_failed = FALSE /\ dns.fork_failed = FALSE
      /\ \A q \in Queries : /\ dns.outcome[q] = "unasked" /\ ~dns.timeout[q]
                            /\ dns.resolver[q] = None
      /\ \A c \in Children : dns.inpa[c] = None /\ dns.child[c] = NoProcess
  BY DEF Init
<1>2. dns \in State
  BY DEF Init, State, NoProcess, Child
<1>3. AliveIn(dns) = {}
  BY <1>1 DEF AliveIn, NoProcess
<1>4. Counted(dns)
  BY <1>1, <1>3, FS_EmptySet DEF Counted
<1>5. Listed(dns.queued_requests) = {} /\ Distinct(dns.queued_requests)
  BY <1>1 DEF Listed, Distinct
<1>6. \A q \in Queries : QueryOK(dns, q, None)
  BY <1>1, <1>5 DEF QueryOK
<1>7. \A c \in Children : ChildOK(dns, c, None)
  BY <1>1 DEF ChildOK, Blank, NoProcess
<1>8. Sound(dns, None, None)
  BY <1>2, <1>4, <1>5, <1>6, <1>7, NoneAssumption DEF Sound
<1> QED BY <1>1, <1>8 DEF Fed

\* Every event is orderly.
LEMMA NextOrderly ==
    ASSUME IInv, Next PROVE Orderly(dns, dns')
<1>1. ASSUME NEW q \in Queries, Ask(q) PROVE Orderly(dns, dns')
  BY <1>1, AskKeeps
<1>2. ASSUME NEW q \in Queries, InitiateResolving(q) PROVE Orderly(dns, dns')
  BY <1>2, InitiateResolvingKeeps
<1>3. ASSUME NEW q \in Queries, Cancel(q) PROVE Orderly(dns, dns')
  BY <1>3, CancelKeeps
<1>4. ASSUME NEW c \in Children, HostResolved(c) PROVE Orderly(dns, dns')
  BY <1>4, HostResolvedKeeps
<1>5. ASSUME NEW c \in Children,
             ChildAnswers(c) \/ ChildExpires(c) \/ ChildExits(c)
      PROVE  Orderly(dns, dns')
  BY <1>5, ChildKeeps
<1> QED BY <1>1, <1>2, <1>3, <1>4, <1>5 DEF Next

\* The invariant is inductive.
LEMMA Inductive == IInv /\ [Next]_dns => IInv'
<1> SUFFICES ASSUME IInv, [Next]_dns PROVE IInv'
  OBVIOUS
<1>1. CASE Next
  <2>1. Orderly(dns, dns')
    BY <1>1, NextOrderly
  <2> QED BY <2>1 DEF Orderly, IInv
<1>2. CASE UNCHANGED dns
  BY <1>2 DEF IInv
<1> QED BY <1>1, <1>2

\* The invariant holds in every state.
THEOREM Invariant == Spec => []IInv
<1> QED BY InitSound, Inductive, PTL DEF Spec

\* The states of the module are of the type declared.
THEOREM TypeCorrect == Spec => []TypeOK
<1>1. IInv => TypeOK
  BY DEF IInv, Sound, TypeOK
<1> QED BY <1>1, Invariant, PTL

\* However answers, cancellations and the ends of children interleave, a child
\* that is busy works for the one query that waits for it, and a free child has
\* nothing left in its pipe: host_resolved finds the query that was asked.
THEOREM AnswersFindQueries == Spec => []AnswersFindTheirQuery
<1>1. ASSUME IInv PROVE AnswersFindTheirQuery
  <2>1. /\ \A q \in Queries : QueryOK(dns, q, None)
        /\ \A c \in Children : ChildOK(dns, c, None)
    BY <1>1, NoneAssumption DEF IInv, Sound
  <2>2. ASSUME NEW c \in Alive \ dns.free_dns_children
        PROVE  \E q \in Queries :
                  /\ dns.resolver[q] = c /\ dns.inpa[c] = q
                  /\ dns.child[c].job = q
                  /\ \A p \in Queries \ {q} : dns.resolver[p] # c
    <3>1. c \in Children /\ dns.child[c].life # "none"
      BY DEF Alive
    <3>2. /\ dns.inpa[c] \in Queries /\ dns.resolver[dns.inpa[c]] = c
          /\ dns.child[c].job = dns.inpa[c]
      BY <2>1, <3>1 DEF ChildOK
    <3>3. ASSUME NEW p \in Queries \ {dns.inpa[c]} PROVE dns.resolver[p] # c
      BY <2>1, <3>1, NoneAssumption DEF QueryOK
    <3> QED BY <3>2, <3>3
  <2>3. ASSUME NEW c \in dns.free_dns_children
        PROVE  /\ c \in Alive /\ dns.inpa[c] = None
               /\ dns.child[c].job = None /\ dns.child[c].answer = "none"
               /\ \A q \in Queries : dns.resolver[q] # c
    <3>1. c \in Children
      BY <1>1, StateIs DEF IInv, Sound
    <3>2. dns.child[c].life # "none" /\ Blank(dns, c)
      BY <2>1, <3>1 DEF ChildOK
    <3>3. \A q \in Queries : dns.resolver[q] # c
      BY <2>1, <3>1, NoneAssumption DEF QueryOK
    <3> QED BY <3>1, <3>2, <3>3 DEF Alive, Blank
  <2> QED BY <2>2, <2>3 DEF AnswersFindTheirQuery
<1> QED BY <1>1, Invariant, PTL

\* purple_dnsquery_destroy leaves no way to the query it frees: not from the
\* queue, nor from a timer, nor from the watch of a child's answers.
THEOREM DestroyedUnreachable == Spec => []DestroyedIsUnreachable
<1>1. ASSUME IInv PROVE DestroyedIsUnreachable
  <2> SUFFICES ASSUME NEW q \in Queries, dns.outcome[q] # "asked"
               PROVE  /\ ~dns.timeout[q] /\ dns.resolver[q] = None
                      /\ \A i \in 1..Len(dns.queued_requests) :
                            dns.queued_requests[i] # q
                      /\ \A c \in Children : dns.inpa[c] # q
    BY DEF DestroyedIsUnreachable, Pending
  <2>1. QueryOK(dns, q, None) /\ \A c \in Children : ChildOK(dns, c, None)
    BY <1>1, NoneAssumption DEF IInv, Sound
  <2>2. /\ ~dns.timeout[q] /\ dns.resolver[q] = None
        /\ q \notin Listed(dns.queued_requests)
    BY <2>1 DEF QueryOK
  <2>3. ASSUME NEW c \in Children PROVE dns.inpa[c] # q
    <3>1. CASE c \in dns.free_dns_children \/ dns.child[c].life = "none"
      BY <2>1, <3>1, NoneAssumption DEF ChildOK, Blank
    <3>2. CASE ~(c \in dns.free_dns_children \/ dns.child[c].life = "none")
      BY <2>1, <2>2, <3>2, NoneAssumption DEF ChildOK
    <3> QED BY <3>1, <3>2
  <2> QED BY <2>2, <2>3 DEF Listed
<1> QED BY <1>1, Invariant, PTL

\* number_of_dns_children is the number of children, as long as no fork failed.
THEOREM NumberRight == Spec => []NumberIsRight
<1>1. IInv => NumberIsRight
  BY DEF IInv, Sound, Counted, NumberIsRight, Alive, AliveIn
<1> QED BY <1>1, Invariant, PTL

\* A query in queued_requests has an answer to wait for that gets the queue
\* handled, if nobody cancels and a child can be made when one is needed.
THEOREM QueueServed == Spec => []QueueIsServedUncancelled
<1>1. IInv => QueueIsServedUncancelled
  BY DEF IInv, Fed, QueueIsServedUncancelled, QueueIsServed, SomeCancelled
<1> QED BY <1>1, Invariant, PTL

\* To its callers, dnsquery.c is a look-up: the callback of a query is called at
\* most once, with addresses or with an error, and not after a cancellation; a
\* second call, which the model records as "again", is no step of Lookup.
THEOREM ImplementsLookup == Spec => IsLookup
<1>1. Init => Lookups!Init
  BY DEF Init, Lookups!Init
<1>2. ASSUME IInv, IInv', [Next]_dns PROVE [Lookups!Next]_(dns.outcome)
  <2>1. CASE UNCHANGED dns
    BY <2>1
  <2>2. CASE Next
    <3>1. Looks(dns, dns')
      BY <1>2, <2>2, NextOrderly DEF Orderly
    <3>2. /\ dns.outcome \in [Queries -> Outcomes]
          /\ dns'.outcome \in [Queries -> Outcomes]
      BY <1>2, StateIs DEF IInv, Sound
    <3>3. CASE Settles(dns, dns')
      <4> DEFINE H == {p \in Pending(dns) : dns'.outcome[p] = "hosts"}
                 E == {p \in Pending(dns) : dns'.outcome[p] = "error"}
                 C == {p \in Pending(dns) : dns'.outcome[p] = "cancelled"}
      <4>1. /\ H \in SUBSET Lookups!Asked /\ E \in SUBSET (Lookups!Asked \ H)
            /\ C \in SUBSET (Lookups!Asked \ (H \cup E))
        BY DEF Lookups!Asked, Pending
      <4>2. \A p \in Queries : dns'.outcome[p] = IF p \in H THEN "hosts"
                                            ELSE IF p \in E THEN "error"
                                            ELSE IF p \in C THEN "cancelled"
                                            ELSE dns.outcome[p]
        BY <3>3 DEF Settles, Pending
      <4> HIDE DEF H, E, C
      <4>3. Lookups!Settle(H, E, C)
        BY <3>2, <4>2 DEF Lookups!Settle
      <4> QED BY <4>1, <4>3 DEF Lookups!Next
    <3>4. ASSUME NEW q \in Queries, dns.outcome[q] = "unasked",
                 dns'.outcome = [dns.outcome EXCEPT ![q] = "asked"]
          PROVE  Lookups!Next
      <4>1. Lookups!Ask(q)
        BY <3>4 DEF Lookups!Ask
      <4> QED BY <4>1 DEF Lookups!Next
    <3> QED BY <3>1, <3>3, <3>4 DEF Looks
  <2> QED BY <1>2, <2>1, <2>2
<1> QED BY <1>1, <1>2, Invariant, PTL DEF Spec, IsLookup, Lookups!Spec
=============================================================================

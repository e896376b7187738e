--------------------------- MODULE SignalsProofs ---------------------------
(***************************************************************************)
(* Proofs about Signals: whatever handlers connect, disconnect, emit and   *)
(* unregister while they are called, an emission calls them in order of    *)
(* priority and none twice, leaves out none that was connected all the     *)
(* while, and touches freed memory only if a handler was reckless.  For    *)
(* any number of handlers, of priorities and of nested emissions.          *)
(***************************************************************************)
EXTENDS Signals, SequenceTheorems, WellFoundedInduction, TLAPS

-----------------------------------------------------------------------------
(* What a disconnected handler leaves of the list.  What the recursive     *)
(* function in Staying computes is known by induction on its argument, in  *)
(* the form that a set of numbers has a least element.                     *)

\* A set of numbers has a least element.
LEMMA Least ==
    ASSUME NEW T \in SUBSET Nat, T # {}
    PROVE  \E n \in T : \A m \in T : n <= m
<1>1. IsWellFoundedOn(OpToRel(<, Nat), Nat)
  BY NatLessThanWellFounded
<1>2. PICK n \in T : \A m \in T : ~(<<m, n>> \in OpToRel(<, Nat))
  BY <1>1, WFMin
<1>3. \A m \in T : ~(m < n)
  BY <1>2 DEF OpToRel
<1> QED BY <1>3

\* The body of the recursion, and that f solves it up to n.
Kept(list, gone, f, i) ==
    IF i = 0 THEN <<>>
    ELSE IF list[i].id \in gone THEN f[i - 1] ELSE Append(f[i - 1], list[i])

Solves(list, gone, f, n) == f = [i \in 0..n |-> Kept(list, gone, f, i)]

\* There is such a function.
LEMMA Solvable ==
    ASSUME NEW list, NEW gone, NEW n \in Nat
    PROVE  \E f : Solves(list, gone, f, n)
<1> DEFINE T == {m \in Nat : ~\E f : Solves(list, gone, f, m)}
<1> SUFFICES ASSUME T # {} PROVE FALSE
  OBVIOUS
<1>1. PICK m \in T : \A k \in T : m <= k
  BY Least
<1>2. m \in Nat /\ ~\E f : Solves(list, gone, f, m)
  BY <1>1
<1>3. CASE m = 0
  <2>1. Solves(list, gone, [i \in 0..0 |-> <<>>], 0)
    BY DEF Solves, Kept
  <2> QED BY <1>2, <1>3, <2>1
<1>4. CASE m # 0
  <2>1. m - 1 \in Nat /\ m - 1 \notin T
    BY <1>1, <1>4
  <2>2. PICK f : Solves(list, gone, f, m - 1)
    BY <2>1
  <2>3. \A i \in 0..(m - 1) : f[i] = Kept(list, gone, f, i)
    BY <2>2 DEF Solves
  <2> DEFINE g == [i \in 0..m |->
                     IF i < m THEN f[i] ELSE Kept(list, gone, f, m)]
  <2>4. \A i \in 0..(m - 1) : g[i] = f[i]
    BY <1>2
  <2>5. g[m] = Kept(list, gone, f, m)
    BY <1>2
  <2>6. g = [i \in 0..m |-> g[i]]
    OBVIOUS
  <2> HIDE DEF g
  <2>7. \A i \in 0..m : Kept(list, gone, g, i) = Kept(list, gone, f, i)
    BY <1>2, <2>4 DEF Kept
  <2>8. \A i \in 0..m : g[i] = Kept(list, gone, g, i)
    BY <1>2, <2>3, <2>4, <2>5, <2>7
  <2>9. Solves(list, gone, g, m)
    BY <2>6, <2>8 DEF Solves
  <2> QED BY <1>2, <2>9
<1> QED BY <1>2, <1>3, <1>4

\* w has handlers of the first n in their order: those that were not to go.
Leaves(list, gone, w, n) ==
    /\ \A i \in 1..Len(w) : w[i].id \notin gone
    /\ \A i \in 1..Len(w) : \E k \in 1..n : w[i] = list[k]
    /\ \A i, j \in 1..Len(w) : i < j =>
          \E k, l \in 1..n : k < l /\ w[i] = list[k] /\ w[j] = list[l]
    /\ \A k \in 1..n : list[k].id \notin gone =>
          \E i \in 1..Len(w) : w[i] = list[k]

\* One more handler that stays.
LEMMA OneMore ==
    ASSUME NEW S, NEW list, NEW gone, NEW m \in Nat, m # 0, list[m] \in S,
           list[m].id \notin gone,
           NEW v \in Seq(S), Leaves(list, gone, v, m - 1)
    PROVE  /\ Append(v, list[m]) \in Seq(S)
           /\ Leaves(list, gone, Append(v, list[m]), m)
<1> DEFINE w == Append(v, list[m])
           k == Len(v)
<1>1. k \in Nat
  OBVIOUS
<1>2. /\ w \in Seq(S) /\ Len(w) = k + 1 /\ w[k + 1] = list[m]
      /\ \A i \in 1..k : w[i] = v[i]
  OBVIOUS
<1> HIDE DEF w
<1>3. \A i \in 1..Len(w) : i \in 1..k \/ i = k + 1
  BY <1>1, <1>2
<1>4. \A i \in 1..k : \E a \in 1..(m - 1) : w[i] = list[a]
  BY <1>2 DEF Leaves
<1>5. ASSUME NEW i \in 1..Len(w) PROVE \E a \in 1..m : w[i] = list[a]
  <2>1. CASE i = k + 1
    <3>1. m \in 1..m /\ w[i] = list[m]
      BY <1>2, <2>1
    <3> QED BY <3>1
  <2>2. CASE i \in 1..k
    <3>1. PICK a \in 1..(m - 1) : w[i] = list[a]
      BY <1>4, <2>2
    <3>2. a \in 1..m
      OBVIOUS
    <3> QED BY <3>1, <3>2
  <2> QED BY <1>3, <2>1, <2>2
<1>6. ASSUME NEW i \in 1..Len(w), NEW j \in 1..Len(w), i < j
      PROVE  \E a, b \in 1..m : a < b /\ w[i] = list[a] /\ w[j] = list[b]
  <2>1. i \in 1..k
    BY <1>1, <1>2, <1>6
  <2>2. CASE j = k + 1
    <3>1. PICK a \in 1..(m - 1) : w[i] = list[a]
      BY <1>4, <2>1
    <3>2. a \in 1..m /\ m \in 1..m /\ a < m
      OBVIOUS
    <3> QED BY <1>2, <2>2, <3>1, <3>2
  <2>3. CASE j \in 1..k
    <3>1. PICK a \in 1..(m - 1), b \in 1..(m - 1) :
             a < b /\ v[i] = list[a] /\ v[j] = list[b]
      BY <1>6, <2>1, <2>3 DEF Leaves
    <3>2. a \in 1..m /\ b \in 1..m
      OBVIOUS
    <3> QED BY <1>2, <2>1, <2>3, <3>1, <3>2
  <2> QED BY <1>3, <2>2, <2>3
<1>7. ASSUME NEW a \in 1..m, list[a].id \notin gone
      PROVE  \E i \in 1..Len(w) : w[i] = list[a]
  <2>1. CASE a = m
    BY <1>1, <1>2, <2>1
  <2>2. CASE a # m
    <3>1. a \in 1..(m - 1)
      BY <2>2
    <3>2. PICK i \in 1..k : v[i] = list[a]
      BY <1>7, <3>1 DEF Leaves
    <3>3. i \in 1..Len(w)
      BY <1>1, <1>2
    <3> QED BY <1>2, <3>2, <3>3
  <2> QED BY <2>1, <2>2
<1>8. \A i \in 1..Len(w) : w[i].id \notin gone
  BY <1>2, <1>3 DEF Leaves
<1>9. Leaves(list, gone, w, m)
  BY <1>5, <1>6, <1>7, <1>8 DEF Leaves
<1> QED BY <1>2, <1>9 DEF w

\* What g_list_delete_link leaves of the list.
LEMMA StayingLeaves ==
    ASSUME NEW S, NEW list \in Seq(S), NEW gone
    PROVE  /\ Staying(list, gone) \in Seq(S)
           /\ Leaves(list, gone, Staying(list, gone), Len(list))
<1> DEFINE n == Len(list)
           F == CHOOSE f : Solves(list, gone, f, n)
<1>1. n \in Nat
  OBVIOUS
<1>2. Solves(list, gone, F, n)
  BY <1>1, Solvable
<1>3. Staying(list, gone) = F[n]
  BY DEF Staying, Solves, Kept
<1> HIDE DEF F
<1> DEFINE P(m) == F[m] \in Seq(S) /\ Leaves(list, gone, F[m], m)
           T == {m \in 0..n : ~P(m)}
<1>4. ASSUME T # {} PROVE FALSE
  <2>0. T \in SUBSET Nat
    <3> HIDE DEF P
    <3> QED BY <1>1
  <2>1. PICK m \in T : \A k \in T : m <= k
    <3> HIDE DEF T
    <3> QED BY <1>4, <2>0, Least
  <2>2. m \in 0..n /\ ~P(m)
    BY <2>1
  <2>3. F[m] = Kept(list, gone, F, m)
    BY <1>2, <2>2 DEF Solves
  <2>4. CASE m = 0
    <3>1. F[m] = <<>>
      BY <2>3, <2>4 DEF Kept
    <3>2. Leaves(list, gone, <<>>, 0)
      BY DEF Leaves
    <3> QED BY <2>2, <2>4, <3>1, <3>2
  <2>5. CASE m # 0
    <3>1. m - 1 \in 0..n /\ ~(m <= m - 1) /\ m \in 1..n
      BY <1>1, <2>2, <2>5
    <3>2. P(m - 1)
      <4> HIDE DEF P
      <4> QED BY <2>1, <3>1
    <3>3. list[m] \in S
      BY <3>1
    <3>4. CASE list[m].id \in gone
      <4>1. F[m] = F[m - 1]
        BY <2>3, <2>5, <3>4 DEF Kept
      <4>2. \A a \in 1..m : list[a].id \notin gone => a \in 1..(m - 1)
        BY <1>1, <3>1, <3>4
      <4>3. \A a \in 1..(m - 1) : a \in 1..m
        BY <1>1, <3>1
      <4>4. Leaves(list, gone, F[m - 1], m)
        BY <3>2, <4>2, <4>3 DEF Leaves
      <4> QED BY <2>2, <3>2, <4>1, <4>4
    <3>5. CASE list[m].id \notin gone
      <4>1. F[m] = Append(F[m - 1], list[m])
        BY <2>3, <2>5, <3>5 DEF Kept
      <4>2. m \in Nat
        BY <1>1, <3>1
      <4>3. F[m - 1] \in Seq(S) /\ Leaves(list, gone, F[m - 1], m - 1)
        BY <3>2
      <4> HIDE DEF P
      <4>4. /\ Append(F[m - 1], list[m]) \in Seq(S)
            /\ Leaves(list, gone, Append(F[m - 1], list[m]), m)
        BY <2>5, <3>3, <3>5, <4>2, <4>3, OneMore
      <4> QED BY <2>2, <4>1, <4>4 DEF P
    <3> QED BY <3>4, <3>5
  <2> QED BY <2>4, <2>5
<1>5. n \in 0..n
  BY <1>1
<1>6. P(n)
  BY <1>4, <1>5
<1> QED BY <1>3, <1>6

-----------------------------------------------------------------------------
(* The inductive invariant.                                                *)

\* The order of a list of handlers, connected or called; no id comes twice.
Ordered(list) ==
    \A i, j \in 1..Len(list) :
        i < j => list[i].priority <= list[j].priority /\ list[i].id # list[j].id

\* All of them were connected before the id n was given.
Older(list, n) == \A i \in 1..Len(list) : list[i].id < n

\* The emission has called a handler of this id.
Did(e, id) == \E k \in 1..Len(e.called) : e.called[k].id = id

\* Those an emission must still call, if nobody disconnects them.
Owed(e, id) == id \in e.due /\ ~Did(e, id)

\* As long as the next node is in the list, those called are in front of it, and
\* those to be called are not.
Follows(e, list) ==
    \A i \in 1..Len(list) : list[i].id = e.next =>
        /\ \A k \in 1..Len(e.called) : e.called[k].priority <= list[i].priority
        /\ \A j \in 1..Len(list) : /\ Did(e, list[j].id) => j < i
                                   /\ Owed(e, list[j].id) => i <= j

\* Whether or not it is, somebody to be called means that there was a next node,
\* and comes no earlier than the handler that runs.
Expects(e, list) ==
    \A i \in 1..Len(list) : Owed(e, list[i].id) =>
        /\ e.next # NULL
        /\ e.called[Len(e.called)].priority <= list[i].priority

\* An emission in progress.
Going(e, list, n) ==
    /\ e.called # <<>>
    /\ e.running = e.called[Len(e.called)].id
    /\ Ordered(e.called) /\ Older(e.called, n)
    /\ e.next < n
    /\ \A id \in e.due : id < n
    /\ Follows(e, list) /\ Expects(e, list)

\* The emissions in progress.
Emitting(stack, list, n) == \A k \in 1..Len(stack) : Going(stack[k], list, n)

\* There is one emission at most, and its next node is in the list.
Attended(stack, registered, list) ==
    /\ Len(stack) <= 1
    /\ \A k \in 1..Len(stack) :
          /\ registered
          /\ stack[k].next # NULL =>
                \E i \in 1..Len(list) : list[i].id = stack[k].next

\* So it is without reckless handlers, and then no freed memory is used.
Careful(x) ==
    ~x.reckless => ~x.dangling /\ Attended(x.stack, x.registered, x.handlers)

\* The inductive invariant.
Sound(x) ==
    /\ x \in State
    /\ Ordered(x.handlers) /\ Older(x.handlers, x.next_handler_id)
    /\ ~x.registered => x.handlers = <<>>
    /\ Emitting(x.stack, x.handlers, x.next_handler_id)
    /\ Careful(x)

IInv == Sound(s)

-----------------------------------------------------------------------------
(* What changes of the list keep of the order.                             *)

\* The handlers in new that were connected before the id n was given are in old,
\* in the same order.
Remains(old, new, n) ==
    /\ \A i \in 1..Len(new) : new[i].id < n =>
          \E k \in 1..Len(old) : new[i] = old[k]
    /\ \A i, j \in 1..Len(new) : i < j /\ new[i].id < n /\ new[j].id < n =>
          \E k, l \in 1..Len(old) : k < l /\ new[i] = old[k] /\ new[j] = old[l]

\* What the constants make of ids and priorities.
LEMMA HandlerIs ==
    ASSUME NEW h \in Handler
    PROVE  h.id \in Nat /\ h.id # 0 /\ h.id <= MaxIds /\ h.priority \in Int
<1>1. h.id \in 1..MaxIds /\ h.priority \in Priorities
  BY DEF Handler, Ids
<1>2. MaxIds \in Nat /\ Priorities \subseteq Int
  BY SignalsAssumption
<1>3. h.priority \in Int
  BY <1>1, <1>2, Zenon
<1>4. h.id \in Nat /\ h.id # 0 /\ h.id <= MaxIds
  BY <1>1, <1>2
<1> QED BY <1>3, <1>4

\* Handlers of a list.
LEMMA ListIs ==
    ASSUME NEW list \in Seq(Handler)
    PROVE  /\ Len(list) \in Nat
           /\ \A i \in 1..Len(list) :
                /\ list[i] \in Handler
                /\ list[i].id \in Nat /\ list[i].id # 0 /\ list[i].id <= MaxIds
                /\ list[i].priority \in Int
BY HandlerIs

\* Disconnecting keeps the list ordered.
LEMMA StayingRemains ==
    ASSUME NEW list \in Seq(Handler), NEW gone, NEW n, NEW w,
           Ordered(list), Older(list, n), w = Staying(list, gone)
    PROVE  /\ w \in Seq(Handler)
           /\ Ordered(w) /\ Older(w, n)
           /\ Remains(list, w, n)
           /\ Leaves(list, gone, w, Len(list))
           /\ list = <<>> => w = <<>>
<1>1. w \in Seq(Handler) /\ Leaves(list, gone, w, Len(list))
  BY StayingLeaves
<1>2. \A i \in 1..Len(w) : \E k \in 1..Len(list) : w[i] = list[k]
  BY <1>1 DEF Leaves
<1>3. \A i, j \in 1..Len(w) : i < j =>
        \E k, l \in 1..Len(list) : k < l /\ w[i] = list[k] /\ w[j] = list[l]
  BY <1>1 DEF Leaves
<1>4. Ordered(w)
  BY <1>3 DEF Ordered
<1>5. Older(w, n)
  BY <1>2 DEF Older
<1>6. Remains(list, w, n)
  BY <1>2, <1>3 DEF Remains
<1>7. ASSUME list = <<>> PROVE w = <<>>
  <2>1. Len(list) = 0
    BY <1>7
  <2>2. 1..Len(w) = {}
    BY <1>2, <2>1
  <2>3. Len(w) \in Nat
    BY <1>1
  <2>4. Len(w) # 0 => 1 \in 1..Len(w)
    BY <2>3
  <2> QED BY <1>1, <2>2, <2>4
<1> QED BY <1>1, <1>4, <1>5, <1>6, <1>7

\* The place of a handler: behind all smaller ones, and none that follows is.
Place(list, h, i) ==
    /\ \A j \in 1..i - 1 : list[j].priority < h.priority
    /\ i <= Len(list) => list[i].priority >= h.priority

\* Every handler has its place, wherever g_list_insert_sorted looks first.
LEMMA PlaceIs ==
    ASSUME NEW list \in Seq(Handler), NEW h \in Handler
    PROVE  \E i \in 1..Len(list) + 1 : Place(list, h, i)
<1> DEFINE n == Len(list)
           T == {i \in 1..n + 1 : i <= n => list[i].priority >= h.priority}
<1>1. n \in Nat
  OBVIOUS
<1>2. n + 1 \in T /\ T \in SUBSET Nat
  BY <1>1
<1>3. PICK i \in T : \A j \in T : i <= j
  <2> HIDE DEF T
  <2> QED BY <1>2, Least
<1>4. i \in 1..n + 1 /\ (i <= n => list[i].priority >= h.priority)
  BY <1>3
<1>5. ASSUME NEW j \in 1..i - 1 PROVE list[j].priority < h.priority
  <2>1. j \in 1..n /\ ~(i <= j)
    BY <1>1, <1>4
  <2>2. ~(list[j].priority >= h.priority)
    BY <1>1, <1>3, <2>1
  <2> QED BY <2>1, <2>2, ListIs, HandlerIs
<1> QED BY <1>4, <1>5 DEF Place

\* w is the list with h at the place i.
Shifts(list, h, i, w) ==
    /\ w \in Seq(Handler) /\ Len(w) = Len(list) + 1
    /\ w[i] = h
    /\ \A j \in 1..i - 1 : w[j] = list[j]
    /\ \A j \in i + 1..Len(list) + 1 : w[j] = list[j - 1]

\* What is put in at a place shifts what follows.
LEMMA InsertAtShifts ==
    ASSUME NEW list \in Seq(Handler), NEW h \in Handler,
           NEW i \in 1..Len(list) + 1
    PROVE  Shifts(list, h, i, InsertAt(list, i, h))
<1> DEFINE n == Len(list)
           a == SubSeq(list, 1, i - 1)
           b == SubSeq(list, i, n)
           c == a \o <<h>>
           w == InsertAt(list, i, h)
<1>1. n \in Nat /\ \A j \in 1..n : list[j] \in Handler
  BY ListIs
<1>2. /\ a \in Seq(Handler) /\ Len(a) = i - 1
      /\ \A j \in 1..i - 1 : a[j] = list[j]
  BY <1>1
<1>3. /\ b \in Seq(Handler) /\ Len(b) = n - i + 1
      /\ \A j \in 1..n - i + 1 : b[j] = list[i + j - 1]
  BY <1>1
<1>4. w = c \o b
  BY DEF InsertAt
<1> HIDE DEF a, b
<1>5. /\ c \in Seq(Handler) /\ Len(c) = i
      /\ c[i] = h
      /\ \A j \in 1..i - 1 : c[j] = list[j]
  BY <1>2
<1> HIDE DEF c, w
<1>6. w \in Seq(Handler) /\ Len(w) = n + 1
  <2>1. c \o b \in Seq(Handler) /\ Len(c \o b) = Len(c) + Len(b)
    BY <1>3, <1>5, ConcatProperties
  <2>2. i + (n - i + 1) = n + 1
    BY <1>1
  <2> QED BY <1>3, <1>4, <1>5, <2>1, <2>2
<1>7. \A j \in 1..n + 1 : w[j] = IF j <= i THEN c[j] ELSE b[j - i]
  BY <1>1, <1>3, <1>4, <1>5, ConcatProperties
<1>8. w[i] = h /\ \A j \in 1..i - 1 : w[j] = list[j]
  BY <1>1, <1>5, <1>7
<1>9. \A j \in i + 1..n + 1 : w[j] = list[j - 1]
  <2> SUFFICES ASSUME NEW j \in i + 1..n + 1 PROVE w[j] = list[j - 1]
    OBVIOUS
  <2>1. j - i \in 1..n - i + 1 /\ j \in 1..n + 1 /\ ~(j <= i)
    BY <1>1
  <2>2. w[j] = b[j - i]
    BY <1>7, <2>1
  <2>3. i + (j - i) - 1 = j - 1
    BY <1>1
  <2> QED BY <1>3, <2>1, <2>2, <2>3
<1> QED BY <1>6, <1>8, <1>9 DEF Shifts, w

\* Connecting keeps the list ordered: all that do not follow the new handler are
\* smaller, and all that follow are not.
LEMMA InsertedRemains ==
    ASSUME NEW list \in Seq(Handler), NEW h \in Handler, NEW w,
           Ordered(list), Older(list, h.id), w = Inserted(list, h)
    PROVE  /\ w \in Seq(Handler)
           /\ Ordered(w) /\ Older(w, h.id + 1)
           /\ Remains(list, w, h.id)
           /\ \A k \in 1..Len(list) : \E j \in 1..Len(w) : w[j] = list[k]
<1> DEFINE n == Len(list)
<1>1. n \in Nat /\ h.id \in Nat /\ h.priority \in Int
  BY HandlerIs
<1>2. PICK i \in 1..n + 1 : Place(list, h, i) /\ w = InsertAt(list, i, h)
  <2> DEFINE i == CHOOSE i \in 1..Len(list) + 1 : Place(list, h, i)
  <2>1. i \in 1..n + 1 /\ Place(list, h, i)
    BY PlaceIs
  <2>2. w = InsertAt(list, i, h)
    BY DEF Inserted, Place
  <2> QED BY <2>1, <2>2
<1>3. /\ w \in Seq(Handler) /\ Len(w) = n + 1
      /\ w[i] = h
      /\ \A j \in 1..i - 1 : w[j] = list[j]
      /\ \A j \in i + 1..n + 1 : w[j] = list[j - 1]
  <2>1. i \in 1..Len(list) + 1 /\ w = InsertAt(list, i, h)
    BY <1>2
  <2>2. Shifts(list, h, i, w)
    BY <2>1, InsertAtShifts
  <2> QED BY <2>2 DEF Shifts
\* from: the place in the old list of what is at j in the new one.
<1> DEFINE from(j) == IF j < i THEN j ELSE j - 1
<1>4. \A j \in 1..n + 1 : j # i => from(j) \in 1..n /\ w[j] = list[from(j)]
  BY <1>1, <1>3
<1>5. \A j, k \in 1..n + 1 : j < k /\ j # i /\ k # i => from(j) < from(k)
  BY <1>1
<1>6. \A j \in 1..n + 1 : j # i => w[j].id < h.id
  BY <1>4 DEF Older
<1>7. \A j \in 1..n : list[j].priority \in Int /\ list[j].id \in Nat
  BY ListIs
<1>8. \A j \in 1..n : i <= j => list[j].priority >= h.priority
  <2> SUFFICES ASSUME NEW j \in 1..n, i <= j PROVE list[j].priority >= h.priority
    OBVIOUS
  <2>1. i \in 1..n /\ list[i].priority >= h.priority
    BY <1>1, <1>2 DEF Place
  <2>2. list[i].priority <= list[j].priority
    BY <1>1, <1>7, <2>1 DEF Ordered
  <2> QED BY <1>1, <1>7, <2>1, <2>2
<1>9. Ordered(w)
  <2> SUFFICES ASSUME NEW j \in 1..n + 1, NEW k \in 1..n + 1, j < k
               PROVE  w[j].priority <= w[k].priority /\ w[j].id # w[k].id
    BY <1>3 DEF Ordered
  <2>1. CASE j = i
    <3>1. k # i /\ i <= from(k) /\ from(k) \in 1..n /\ w[k] = list[from(k)]
      BY <1>1, <1>4, <2>1
    <3>2. w[k].id < h.id /\ w[k].id \in Nat
      BY <1>6, <1>7, <3>1
    <3> QED BY <1>1, <1>3, <1>7, <1>8, <2>1, <3>1, <3>2
  <2>2. CASE k = i
    <3>1. j # i /\ j \in 1..i - 1 /\ j \in 1..n /\ w[j] = list[j]
      BY <1>1, <1>3, <2>2
    <3>2. list[j].priority < h.priority
      BY <1>2, <3>1 DEF Place
    <3>3. w[j].id < h.id /\ w[j].id \in Nat
      BY <1>6, <1>7, <3>1
    <3> QED BY <1>1, <1>3, <1>7, <2>2, <3>1, <3>2, <3>3
  <2>3. CASE j # i /\ k # i
    <3> HIDE DEF from
    <3>1. from(j) < from(k) /\ from(j) \in 1..n /\ from(k) \in 1..n
      BY <1>4, <1>5, <2>3
    <3> QED BY <1>4, <2>3, <3>1 DEF Ordered
  <2> QED BY <2>1, <2>2, <2>3
<1>10. Older(w, h.id + 1)
  <2> SUFFICES ASSUME NEW j \in 1..n + 1 PROVE w[j].id < h.id + 1
    BY <1>3 DEF Older
  <2>1. CASE j = i
    BY <1>1, <1>3, <2>1
  <2>2. CASE j # i
    <3>1. w[j].id < h.id /\ w[j].id \in Nat
      BY <1>4, <1>6, <1>7, <2>2
    <3> QED BY <1>1, <3>1
  <2> QED BY <2>1, <2>2
<1>11. \A j \in 1..n + 1 : w[j].id < h.id => j # i
  BY <1>1, <1>3
<1>12. Remains(list, w, h.id)
  <2> HIDE DEF from
  <2>1. ASSUME NEW j \in 1..n + 1, w[j].id < h.id
        PROVE  \E k \in 1..n : w[j] = list[k]
    BY <1>4, <1>11, <2>1
  <2>2. ASSUME NEW j \in 1..n + 1, NEW k \in 1..n + 1, j < k,
               w[j].id < h.id, w[k].id < h.id
        PROVE  \E a, b \in 1..n : a < b /\ w[j] = list[a] /\ w[k] = list[b]
    <3>1. j # i /\ k # i
      BY <1>11, <2>2
    <3>2. from(j) < from(k) /\ from(j) \in 1..n /\ from(k) \in 1..n
      BY <1>4, <1>5, <2>2, <3>1
    <3> QED BY <1>4, <3>1, <3>2
  <2> QED BY <1>3, <2>1, <2>2 DEF Remains
<1>13. ASSUME NEW k \in 1..n PROVE \E j \in 1..n + 1 : w[j] = list[k]
  <2>1. CASE k < i
    <3>1. k \in 1..i - 1 /\ k \in 1..n + 1
      BY <1>1, <2>1
    <3> QED BY <1>3, <3>1
  <2>2. CASE ~(k < i)
    <3>1. k + 1 \in i + 1..n + 1 /\ k + 1 \in 1..n + 1 /\ (k + 1) - 1 = k
      BY <1>1, <2>2
    <3> QED BY <1>3, <3>1
  <2> QED BY <2>1, <2>2
<1> QED BY <1>3, <1>9, <1>10, <1>12, <1>13

-----------------------------------------------------------------------------
(* Emissions in progress.                                                  *)

\* The parts of an emission.
LEMMA EmissionIs ==
    ASSUME NEW e \in Emission
    PROVE  /\ e.running \in Ids /\ e.next \in Ids \cup {NULL}
           /\ e.next \in Nat
           /\ e.return_1 \in BOOLEAN
           /\ e.due \in SUBSET Ids
           /\ e.called \in Seq(Handler)
           /\ Len(e.called) \in Nat
           /\ e.called # <<>> => Len(e.called) \in 1..Len(e.called)
<1>1. /\ e.running \in Ids /\ e.next \in Ids \cup {NULL}
      /\ e.return_1 \in BOOLEAN
      /\ e.due \in SUBSET Ids
      /\ e.called \in Seq(Handler)
  BY DEF Emission
<1>2. e.next \in Nat
  BY <1>1, SignalsAssumption DEF Ids, NULL
<1>3. Len(e.called) \in Nat /\ (e.called # <<>> => Len(e.called) \in 1..Len(e.called))
  BY <1>1
<1> QED BY <1>1, <1>2, <1>3

\* A change that keeps the order of the list leaves an emission sound.
LEMMA GoingRemains ==
    ASSUME NEW e \in Emission, NEW old \in Seq(Handler), NEW new \in Seq(Handler),
           NEW n \in Nat, NEW m \in Nat, n <= m,
           Going(e, old, n), Remains(old, new, n)
    PROVE  Going(e, new, m)
<1>1. /\ e.next \in Nat /\ Len(e.called) \in Nat
      /\ \A k \in 1..Len(e.called) : e.called[k].id \in Nat /\ e.called[k].id < n
      /\ \A id \in e.due : id \in Nat /\ id < n
  BY EmissionIs, ListIs, SignalsAssumption DEF Going, Older, Ids
<1>2. /\ Len(old) \in Nat /\ Len(new) \in Nat
      /\ \A i \in 1..Len(new) : new[i].id \in Nat
  BY ListIs
<1>3. Older(e.called, m) /\ e.next < m /\ \A id \in e.due : id < m
  BY <1>1 DEF Going, Older
\* Those an emission knows of were in the list already.
<1>4. \A id : Did(e, id) \/ Owed(e, id) => id < n
  BY <1>1 DEF Did, Owed
<1>5. Follows(e, new)
  <2> SUFFICES ASSUME NEW i \in 1..Len(new), new[i].id = e.next
               PROVE  /\ \A k \in 1..Len(e.called) :
                            e.called[k].priority <= new[i].priority
                      /\ \A j \in 1..Len(new) : /\ Did(e, new[j].id) => j < i
                                                /\ Owed(e, new[j].id) => i <= j
    BY DEF Follows
  <2>1. new[i].id < n
    BY DEF Going
  <2>2. PICK k \in 1..Len(old) : new[i] = old[k]
    BY <2>1 DEF Remains
  <2>3. \A l \in 1..Len(e.called) : e.called[l].priority <= new[i].priority
    BY <2>2 DEF Going, Follows
  <2>4. ASSUME NEW j \in 1..Len(new), Did(e, new[j].id) PROVE j < i
    <3>1. new[j].id < n
      BY <1>4, <2>4
    <3>2. CASE j = i
      <4>1. Did(e, old[k].id) /\ old[k].id = e.next
        BY <2>2, <2>4, <3>2
      <4>2. k < k
        BY <4>1 DEF Going, Follows
      <4> QED BY <1>2, <4>2
    <3>3. CASE i < j
      <4>1. PICK a \in 1..Len(old), b \in 1..Len(old) :
               a < b /\ new[i] = old[a] /\ new[j] = old[b]
        BY <2>1, <3>1, <3>3 DEF Remains
      <4>2. Did(e, old[b].id) /\ old[a].id = e.next
        BY <2>4, <4>1
      <4>3. b < a
        BY <4>2 DEF Going, Follows
      <4> QED BY <1>2, <4>1, <4>3
    <3> QED BY <1>2, <3>2, <3>3
  <2>5. ASSUME NEW j \in 1..Len(new), Owed(e, new[j].id), j < i PROVE FALSE
    <3>1. new[j].id < n
      BY <1>4, <2>5
    <3>2. PICK a \in 1..Len(old), b \in 1..Len(old) :
             a < b /\ new[j] = old[a] /\ new[i] = old[b]
      BY <2>1, <2>5, <3>1 DEF Remains
    <3>3. Owed(e, old[a].id) /\ old[b].id = e.next
      BY <2>5, <3>2
    <3>4. b <= a
      BY <3>3 DEF Going, Follows
    <3> QED BY <1>2, <3>2, <3>4
  <2> QED BY <1>2, <2>3, <2>4, <2>5
<1>6. Expects(e, new)
  <2> SUFFICES ASSUME NEW i \in 1..Len(new), Owed(e, new[i].id)
               PROVE  /\ e.next # NULL
                      /\ e.called[Len(e.called)].priority <= new[i].priority
    BY DEF Expects
  <2>1. PICK k \in 1..Len(old) : new[i] = old[k]
    BY <1>4 DEF Remains
  <2> QED BY <2>1 DEF Going, Expects
<1> QED BY <1>3, <1>5, <1>6 DEF Going

\* An emission that is to call fewer is as sound.
LEMMA GoingFewer ==
    ASSUME NEW e \in Emission, NEW list, NEW n, NEW gone, NEW f,
           Going(e, list, n), f = [e EXCEPT !.due = @ \ gone]
    PROVE  f \in Emission /\ Going(f, list, n)
<1>1. /\ f.running = e.running /\ f.next = e.next /\ f.called = e.called
      /\ f.due = e.due \ gone /\ f \in Emission
  BY DEF Emission
<1>2. \A id : Did(f, id) <=> Did(e, id)
  BY <1>1 DEF Did
<1>3. \A id : Owed(f, id) => Owed(e, id)
  BY <1>1, <1>2 DEF Owed
<1>4. Follows(f, list)
  BY <1>1, <1>2, <1>3 DEF Going, Follows
<1>5. Expects(f, list)
  BY <1>1, <1>3 DEF Going, Expects
<1> QED BY <1>1, <1>4, <1>5 DEF Going

\* An emission that starts.
LEMMA GoingFirst ==
    ASSUME NEW list \in Seq(Handler), NEW n \in Nat, list # <<>>,
           Ordered(list), Older(list, n), NEW e \in Emission,
           e.running = list[1].id, e.next = NextOf(list, 1),
           e.called = <<list[1]>>,
           \A id \in e.due : \E i \in 1..Len(list) : list[i].id = id
    PROVE  Going(e, list, n)
<1>1. /\ Len(list) \in Nat /\ 1 \in 1..Len(list)
      /\ \A i \in 1..Len(list) :
            list[i].id \in Nat /\ list[i].id # 0 /\ list[i].priority \in Int
  BY ListIs
<1>2. Len(e.called) = 1 /\ e.called[1] = list[1]
  OBVIOUS
<1>3. \A id : Did(e, id) <=> id = list[1].id
  BY <1>2 DEF Did
<1>4. \A i \in 1..Len(list) : 1 < i => list[1].priority <= list[i].priority
                                    /\ list[1].id # list[i].id
  BY <1>1 DEF Ordered
<1>5. e.next # NULL => 2 \in 1..Len(list) /\ e.next = list[2].id
  BY <1>1 DEF NextOf
<1>6. \A i \in 1..Len(list) : list[i].id = e.next => i = 2 /\ e.next # NULL
  <2> SUFFICES ASSUME NEW i \in 1..Len(list), list[i].id = e.next
               PROVE  i = 2 /\ e.next # NULL
    OBVIOUS
  <2>1. e.next # NULL
    BY <1>1 DEF NULL
  <2> QED BY <1>1, <1>5, <2>1 DEF Ordered
<1>7. Ordered(e.called)
  BY <1>2 DEF Ordered
<1>8. Older(e.called, n)
  BY <1>1, <1>2 DEF Older
<1>9. e.next < n
  <2>1. CASE e.next = NULL
    <3>1. list[1].id < n
      BY <1>1 DEF Older
    <3> QED BY <1>1, <2>1, <3>1 DEF NULL
  <2>2. CASE e.next # NULL
    BY <1>5, <2>2 DEF Older
  <2> QED BY <2>1, <2>2
<1>10. \A id \in e.due : id < n
  BY DEF Older
<1>11. \A i \in 1..Len(list) : Did(e, list[i].id) => i = 1
  BY <1>1, <1>3, <1>4
<1>12. \A i \in 1..Len(list) : Owed(e, list[i].id) => 2 <= i
  BY <1>1, <1>3 DEF Owed
<1>13. Follows(e, list)
  BY <1>1, <1>2, <1>4, <1>6, <1>11, <1>12 DEF Follows
<1>14. Expects(e, list)
  <2> SUFFICES ASSUME NEW i \in 1..Len(list), Owed(e, list[i].id)
               PROVE  e.next # NULL /\ list[1].priority <= list[i].priority
    BY <1>2 DEF Expects
  <2>1. 2 <= i /\ 1 < i
    BY <1>1, <1>12
  <2>2. e.next = list[2].id /\ 2 \in 1..Len(list)
    BY <1>1, <2>1 DEF NextOf
  <2> QED BY <1>1, <1>4, <2>1, <2>2 DEF NULL
<1>15. e.called # <<>> /\ e.running = e.called[Len(e.called)].id
  BY <1>2
<1> QED BY <1>7, <1>8, <1>9, <1>10, <1>13, <1>14, <1>15 DEF Going

\* An emission that goes on to the next node, at i.
LEMMA GoingOn ==
    ASSUME NEW list \in Seq(Handler), NEW n \in Nat,
           Ordered(list), Older(list, n), NEW e \in Emission, Going(e, list, n),
           NEW i \in 1..Len(list), list[i].id = e.next, NEW f \in Emission,
           f.running = e.next, f.next = NextOf(list, i), f.due = e.due,
           f.called = Append(e.called, list[i])
    PROVE  Going(f, list, n)
<1> DEFINE m == Len(e.called)
<1>1. /\ Len(list) \in Nat
      /\ \A j \in 1..Len(list) :
            /\ list[j] \in Handler
            /\ list[j].id \in Nat /\ list[j].id # 0 /\ list[j].priority \in Int
  BY ListIs
<1>2. /\ m \in Nat /\ e.called \in Seq(Handler)
      /\ \A j \in 1..m : e.called[j].id \in Nat /\ e.called[j].priority \in Int
  BY EmissionIs, ListIs
<1>3. /\ Len(f.called) = m + 1 /\ f.called[m + 1] = list[i]
      /\ \A j \in 1..m : f.called[j] = e.called[j]
  BY <1>1, <1>2
<1>4. \A j \in 1..m + 1 : j \in 1..m \/ j = m + 1
  BY <1>2
<1>5. \A id : Did(f, id) <=> Did(e, id) \/ id = list[i].id
  <2>1. ASSUME NEW id, Did(f, id) PROVE Did(e, id) \/ id = list[i].id
    BY <1>3, <1>4, <2>1 DEF Did
  <2>2. ASSUME NEW id, Did(e, id) PROVE Did(f, id)
    <3>1. PICK k \in 1..m : e.called[k].id = id
      BY <2>2 DEF Did
    <3>2. k \in 1..m + 1
      BY <1>2
    <3>3. k \in 1..Len(f.called) /\ f.called[k].id = id
      BY <1>3, <3>1, <3>2
    <3> QED BY <3>3 DEF Did
  <2>3. Did(f, list[i].id)
    <3>1. m + 1 \in 1..Len(f.called) /\ f.called[m + 1].id = list[i].id
      BY <1>2, <1>3
    <3> QED BY <3>1 DEF Did
  <2> QED BY <2>1, <2>2, <2>3
<1>6. \A id : Owed(f, id) => Owed(e, id) /\ id # list[i].id
  BY <1>5 DEF Owed
<1>7. \A j \in 1..Len(list) : i < j => list[i].priority <= list[j].priority
  BY DEF Ordered
<1>8. \A j \in 1..Len(list) : list[j].id = list[i].id => j = i
  BY <1>1 DEF Ordered
<1>9. /\ \A k \in 1..m : e.called[k].priority <= list[i].priority
      /\ \A j \in 1..Len(list) : /\ Did(e, list[j].id) => j < i
                                 /\ Owed(e, list[j].id) => i <= j
  BY DEF Going, Follows
<1>10. ~Did(e, list[i].id)
  <2>1. ~(i < i)
    BY <1>1
  <2> QED BY <1>9, <2>1
<1>11. Ordered(f.called)
  <2> SUFFICES ASSUME NEW a \in 1..m + 1, NEW b \in 1..m + 1, a < b
               PROVE  /\ f.called[a].priority <= f.called[b].priority
                      /\ f.called[a].id # f.called[b].id
    BY <1>3 DEF Ordered
  <2>1. a \in 1..m
    BY <1>2
  <2>2. CASE b = m + 1
    BY <1>3, <1>9, <1>10, <2>1, <2>2 DEF Did
  <2>3. CASE b \in 1..m
    BY <1>3, <2>1, <2>3 DEF Going, Ordered
  <2> QED BY <1>4, <2>2, <2>3
<1>12. Older(f.called, n)
  BY <1>3, <1>4 DEF Going, Older
<1>13. e.next # NULL
  BY <1>1 DEF NULL
<1>14. f.next # NULL => i + 1 \in 1..Len(list) /\ f.next = list[i + 1].id
  BY <1>1 DEF NextOf
<1>15. f.next < n
  <2>1. CASE f.next = NULL
    <3>1. list[i].id < n
      BY DEF Older
    <3> QED BY <1>1, <2>1, <3>1 DEF NULL
  <2>2. CASE f.next # NULL
    BY <1>14, <2>2 DEF Older
  <2> QED BY <2>1, <2>2
<1>16. \A j \in 1..Len(list) : list[j].id = f.next => j = i + 1
  <2> SUFFICES ASSUME NEW j \in 1..Len(list), list[j].id = f.next
               PROVE  j = i + 1
    OBVIOUS
  <2>1. f.next # NULL
    BY <1>1 DEF NULL
  <2> QED BY <1>1, <1>14, <2>1 DEF Ordered
<1>17. \A j \in 1..Len(list) : Did(f, list[j].id) => j <= i
  BY <1>1, <1>5, <1>8, <1>9
<1>18. \A j \in 1..Len(list) : Owed(f, list[j].id) => i < j
  <2> SUFFICES ASSUME NEW j \in 1..Len(list), Owed(f, list[j].id) PROVE i < j
    OBVIOUS
  <2>1. i <= j /\ j # i
    BY <1>6, <1>9
  <2> QED BY <1>1, <2>1
<1>19. Follows(f, list)
  <2> SUFFICES ASSUME NEW j \in 1..Len(list), list[j].id = f.next
               PROVE  /\ \A k \in 1..m + 1 :
                            f.called[k].priority <= list[j].priority
                      /\ \A l \in 1..Len(list) : /\ Did(f, list[l].id) => l < j
                                                 /\ Owed(f, list[l].id) => j <= l
    BY <1>3 DEF Follows
  <2>1. j = i + 1 /\ i < j /\ list[i].priority <= list[j].priority
    BY <1>1, <1>7, <1>16
  <2>2. ASSUME NEW k \in 1..m + 1 PROVE f.called[k].priority <= list[j].priority
    <3>1. CASE k = m + 1
      BY <1>3, <2>1, <3>1
    <3>2. CASE k \in 1..m
      <4>1. /\ f.called[k].priority <= list[i].priority
            /\ f.called[k].priority \in Int
        BY <1>2, <1>3, <1>9, <3>2
      <4> QED BY <1>1, <2>1, <4>1
    <3> QED BY <1>4, <3>1, <3>2
  <2>3. \A l \in 1..Len(list) : /\ Did(f, list[l].id) => l < j
                                /\ Owed(f, list[l].id) => j <= l
    BY <1>1, <1>17, <1>18, <2>1
  <2> QED BY <2>2, <2>3
<1>20. Expects(f, list)
  <2> SUFFICES ASSUME NEW j \in 1..Len(list), Owed(f, list[j].id)
               PROVE  f.next # NULL /\ list[i].priority <= list[j].priority
    BY <1>3 DEF Expects
  <2>1. i < j
    BY <1>18
  <2>2. i + 1 \in 1..Len(list) /\ f.next = list[i + 1].id
    BY <1>1, <2>1 DEF NextOf
  <2> QED BY <1>1, <1>7, <2>1, <2>2 DEF NULL
<1>21. f.called # <<>> /\ f.running = f.called[Len(f.called)].id
  <2>1. f.called # <<>>
    BY <1>1, <1>2, AppendProperties
  <2>2. f.running = f.called[m + 1].id
    BY <1>3
  <2> QED BY <1>3, <2>1, <2>2
<1>22. \A id \in f.due : id < n
  BY DEF Going
<1> QED BY <1>11, <1>12, <1>15, <1>19, <1>20, <1>21, <1>22 DEF Going

-----------------------------------------------------------------------------
(* The steps.                                                              *)

\* The parts of the state.
LEMMA StateIs ==
    ASSUME NEW x \in State
    PROVE  /\ x.registered \in BOOLEAN
           /\ x.handlers \in Seq(Handler)
           /\ x.next_handler_id \in 1..MaxIds + 1
           /\ x.next_handler_id \in Nat
           /\ x.stack \in Seq(Emission)
           /\ x.dangling \in BOOLEAN
           /\ x.reckless \in BOOLEAN
<1>1. x.next_handler_id \in 1..MaxIds + 1
  BY DEF State
<1>2. x.next_handler_id \in Nat
  BY <1>1, SignalsAssumption
<1> QED BY <1>1, <1>2 DEF State

\* The emission at the top.
LEMMA StackIs ==
    ASSUME NEW x \in State
    PROVE  /\ Len(x.stack) \in Nat
           /\ \A k \in 1..Len(x.stack) : x.stack[k] \in Emission
           /\ x.stack # <<>> => /\ Len(x.stack) \in 1..Len(x.stack)
                                /\ Last(x.stack) = x.stack[Len(x.stack)]
                                /\ Last(x.stack) \in Emission
<1>1. x.stack \in Seq(Emission)
  BY StateIs
<1>2. /\ Len(x.stack) \in Nat
      /\ \A k \in 1..Len(x.stack) : x.stack[k] \in Emission
      /\ x.stack # <<>> => Len(x.stack) \in 1..Len(x.stack)
  BY <1>1
<1> QED BY <1>2 DEF Last

\* The handler that runs is not the next.
LEMMA RunningIsNotNext ==
    ASSUME NEW e \in Emission, NEW list \in Seq(Handler), NEW n,
           Going(e, list, n), NEW i \in 1..Len(list), list[i].id = e.next
    PROVE  e.running # e.next
<1>1. Len(e.called) \in 1..Len(e.called)
  BY EmissionIs DEF Going
<1>2. Did(e, e.running)
  BY <1>1 DEF Did, Going
<1>3. ~(i < i)
  BY ListIs
<1> QED BY <1>2, <1>3 DEF Going, Follows

\* Disconnecting.
LEMMA WithoutSound ==
    ASSUME Sound(s), NEW gone, NEW u, u = Without(gone)
    PROVE  /\ Sound(u)
           /\ u.registered = s.registered
           /\ u.next_handler_id = s.next_handler_id
           /\ u.dangling = s.dangling
           /\ u.handlers = Staying(s.handlers, gone)
           /\ Len(u.stack) = Len(s.stack)
           /\ ~u.reckless => ~s.reckless
<1> DEFINE list == s.handlers
           n == s.next_handler_id
           e == Last(s.stack)
           fewer(k) == [s.stack[k] EXCEPT !.due = @ \ gone]
           new_list == Staying(list, gone)
           new_stack == [k \in DOMAIN s.stack |-> fewer(k)]
           new_reckless == s.reckless \/ (s.stack # <<>> /\ gone \ {e.running} # {})
<1>1. s \in State /\ Ordered(list) /\ Older(list, n)
  BY DEF Sound
<1>2. u = [s EXCEPT !.handlers = new_list, !.stack = new_stack,
                    !.reckless = new_reckless]
  BY DEF Without
<1>3. /\ new_list \in Seq(Handler)
      /\ Ordered(new_list) /\ Older(new_list, n)
      /\ Remains(list, new_list, n)
      /\ Leaves(list, gone, new_list, Len(list))
      /\ list = <<>> => new_list = <<>>
  <2>1. list \in Seq(Handler) /\ new_list = Staying(list, gone)
    BY <1>1, StateIs
  <2> HIDE DEF new_list, list, n
  <2> QED BY <1>1, <2>1, StayingRemains
<1>4. DOMAIN s.stack = 1..Len(s.stack) /\ Len(s.stack) \in Nat
  BY <1>1, StateIs
<1>5. ASSUME NEW k \in 1..Len(s.stack)
      PROVE  fewer(k) \in Emission /\ Going(fewer(k), new_list, n)
  <2>1. s.stack[k] \in Emission /\ Going(s.stack[k], list, n)
    BY <1>1, StackIs DEF Sound, Emitting
  <2>2. n \in Nat /\ list \in Seq(Handler)
    BY <1>1, StateIs
  <2>3. Going(s.stack[k], new_list, n)
    BY <1>3, <2>1, <2>2, GoingRemains
  <2> HIDE DEF new_list, n, list
  <2> QED BY <2>1, <2>3, GoingFewer
<1>6. new_stack \in [1..Len(s.stack) -> Emission]
  BY <1>4, <1>5
<1>7. /\ new_stack \in Seq(Emission) /\ Len(new_stack) = Len(s.stack)
      /\ \A k \in 1..Len(s.stack) : new_stack[k] = fewer(k)
  BY <1>4, <1>6
<1>8. new_reckless \in BOOLEAN
  BY <1>1, StateIs
<1> HIDE DEF new_list, new_stack, new_reckless, fewer
<1>9. /\ u.registered = s.registered
      /\ u.handlers = new_list
      /\ u.next_handler_id = n
      /\ u.stack = new_stack
      /\ u.dangling = s.dangling
      /\ u.reckless = new_reckless
      /\ u \in State
  BY <1>1, <1>2, <1>3, <1>7, <1>8 DEF State
<1>10. Emitting(u.stack, u.handlers, u.next_handler_id)
  BY <1>5, <1>7, <1>9 DEF Emitting
<1>11. Careful(u)
  <2> SUFFICES ASSUME ~u.reckless
               PROVE  /\ ~u.dangling
                      /\ Len(u.stack) <= 1
                      /\ \A k \in 1..Len(u.stack) :
                            /\ u.registered
                            /\ u.stack[k].next # NULL =>
                                  \E i \in 1..Len(u.handlers) :
                                      u.handlers[i].id = u.stack[k].next
    BY DEF Careful, Attended
  <2>1. ~s.reckless /\ (s.stack = <<>> \/ gone \subseteq {e.running})
    BY <1>9 DEF new_reckless
  <2>2. ~s.dangling /\ Len(s.stack) <= 1
    BY <2>1 DEF Sound, Careful, Attended
  <2>3. ASSUME NEW k \in 1..Len(s.stack)
        PROVE  /\ s.registered
               /\ new_stack[k].next # NULL =>
                     \E i \in 1..Len(new_list) : new_list[i].id = new_stack[k].next
    <3>1. /\ s.registered
          /\ s.stack[k].next # NULL =>
                \E i \in 1..Len(list) : list[i].id = s.stack[k].next
      BY <2>1 DEF Sound, Careful, Attended
    <3>2. s.stack # <<>> /\ k = Len(s.stack) /\ s.stack[k] = e
      BY <1>4, <2>2 DEF Last
    <3>3. gone \subseteq {e.running}
      BY <2>1, <3>2
    <3>4. new_stack[k].next = e.next
      <4>1. s.stack[k] \in Emission
        BY <1>1, StackIs
      <4> QED BY <1>7, <3>2, <4>1 DEF fewer, Emission
    <3>5. ASSUME e.next # NULL
          PROVE  \E i \in 1..Len(new_list) : new_list[i].id = e.next
      <4>1. PICK i \in 1..Len(list) : list[i].id = e.next
        BY <3>1, <3>2, <3>5
      <4>2. e \in Emission /\ Going(e, list, n) /\ list \in Seq(Handler)
        BY <1>1, <3>2, StackIs, StateIs DEF Sound, Emitting
      <4>3. e.running # e.next
        <5> HIDE DEF e, list, n
        <5> QED BY <4>1, <4>2, RunningIsNotNext
      <4>4. list[i].id \notin gone
        BY <3>3, <4>1, <4>3
      <4>5. PICK j \in 1..Len(new_list) : new_list[j] = list[i]
        BY <1>3, <4>4 DEF Leaves
      <4> QED BY <4>1, <4>5
    <3> QED BY <3>1, <3>4, <3>5
  <2> QED BY <1>7, <1>9, <2>2, <2>3
<1>12. Sound(u)
  BY <1>3, <1>9, <1>10, <1>11 DEF Sound
<1>13. ~u.reckless => ~s.reckless
  BY <1>9 DEF new_reckless
<1> QED BY <1>7, <1>9, <1>12, <1>13 DEF new_list

\* signal_connect_common.
LEMMA ConnectSound ==
    ASSUME Sound(s), NEW handle \in Handles, NEW func \in Funcs,
           NEW priority \in Priorities, Connect(handle, func, priority)
    PROVE  Sound(s') /\ Len(s'.stack) = Len(s.stack)
<1> DEFINE list == s.handlers
           n == s.next_handler_id
           h == [id |-> n, handle |-> handle, func |-> func, priority |-> priority]
           new_list == Inserted(list, h)
           u == s'
<1>1. s \in State /\ Ordered(list) /\ Older(list, n)
  BY DEF Sound
<1>2. u = [s EXCEPT !.handlers = new_list, !.next_handler_id = @ + 1]
  BY DEF Connect
<1>3. s.registered /\ n <= MaxIds
  BY DEF Connect
<1>4. n \in Nat /\ n \in 1..MaxIds + 1 /\ list \in Seq(Handler)
  BY <1>1, StateIs
<1>5. n \in Ids /\ n + 1 \in 1..MaxIds + 1
  BY <1>3, <1>4, SignalsAssumption DEF Ids
<1>6. h \in Handler /\ h.id = n
  BY <1>5 DEF Handler
<1> HIDE DEF h
<1>7. /\ new_list \in Seq(Handler)
      /\ Ordered(new_list) /\ Older(new_list, n + 1)
      /\ Remains(list, new_list, n)
      /\ \A k \in 1..Len(list) : \E j \in 1..Len(new_list) : new_list[j] = list[k]
  BY <1>1, <1>4, <1>6, InsertedRemains
<1> HIDE DEF new_list, u
<1>8. /\ u.registered = s.registered
      /\ u.handlers = new_list
      /\ u.next_handler_id = n + 1
      /\ u.stack = s.stack
      /\ u.dangling = s.dangling
      /\ u.reckless = s.reckless
      /\ u \in State
  BY <1>1, <1>2, <1>5, <1>7 DEF State
<1>9. Emitting(s.stack, new_list, n + 1)
  <2> SUFFICES ASSUME NEW k \in 1..Len(s.stack)
               PROVE  Going(s.stack[k], new_list, n + 1)
    BY DEF Emitting
  <2>1. s.stack[k] \in Emission /\ Going(s.stack[k], list, n)
    BY <1>1, StackIs DEF Sound, Emitting
  <2>2. n + 1 \in Nat /\ n <= n + 1
    BY <1>4
  <2> HIDE DEF list, n
  <2> QED BY <1>4, <1>7, <2>1, <2>2, GoingRemains
<1>10. Careful(u)
  <2> SUFFICES ASSUME ~s.reckless, NEW k \in 1..Len(s.stack),
                      s.stack[k].next # NULL
               PROVE  \E i \in 1..Len(new_list) : new_list[i].id = s.stack[k].next
    BY <1>8 DEF Sound, Careful, Attended
  <2>1. PICK i \in 1..Len(list) : list[i].id = s.stack[k].next
    BY DEF Sound, Careful, Attended
  <2>2. PICK j \in 1..Len(new_list) : new_list[j] = list[i]
    BY <1>7
  <2> QED BY <2>1, <2>2
<1> QED BY <1>3, <1>7, <1>8, <1>9, <1>10 DEF Sound, u

\* purple_signal_disconnect.
LEMMA DisconnectSound ==
    ASSUME Sound(s), NEW handle \in Handles, NEW func \in Funcs,
           Disconnect(handle, func)
    PROVE  Sound(s') /\ Len(s'.stack) = Len(s.stack)
<1>1. PICK i \in DOMAIN s.handlers : s' = Without({s.handlers[i].id})
  BY DEF Disconnect
<1> QED BY <1>1, WithoutSound

\* purple_signals_disconnect_by_handle.
LEMMA DisconnectByHandleSound ==
    ASSUME Sound(s), NEW handle \in Handles, DisconnectByHandle(handle)
    PROVE  Sound(s') /\ Len(s'.stack) = Len(s.stack)
<1>1. PICK gone : s' = Without(gone)
  BY DEF DisconnectByHandle
<1> QED BY <1>1, WithoutSound

\* purple_signal_unregister.
LEMMA UnregisterSound ==
    ASSUME Sound(s), Unregister
    PROVE  Sound(s') /\ Len(s'.stack) = Len(s.stack)
<1> DEFINE list == s.handlers
           gone == IdsOf(list)
           w == Without(gone)
           new_reckless == s.reckless \/ s.stack # <<>>
           u == s'
<1>1. s \in State /\ Ordered(list) /\ Older(list, s.next_handler_id)
  BY DEF Sound
<1>2. u = [w EXCEPT !.registered = FALSE, !.reckless = new_reckless]
  BY DEF Unregister
<1>3. ~s.dangling
  BY DEF Unregister, Alive
<1> HIDE DEF gone
<1>4. /\ Sound(w) /\ w \in State
      /\ w.dangling = s.dangling
      /\ w.handlers = Staying(list, gone)
      /\ Len(w.stack) = Len(s.stack)
  BY WithoutSound DEF Sound
<1> HIDE DEF w
<1>5. w.handlers = <<>>
  <2>1. list \in Seq(Handler) /\ w.handlers \in Seq(Handler)
    BY <1>1, <1>4, StateIs
  <2>2. \A i \in 1..Len(w.handlers) :
           /\ w.handlers[i].id \notin gone
           /\ \E k \in 1..Len(list) : w.handlers[i] = list[k]
    <3> DEFINE v == w.handlers
               n == s.next_handler_id
    <3>1. /\ list \in Seq(Handler) /\ v = Staying(list, gone)
          /\ Ordered(list) /\ Older(list, n)
      BY <1>1, <1>4, <2>1
    <3> HIDE DEF list, v, n
    <3>2. Leaves(list, gone, v, Len(list))
      BY <3>1, StayingRemains
    <3> QED BY <3>2 DEF v, Leaves
  <2>3. \A k \in 1..Len(list) : list[k].id \in gone
    BY <2>1 DEF gone, IdsOf, ToSet
  <2>4. Len(w.handlers) # 0 => 1 \in 1..Len(w.handlers)
    BY <2>1
  <2> QED BY <2>1, <2>2, <2>3, <2>4
<1>6. new_reckless \in BOOLEAN
  BY <1>1, StateIs
<1> HIDE DEF new_reckless, u
<1>7. /\ u.registered = FALSE
      /\ u.handlers = w.handlers
      /\ u.next_handler_id = w.next_handler_id
      /\ u.stack = w.stack
      /\ u.dangling = w.dangling
      /\ u.reckless = new_reckless
      /\ u \in State
  BY <1>2, <1>4, <1>6 DEF State
<1>8. Careful(u)
  <2> SUFFICES ASSUME ~u.reckless PROVE ~u.dangling /\ Len(u.stack) = 0
    BY DEF Careful, Attended
  <2>1. s.stack = <<>>
    BY <1>7 DEF new_reckless
  <2> QED BY <1>3, <1>4, <1>7, <2>1
<1> QED BY <1>4, <1>5, <1>7, <1>8 DEF Sound, u

\* u differs from s in its stack and flags at most.
Turned(u, stack, dangling, reckless) ==
    u = [s EXCEPT !.stack = stack, !.dangling = dangling, !.reckless = reckless]

\* A state whose stack or flags change, and nothing else.
LEMMA SoundIf ==
    ASSUME Sound(s), NEW stack \in Seq(Emission), NEW dangling \in BOOLEAN,
           NEW reckless \in BOOLEAN, NEW u,
           Turned(u, stack, dangling, reckless),
           Emitting(stack, s.handlers, s.next_handler_id),
           ~reckless => ~dangling /\ Attended(stack, s.registered, s.handlers)
    PROVE  Sound(u) /\ u.stack = stack
<1>1. s \in State
  BY DEF Sound
<1>2. /\ u.registered = s.registered
      /\ u.handlers = s.handlers
      /\ u.next_handler_id = s.next_handler_id
      /\ u.stack = stack
      /\ u.dangling = dangling
      /\ u.reckless = reckless
      /\ u \in State
  BY <1>1 DEF State, Turned
<1>3. Careful(u)
  BY <1>2 DEF Careful
<1>4. /\ Ordered(s.handlers) /\ Older(s.handlers, s.next_handler_id)
      /\ ~s.registered => s.handlers = <<>>
  BY DEF Sound
<1> QED BY <1>2, <1>3, <1>4 DEF Sound

\* purple_signal_emit and purple_signal_emit_return_1, to the first call.
LEMMA EmitSound ==
    ASSUME Sound(s), NEW return_1 \in BOOLEAN, Emit(return_1)
    PROVE  Sound(s') /\ Len(s'.stack) = Len(s.stack) + 1
<1> DEFINE list == s.handlers
           n == s.next_handler_id
           h == Head(list)
           e == [running |-> h.id, next |-> NextOf(list, 1),
                 return_1 |-> return_1, due |-> IdsOf(list), called |-> <<h>>]
           m == Len(s.stack)
           new_stack == Append(s.stack, e)
           new_reckless == s.reckless \/ s.stack # <<>>
           u == s'
<1>1. s \in State /\ Ordered(list) /\ Older(list, n)
  BY DEF Sound
<1>2. u = [s EXCEPT !.stack = new_stack, !.reckless = new_reckless]
  BY DEF Emit
<1>3. list # <<>> /\ ~s.dangling
  BY DEF Emit, Alive
<1>4. /\ list \in Seq(Handler) /\ n \in Nat /\ s.stack \in Seq(Emission)
      /\ s.dangling \in BOOLEAN
  BY <1>1, StateIs
<1>5. Len(list) \in Nat /\ 1 \in 1..Len(list) /\ h = list[1] /\ h \in Handler
  BY <1>3, <1>4
<1>6. NextOf(list, 1) \in Ids \cup {NULL}
  <2>1. CASE 1 < Len(list)
    <3>1. 2 \in 1..Len(list)
      BY <1>5, <2>1
    <3>2. list[2] \in Handler
      BY <1>4, <3>1
    <3> QED BY <2>1, <3>2 DEF NextOf, Handler
  <2>2. CASE ~(1 < Len(list))
    BY <2>2 DEF NextOf
  <2> QED BY <2>1, <2>2
<1>7. \A id \in IdsOf(list) : \E i \in 1..Len(list) : list[i].id = id
  BY <1>4 DEF IdsOf, ToSet
<1>8. IdsOf(list) \in SUBSET Ids
  <2>1. \A i \in 1..Len(list) : list[i] \in Handler
    BY <1>4
  <2>2. \A i \in 1..Len(list) : list[i].id \in Ids
    BY <2>1 DEF Handler
  <2> QED BY <1>7, <2>2
<1>9. <<h>> \in Seq(Handler)
  BY <1>5
<1>10. h.id \in Ids
  BY <1>5 DEF Handler
<1>11. e \in Emission
  BY <1>6, <1>8, <1>9, <1>10 DEF Emission
<1>12. /\ e.running = list[1].id /\ e.next = NextOf(list, 1)
       /\ e.called = <<list[1]>> /\ e.due = IdsOf(list)
  BY <1>5
<1> HIDE DEF e
<1>13. Going(e, list, n)
  <2> HIDE DEF list, n
  <2> QED BY <1>1, <1>3, <1>4, <1>7, <1>11, <1>12, GoingFirst
<1>14. /\ new_stack \in Seq(Emission) /\ Len(new_stack) = m + 1 /\ m \in Nat
       /\ new_stack[m + 1] = e
       /\ \A k \in 1..m : new_stack[k] = s.stack[k]
  BY <1>4, <1>11
<1>15. \A k \in 1..m + 1 : k \in 1..m \/ k = m + 1
  BY <1>14
<1>16. Emitting(new_stack, list, n)
  BY <1>13, <1>14, <1>15 DEF Sound, Emitting
<1>17. new_reckless \in BOOLEAN
  BY <1>1, StateIs
<1>18. ~new_reckless => ~s.dangling /\ Attended(new_stack, s.registered, list)
  <2> SUFFICES ASSUME ~new_reckless PROVE Attended(new_stack, s.registered, list)
    BY <1>3
  <2>1. s.stack = <<>> /\ m = 0
    OBVIOUS
  <2>2. Len(new_stack) = 1 /\ new_stack[1] = e
    BY <1>14, <2>1
  <2>3. s.registered
    BY <1>3 DEF Sound
  <2>4. e.next # NULL => 2 \in 1..Len(list) /\ list[2].id = e.next
    BY <1>5, <1>12 DEF NextOf
  <2> HIDE DEF new_stack
  <2> QED BY <2>2, <2>3, <2>4 DEF Attended
<1>19. Turned(u, new_stack, s.dangling, new_reckless)
  BY <1>1, <1>2 DEF State, Turned
<1> HIDE DEF new_stack, new_reckless, u
<1>20. Sound(u) /\ u.stack = new_stack
  BY <1>4, <1>14, <1>16, <1>17, <1>18, <1>19, SoundIf
<1> QED BY <1>14, <1>20 DEF u

\* An emission that ends.
LEMMA FinishedSound ==
    ASSUME Sound(s), s.stack # <<>>, NEW u, u = Finished, ~s.dangling
    PROVE  Sound(u)
<1> DEFINE m == Len(s.stack)
           new_stack == Front(s.stack)
<1>1. s \in State
  BY DEF Sound
<1>2. /\ s.stack \in Seq(Emission) /\ s.dangling \in BOOLEAN
      /\ s.reckless \in BOOLEAN
  BY <1>1, StateIs
<1>3. m \in Nat /\ m # 0
  BY <1>2
<1>4. /\ new_stack \in Seq(Emission) /\ Len(new_stack) = m - 1
      /\ \A k \in 1..m - 1 : new_stack[k] = s.stack[k]
  BY <1>2, <1>3 DEF Front
<1>5. \A k \in 1..m - 1 : k \in 1..m
  BY <1>3
<1>6. Emitting(new_stack, s.handlers, s.next_handler_id)
  BY <1>4, <1>5 DEF Sound, Emitting
<1>7. ~s.reckless =>
         ~s.dangling /\ Attended(new_stack, s.registered, s.handlers)
  <2> SUFFICES ASSUME ~s.reckless
               PROVE  ~s.dangling /\ Attended(new_stack, s.registered, s.handlers)
    OBVIOUS
  <2>1. ~s.dangling /\ m <= 1
    BY DEF Sound, Careful, Attended
  <2> HIDE DEF new_stack, m
  <2>2. Len(new_stack) = 0
    BY <1>3, <1>4, <2>1
  <2> QED BY <2>1, <2>2 DEF Attended
<1>8. Turned(u, new_stack, s.dangling, s.reckless)
  BY <1>1 DEF Finished, State, Turned
<1> HIDE DEF new_stack, m
<1> QED BY <1>2, <1>4, <1>6, <1>7, <1>8, SoundIf

\* Freed memory was used.
LEMMA DanglingSound ==
    ASSUME Sound(s), s.reckless, NEW u, u = [s EXCEPT !.dangling = TRUE]
    PROVE  Sound(u) /\ u.stack = s.stack
<1>1. s \in State
  BY DEF Sound
<1>2. s.stack \in Seq(Emission) /\ s.reckless \in BOOLEAN
  BY <1>1, StateIs
<1>3. Emitting(s.stack, s.handlers, s.next_handler_id)
  BY DEF Sound
<1>4. Turned(u, s.stack, TRUE, s.reckless)
  BY <1>1 DEF State, Turned
<1> QED BY <1>2, <1>3, <1>4, SoundIf

\* An emission that calls its next handler, or uses freed memory.
LEMMA CalledSound ==
    ASSUME Sound(s), s.stack # <<>>, ~s.dangling, Last(s.stack).next # NULL,
           NEW u, u = Called(Last(s.stack))
    PROVE  Sound(u) /\ Len(u.stack) = Len(s.stack)
<1> DEFINE list == s.handlers
           n == s.next_handler_id
           m == Len(s.stack)
           e == Last(s.stack)
<1>1. s \in State /\ Ordered(list) /\ Older(list, n)
  BY DEF Sound
<1>2. /\ list \in Seq(Handler) /\ n \in Nat /\ s.stack \in Seq(Emission)
      /\ s.dangling \in BOOLEAN /\ s.reckless \in BOOLEAN
  BY <1>1, StateIs
<1>3. m \in 1..m /\ m \in Nat /\ e = s.stack[m] /\ e \in Emission
  BY <1>1, StackIs
<1>4. IdsOf(list) = {list[i].id : i \in 1..Len(list)}
  BY <1>2 DEF IdsOf, ToSet
<1>5. CASE e.next \notin IdsOf(list)
  <2>1. u = [s EXCEPT !.dangling = TRUE]
    BY <1>5 DEF Called
  <2>2. s.reckless
    <3> SUFFICES ASSUME ~s.reckless PROVE FALSE
      BY <1>2
    <3>1. \E i \in 1..Len(list) : list[i].id = e.next
      BY <1>3 DEF Sound, Careful, Attended
    <3> QED BY <1>4, <1>5, <3>1
  <2> QED BY <2>1, <2>2, DanglingSound
<1>6. CASE e.next \in IdsOf(list)
  <2> DEFINE i == Position(list, e.next)
             f == [e EXCEPT !.running = e.next, !.next = NextOf(list, i),
                            !.called = Append(@, list[i])]
             new_stack == [s.stack EXCEPT ![m] = f]
  <2>1. i \in 1..Len(list) /\ list[i].id = e.next
    <3>1. \E j \in 1..Len(list) : list[j].id = e.next
      BY <1>4, <1>6
    <3>2. DOMAIN list = 1..Len(list)
      BY <1>2
    <3> QED BY <3>1, <3>2 DEF Position
  <2>2. u = [s EXCEPT !.stack = new_stack]
    BY <1>1, <1>6 DEF Called, State
  <2> HIDE DEF i
  <2>3. Len(list) \in Nat /\ list[i] \in Handler
    BY <1>2, <2>1
  <2>4. NextOf(list, i) \in Ids \cup {NULL}
    <3>1. CASE i < Len(list)
      <4>1. i + 1 \in 1..Len(list)
        BY <2>1, <2>3, <3>1
      <4>2. list[i + 1] \in Handler
        BY <1>2, <4>1
      <4> QED BY <3>1, <4>2 DEF NextOf, Handler
    <3>2. CASE ~(i < Len(list))
      BY <3>2 DEF NextOf
    <3> QED BY <3>1, <3>2
  <2>5. e.called \in Seq(Handler)
    BY <1>3, EmissionIs
  <2>6. Append(e.called, list[i]) \in Seq(Handler)
    BY <2>3, <2>5
  <2>7. e.next \in Ids
    BY <2>1, <2>3 DEF Handler
  <2> HIDE DEF e
  <2>8. /\ f.running = e.next /\ f.next = NextOf(list, i) /\ f.due = e.due
        /\ f.called = Append(e.called, list[i])
        /\ f \in Emission
    BY <1>3, <2>4, <2>6, <2>7 DEF Emission
  <2> HIDE DEF f
  <2>9. Going(f, list, n)
    <3>1. Going(e, list, n)
      BY <1>3 DEF Sound, Emitting
    <3> HIDE DEF list, n
    <3> QED BY <1>1, <1>2, <1>3, <2>1, <2>8, <3>1, GoingOn
  <2>10. /\ new_stack \in Seq(Emission) /\ Len(new_stack) = m
         /\ new_stack[m] = f
         /\ \A k \in 1..m : k # m => new_stack[k] = s.stack[k]
    BY <1>2, <1>3, <2>8
  <2> HIDE DEF new_stack
  <2>11. Emitting(new_stack, list, n)
    BY <2>9, <2>10 DEF Sound, Emitting
  <2>12. ~s.reckless => ~s.dangling /\ Attended(new_stack, s.registered, list)
    <3> SUFFICES ASSUME ~s.reckless
                 PROVE  /\ m <= 1 /\ s.registered
                        /\ f.next # NULL =>
                              \E j \in 1..Len(list) : list[j].id = f.next
      <4>1. m <= 1 => \A k \in 1..m : k = m
        BY <1>3
      <4> QED BY <2>10, <4>1 DEF Attended
    <3>1. m <= 1 /\ s.registered
      BY <1>3 DEF Sound, Careful, Attended
    <3>2. f.next # NULL => i + 1 \in 1..Len(list) /\ f.next = list[i + 1].id
      BY <2>1, <2>3, <2>8 DEF NextOf
    <3> QED BY <3>1, <3>2
  <2>13. Turned(u, new_stack, s.dangling, s.reckless)
    BY <1>1, <2>2 DEF State, Turned
  <2>14. Sound(u) /\ u.stack = new_stack
    BY <1>2, <2>10, <2>11, <2>12, <2>13, SoundIf
  <2> QED BY <2>10, <2>14
<1> QED BY <1>5, <1>6

\* The call returns.
LEMMA ReturnSound ==
    ASSUME Sound(s), NEW value \in BOOLEAN, Return(value)
    PROVE  Sound(s')
<1> DEFINE e == Last(s.stack)
<1>1. s \in State /\ ~s.dangling /\ s.stack # <<>>
  BY DEF Return, Alive, Sound
<1>2. \/ s' = Finished
      \/ e.next # NULL /\ s' = Called(e)
      \/ ~s.registered /\ s' = [s EXCEPT !.dangling = TRUE]
  BY DEF Return
<1>3. CASE s' = Finished
  BY <1>1, <1>3, FinishedSound
<1>4. CASE e.next # NULL /\ s' = Called(e)
  BY <1>1, <1>4, CalledSound
<1>5. CASE ~s.registered /\ s' = [s EXCEPT !.dangling = TRUE]
  <2>1. s.reckless
    <3> SUFFICES ASSUME ~s.reckless PROVE FALSE
      BY <1>1, StateIs
    <3>1. Len(s.stack) \in 1..Len(s.stack)
      BY <1>1, StackIs
    <3> QED BY <1>5, <3>1 DEF Sound, Careful, Attended
  <2> QED BY <1>5, <2>1, DanglingSound
<1> QED BY <1>2, <1>3, <1>4, <1>5

-----------------------------------------------------------------------------
(* The theorems.                                                           *)

\* Nothing is connected and nothing emitted at first.
LEMMA InitSound ==
    ASSUME Init
    PROVE  IInv
<1>1. s \in State
  BY SignalsAssumption DEF Init, State
<1>2. /\ s.registered = TRUE /\ s.handlers = <<>> /\ s.stack = <<>>
      /\ s.dangling = FALSE /\ s.reckless = FALSE
  BY DEF Init
<1>3. Len(<<>>) = 0
  OBVIOUS
<1>4. /\ Ordered(s.handlers) /\ Older(s.handlers, s.next_handler_id)
      /\ Emitting(s.stack, s.handlers, s.next_handler_id)
  BY <1>2, <1>3 DEF Ordered, Older, Emitting
<1>5. Careful(s)
  BY <1>2, <1>3 DEF Careful, Attended
<1> QED BY <1>1, <1>2, <1>4, <1>5 DEF IInv, Sound

\* Every step keeps the invariant, and only a return shortens the stack.
LEMMA NextSound ==
    ASSUME IInv, Next
    PROVE  /\ IInv'
           /\ Len(s'.stack) < Len(s.stack) => \E value \in BOOLEAN : Return(value)
<1>1. Sound(s) /\ Len(s.stack) \in Nat
  BY StackIs DEF IInv, Sound
<1>2. CASE \E handle \in Handles, func \in Funcs, priority \in Priorities :
              Connect(handle, func, priority)
  BY <1>1, <1>2, ConnectSound DEF IInv
<1>3. CASE \E handle \in Handles, func \in Funcs : Disconnect(handle, func)
  BY <1>1, <1>3, DisconnectSound DEF IInv
<1>4. CASE \E handle \in Handles : DisconnectByHandle(handle)
  BY <1>1, <1>4, DisconnectByHandleSound DEF IInv
<1>5. CASE Unregister
  BY <1>1, <1>5, UnregisterSound DEF IInv
<1>6. CASE \E return_1 \in BOOLEAN : Emit(return_1)
  BY <1>1, <1>6, EmitSound DEF IInv
<1>7. CASE \E value \in BOOLEAN : Return(value)
  BY <1>1, <1>7, ReturnSound DEF IInv
<1> QED BY <1>2, <1>3, <1>4, <1>5, <1>6, <1>7 DEF Next

\* The invariant.
LEMMA Invariance == Spec => []IInv
<1>1. IInv /\ [Next]_s => IInv'
  <2> SUFFICES ASSUME IInv, [Next]_s PROVE IInv'
    OBVIOUS
  <2>1. CASE Next
    BY <2>1, NextSound
  <2>2. CASE UNCHANGED s
    BY <2>2 DEF IInv
  <2> QED BY <2>1, <2>2
<1> QED BY <1>1, InitSound, PTL DEF Spec

\* The type invariant: the list, the ids and the emissions in progress are what
\* signals.c declares them to be, and no two handlers have the same id.
THEOREM TypeCorrect == Spec => []TypeOK
<1>1. ASSUME IInv PROVE TypeOK
  <2>1. s \in State /\ Ordered(s.handlers)
    BY <1>1 DEF IInv, Sound
  <2>2. DOMAIN s.handlers = 1..Len(s.handlers) /\ Len(s.handlers) \in Nat
    BY <2>1, StateIs
  <2>3. ASSUME NEW i \in DOMAIN s.handlers, NEW j \in DOMAIN s.handlers,
               s.handlers[i].id = s.handlers[j].id
        PROVE  i = j
    <3>1. ~(i < j) /\ ~(j < i)
      BY <2>1, <2>2, <2>3 DEF Ordered
    <3> QED BY <2>2, <3>1
  <2> QED BY <2>1, <2>3 DEF TypeOK
<1> QED BY <1>1, Invariance, PTL

\* purple_signal_emit_vargs calls handlers in ascending order of priority and none
\* twice, whatever they connect, disconnect and emit while they are called.
THEOREM OrderIsKept == Spec => []CalledInOrder
<1>1. ASSUME IInv PROVE CalledInOrder
  <2>1. s \in State /\ s.stack \in Seq(Emission)
    BY <1>1, StateIs DEF IInv, Sound
  <2> SUFFICES ASSUME NEW e \in ToSet(s.stack),
                      NEW i \in DOMAIN e.called, NEW j \in DOMAIN e.called, i < j
               PROVE  /\ e.called[i].priority <= e.called[j].priority
                      /\ e.called[i].id # e.called[j].id
    BY DEF CalledInOrder
  <2>2. PICK k \in 1..Len(s.stack) : e = s.stack[k]
    BY <2>1 DEF ToSet
  <2>3. e \in Emission /\ Ordered(e.called)
    BY <1>1, <2>1, <2>2, StackIs DEF IInv, Sound, Emitting, Going
  <2>4. DOMAIN e.called = 1..Len(e.called)
    BY <2>3, EmissionIs
  <2> QED BY <2>3, <2>4 DEF Ordered
<1> QED BY <1>1, Invariance, PTL

\* Handlers that disconnect only themselves, connect what they like and leave the
\* signal alone never make an emission use freed memory: purple_signal_emit_vargs
\* has remembered the next node, and that is still there.
THEOREM SelfDisconnectSafe == Spec => []SelfDisconnectIsSafe
<1>1. ASSUME IInv PROVE SelfDisconnectIsSafe
  <2>1. s.reckless \in BOOLEAN
    BY <1>1, StateIs DEF IInv, Sound
  <2> QED BY <1>1, <2>1 DEF IInv, Sound, Careful, SelfDisconnectIsSafe
<1> QED BY <1>1, Invariance, PTL

\* An emission that ends has called every handler connected all the while; one that
\* a handler of purple_signal_emit_return_1 answered, those of smaller priority.
THEOREM NobodyIsLeftOut == Spec => EverybodyIsCalled
<1> DEFINE e == Last(s.stack)
           missed == e.due \ {h.id : h \in ToSet(e.called)}
           Answered == \A h \in ToSet(s.handlers) : h.id \in missed =>
                          /\ e.return_1 /\ e.next # NULL
                          /\ h.priority >= Last(e.called).priority
           Ends == Len(s'.stack) < Len(s.stack)
<1>1. ASSUME IInv, Next, Ends PROVE Answered
  <2>1. PICK value \in BOOLEAN : Return(value)
    BY <1>1, NextSound
  <2>2. s \in State /\ s.stack # <<>>
    BY <1>1, <2>1 DEF IInv, Sound, Return
  <2>3. /\ Len(s.stack) \in 1..Len(s.stack) /\ Len(s.stack) \in Nat
        /\ e = s.stack[Len(s.stack)] /\ e \in Emission
    BY <2>2, StackIs
  <2>4. Going(e, s.handlers, s.next_handler_id)
    BY <1>1, <2>3 DEF IInv, Sound, Emitting
  <2>5. e.called \in Seq(Handler) /\ e.called # <<>>
    BY <2>3, <2>4, EmissionIs DEF Going
  <2>6. s.handlers \in Seq(Handler)
    BY <2>2, StateIs
  \* An emission that goes on, or breaks off, keeps its place on the stack.
  <2>7. (value /\ e.return_1) \/ e.next = NULL
    <3> SUFFICES ASSUME ~(value /\ e.return_1), e.next # NULL PROVE FALSE
      OBVIOUS
    <3>1. s' = Called(e)
      BY <2>1 DEF Return
    <3>2. ~s.dangling
      BY <2>1 DEF Return, Alive
    <3>3. Len(s'.stack) = Len(s.stack)
      BY <1>1, <2>2, <3>1, <3>2, CalledSound DEF IInv
    <3> QED BY <1>1, <2>3, <3>3
  <2> SUFFICES ASSUME NEW h \in ToSet(s.handlers), h.id \in missed
               PROVE  /\ e.return_1 /\ e.next # NULL
                      /\ h.priority >= Last(e.called).priority
    OBVIOUS
  <2>8. PICK i \in 1..Len(s.handlers) : h = s.handlers[i]
    BY <2>6 DEF ToSet
  <2>9. Owed(e, h.id)
    <3>1. \A k \in 1..Len(e.called) : e.called[k] \in ToSet(e.called)
      BY <2>5 DEF ToSet
    <3> HIDE DEF e
    <3> QED BY <3>1 DEF Owed, Did
  <2>10. e.next # NULL /\ e.called[Len(e.called)].priority <= h.priority
    BY <2>4, <2>8, <2>9 DEF Going, Expects
  <2>11. /\ e.called[Len(e.called)].priority \in Int /\ h.priority \in Int
         /\ Last(e.called) = e.called[Len(e.called)]
    <3>1. Len(e.called) \in 1..Len(e.called)
      BY <2>5
    <3> QED BY <2>5, <2>6, <2>8, <3>1, ListIs DEF Last
  <2> QED BY <2>7, <2>10, <2>11
<1>2. ASSUME IInv, [Next]_s PROVE [Ends => Answered]_s
  BY <1>1, <1>2
<1>3. [][Ends => Answered]_s <=> EverybodyIsCalled
  BY DEF EverybodyIsCalled
<1> QED BY <1>2, <1>3, Invariance, PTL DEF Spec
=============================================================================

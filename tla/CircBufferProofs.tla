-------------------------- MODULE CircBufferProofs --------------------------
(***************************************************************************)
(* Proofs about CircBuffer.  For every growth step, every byte set and     *)
(* every bound, a buffer whose chunks fit the growth step keeps its        *)
(* pointers and its count in agreement and is a FIFO of bytes.             *)
(***************************************************************************)
EXTENDS CircBuffer, TLAPS

\* TypeOK, PointersAgree and NoJunkRead of an arbitrary buffer b, and that its
\* memory, once it has any, is at least one growth step: what makes a chunk of
\* one step fit a drained buffer without growing it.
Good(b) ==
    /\ b.buflen \in Nat
    /\ b.bufused \in 0..b.buflen
    /\ b.inptr \in 0..b.buflen
    /\ b.outptr \in 0..b.buflen
    /\ b.buflen > 0 => b.outptr < b.buflen
    /\ b.buffer \in [0..(b.buflen - 1) -> Bytes \cup {Junk}]
    /\ b.buflen = 0 \/ b.buflen >= GrowSize
    /\ \/ b.inptr = b.outptr + b.bufused
       \/ b.inptr = b.outptr + b.bufused - b.buflen
       \/ b.bufused = 0 /\ b.outptr = 0 /\ b.inptr = b.buflen
    /\ \A i \in 0..(b.bufused - 1) : b.buffer[Slot(b, i)] \in Bytes

\* The loop of grow_circ_buffer ends with room for the chunk.
LEMMA DivCeil ==
    ASSUME NEW n \in Nat, NEW d \in Nat \ {0}
    PROVE  n \div d \in Nat /\ (n \div d) * d > n - d
  OBVIOUS

\* grow_circ_buffer ends longer, by at least a step, and with room for the chunk.
LEMMA GrownLenFits ==
    ASSUME NEW b, b.buflen \in Nat, b.bufused \in Nat, NEW len \in Nat,
           b.buflen - b.bufused < len
    PROVE  /\ GrownLen(b, len) \in Nat
           /\ GrownLen(b, len) >= b.bufused + len
           /\ GrownLen(b, len) > b.buflen
           /\ GrownLen(b, len) >= GrowSize
<1> DEFINE missing == b.bufused + len - b.buflen
           n == missing + GrowSize - 1
           k == n \div GrowSize
<1>1. missing \in Nat \ {0} /\ n \in Nat
  BY GrowSizeAssumption
<1>2. k \in Nat /\ k * GrowSize > n - GrowSize
  BY <1>1, DivCeil, GrowSizeAssumption
<1> HIDE DEF k
<1>3. k * GrowSize \in Nat
  BY <1>2, GrowSizeAssumption
<1>4. k # 0
  <2>1. k = 0 => k * GrowSize = 0
    BY GrowSizeAssumption
  <2> QED BY <2>1, <1>1, <1>2, GrowSizeAssumption
<1>5. k * GrowSize >= GrowSize
  BY <1>2, <1>4, GrowSizeAssumption
<1>6. GrownLen(b, len) = b.buflen + k * GrowSize
  BY DEF GrownLen, k
<1> HIDE DEF n
<1>7. QED
  BY <1>1, <1>2, <1>3, <1>5, <1>6, GrowSizeAssumption DEF n

\* Arithmetic of a wrapped ring: where an unread byte before the end of the
\* memory, or behind it, stands in memory that grew.
LEMMA BeforeTheEnd ==
    ASSUME NEW in \in Nat, NEW out \in Nat, NEW used \in Nat, NEW len \in Nat,
           NEW newlen \in Nat, NEW shift \in Nat, NEW i \in 0..(used - 1),
           in = out + used - len, used <= len, len < newlen, out + i < len
    PROVE  out + i \in 0..(newlen - 1) /\ out + i >= in - shift
<1>1. in <= out
  OBVIOUS
<1>2. out + i \in Nat /\ out + i >= out
  OBVIOUS
<1> QED BY <1>1, <1>2

\* And one that wraps stands before inptr.
LEMMA BehindTheEnd ==
    ASSUME NEW in \in Nat, NEW out \in Nat, NEW used \in Nat, NEW len \in Nat,
           NEW i \in 0..(used - 1),
           in = out + used - len, used <= len, out + i >= len
    PROVE  out + i - len \in 0..(in - 1)
OBVIOUS

\* Growing keeps every unread byte, and its place in line, unless the buffer
\* was drained with inptr at its end.
LEMMA GrowToKeeps ==
    ASSUME NEW b, Good(b), NEW newlen \in Nat, newlen > b.buflen,
           newlen >= GrowSize, NEW g, g = GrowTo(b, newlen),
           ~(b.bufused = 0 /\ b.outptr = 0 /\ b.inptr = b.buflen /\ b.buflen > 0)
    PROVE  /\ Good(g)
           /\ g.buflen = newlen /\ g.bufused = b.bufused
           /\ g.inptr = g.outptr + g.bufused
              \/ g.inptr = g.outptr + g.bufused - g.buflen
           /\ \A i \in 0..(b.bufused - 1) :
                  g.buffer[Slot(g, i)] = b.buffer[Slot(b, i)]
<1> DEFINE shift == IF Wrapped(b) THEN Smaller(newlen - b.buflen, b.inptr) ELSE 0
           rest == b.inptr - shift
           mem == [i \in 0..(newlen - 1) |->
                     IF i >= b.buflen
                     THEN IF i - b.buflen < shift THEN b.buffer[i - b.buflen]
                                                  ELSE Junk
                     ELSE IF Wrapped(b) /\ i < rest THEN b.buffer[i + shift]
                                                    ELSE b.buffer[i]]
           inp == IF ~Wrapped(b) THEN b.inptr
                  ELSE IF shift < b.inptr THEN rest
                  ELSE b.buflen + b.inptr
<1>1. /\ g.buffer = mem /\ g.buflen = newlen /\ g.bufused = b.bufused
      /\ g.inptr = inp /\ g.outptr = b.outptr
  BY DEF GrowTo
<1>0. /\ b.buflen \in Nat /\ b.bufused \in Nat /\ b.inptr \in Nat
      /\ b.outptr \in Nat /\ b.bufused <= b.buflen /\ b.inptr <= b.buflen
      /\ b.outptr <= b.buflen /\ (b.buflen > 0 => b.outptr < b.buflen)
      /\ b.buffer \in [0..(b.buflen - 1) -> Bytes \cup {Junk}]
  BY DEF Good
<1>2. CASE ~Wrapped(b)
  <2>1. b.inptr = b.outptr + b.bufused
    BY <1>2 DEF Good, Wrapped
  <2>2. shift = 0 /\ inp = b.inptr
    BY <1>2
  <2>3. mem = [i \in 0..(newlen - 1) |->
                  IF i >= b.buflen THEN Junk ELSE b.buffer[i]]
    BY <1>2, <2>2 DEF Good
  <2> HIDE DEF mem, inp, shift
  <2>4. \A i \in 0..(b.bufused - 1) :
            /\ Slot(g, i) = b.outptr + i /\ Slot(b, i) = b.outptr + i
            /\ b.outptr + i \in 0..(b.buflen - 1)
    BY <1>1, <2>1 DEF Slot, Good
  <2>5. \A i \in 0..(b.bufused - 1) : g.buffer[Slot(g, i)] = b.buffer[Slot(b, i)]
    BY <1>1, <2>3, <2>4, SMTT(30) DEF Good
  <2>6. mem \in [0..(newlen - 1) -> Bytes \cup {Junk}]
    BY <2>3, SMTT(30) DEF Good
  <2>7. \A i \in 0..(b.bufused - 1) : g.buffer[Slot(g, i)] \in Bytes
    BY <2>5 DEF Good
  <2> QED
    BY <1>1, <2>1, <2>2, <2>5, <2>6, <2>7 DEF Good
<1>3. CASE Wrapped(b)
  <2>1. b.inptr = b.outptr + b.bufused - b.buflen /\ b.bufused > 0
    BY <1>3 DEF Good, Wrapped
  <2>2. /\ shift \in 0..b.inptr /\ shift <= newlen - b.buflen
        /\ shift = b.inptr \/ shift = newlen - b.buflen
        /\ rest \in Nat
    BY <1>3 DEF Good, Smaller
  <2>3. mem = [i \in 0..(newlen - 1) |->
                     IF i >= b.buflen
                     THEN IF i - b.buflen < shift THEN b.buffer[i - b.buflen]
                                                  ELSE Junk
                     ELSE IF i < rest THEN b.buffer[i + shift]
                                      ELSE b.buffer[i]]
    BY <1>3
  <2>4. inp = IF shift < b.inptr THEN rest ELSE b.buflen + b.inptr
    BY <1>3
  <2>5. rest = b.inptr - shift
    OBVIOUS
  <2> HIDE DEF mem, inp, shift, rest
  <2>6. inp = b.outptr + b.bufused \/ inp = b.outptr + b.bufused - newlen
    BY <1>0, <2>1, <2>2, <2>4, <2>5, SMTT(30)
  <2>7. inp \in 0..newlen
    BY <1>0, <2>2, <2>4, <2>5
  <2>mem. ASSUME NEW j \in 0..(newlen - 1)
          PROVE  /\ j >= b.buflen /\ j - b.buflen < shift =>
                        mem[j] = b.buffer[j - b.buflen]
                 /\ j >= b.buflen /\ ~(j - b.buflen < shift) => mem[j] = Junk
                 /\ j < b.buflen /\ j < rest => mem[j] = b.buffer[j + shift]
                 /\ j < b.buflen /\ j >= rest => mem[j] = b.buffer[j]
    BY <1>0, <2>2, <2>3
  <2>8. ASSUME NEW i \in 0..(b.bufused - 1)
        PROVE  mem[Slot(g, i)] = b.buffer[Slot(b, i)]
    <3>1. CASE b.outptr + i < b.buflen
      <4>1. Slot(b, i) = b.outptr + i /\ Slot(g, i) = b.outptr + i
        BY <1>0, <1>1, <3>1 DEF Slot
      <4>2. b.outptr + i \in 0..(newlen - 1) /\ b.outptr + i >= b.inptr - shift
        <5>1. shift \in Nat /\ b.buflen < newlen
          BY <1>0, <2>2
        <5> QED BY <1>0, <2>1, <3>1, <5>1, BeforeTheEnd
      <4> QED BY <4>1, <4>2, <2>5, <3>1, <2>mem
    <3>2. CASE b.outptr + i >= b.buflen
      <4> DEFINE k == b.outptr + i - b.buflen
      <4>a. k \in 0..(b.inptr - 1)
        BY <1>0, <2>1, <3>2, BehindTheEnd
      <4>1. Slot(b, i) = k /\ k \in 0..(b.inptr - 1)
        BY <1>0, <3>2, <4>a DEF Slot
      <4>2. CASE b.outptr + i < newlen
        <5>1. Slot(g, i) = b.buflen + k /\ b.buflen + k \in 0..(newlen - 1)
          BY <1>0, <1>1, <3>2, <4>2 DEF Slot
        <5>2. k < shift
          BY <1>0, <2>2, <4>1, <4>2
        <5>3. b.buflen + k >= b.buflen /\ (b.buflen + k) - b.buflen = k
          BY <1>0, <4>1
        <5> HIDE DEF k
        <5>4. mem[b.buflen + k] = b.buffer[(b.buflen + k) - b.buflen]
          BY <5>1, <5>2, <5>3, <2>mem
        <5> QED BY <4>1, <5>1, <5>3, <5>4
      <4>3. CASE b.outptr + i >= newlen
        <5>1. Slot(g, i) = b.outptr + i - newlen
          BY <1>0, <1>1, <4>3 DEF Slot
        <5>2. shift = newlen - b.buflen
          BY <1>0, <2>1, <2>2, <4>1, <4>3
        <5>3. Slot(g, i) = k - shift
          BY <1>0, <5>1, <5>2
        <5>a. k >= shift
          BY <1>0, <4>3, <5>2
        <5> HIDE DEF k
        <5>4. k - shift \in 0..(newlen - 1) /\ k - shift < rest /\ k - shift < b.buflen
          <6>1. k \in Int /\ k < b.inptr /\ shift \in Nat
            BY <1>0, <2>2, <4>1
          <6>2. k - shift < rest
            BY <1>0, <2>5, <6>1
          <6>3. k - shift \in 0..(newlen - 1) /\ k - shift < b.buflen
            BY <1>0, <5>a, <6>1
          <6> QED BY <6>2, <6>3
        <5>5. mem[k - shift] = b.buffer[(k - shift) + shift]
          BY <5>4, <2>mem
        <5> QED BY <1>0, <2>2, <4>1, <5>3, <5>5
      <4> QED BY <1>0, <4>2, <4>3
    <3> QED BY <1>0, <3>1, <3>2
  <2>9. mem \in [0..(newlen - 1) -> Bytes \cup {Junk}]
    <3> SUFFICES ASSUME NEW j \in 0..(newlen - 1)
                 PROVE  mem[j] \in Bytes \cup {Junk}
      BY <2>3
    <3>1. j >= b.buflen /\ j - b.buflen < shift => j - b.buflen \in 0..(b.buflen - 1)
      BY <1>0, <2>2
    <3>2. j < b.buflen => j \in 0..(b.buflen - 1)
      BY <1>0
    <3>3. j < rest => j + shift \in 0..(b.buflen - 1)
      BY <1>0, <2>2, <2>5
    <3>4. CASE j >= b.buflen
      BY <1>0, <2>mem, <3>1, <3>4
    <3>5. CASE j < b.buflen
      <4>1. CASE j < rest
        BY <1>0, <2>2, <2>mem, <3>3, <3>5, <4>1
      <4>2. CASE j >= rest
        BY <1>0, <2>2, <2>mem, <3>2, <3>5, <4>2
      <4> QED BY <2>2, <4>1, <4>2
    <3> QED BY <1>0, <3>4, <3>5
  <2>10. \A i \in 0..(b.bufused - 1) : g.buffer[Slot(g, i)] \in Bytes
    BY <1>1, <2>8 DEF Good
  <2> QED
    BY <1>1, <2>6, <2>7, <2>8, <2>9, <2>10 DEF Good
<1> QED
  BY <1>2, <1>3

\* The lengths and offsets Store works on: L bytes of memory, U of them unread,
\* inptr at I and outptr at O, a chunk of len bytes, n of which go at inptr.
Storing(L, U, I, O, len, n) ==
    /\ L \in Nat /\ U \in Nat /\ I \in Nat /\ O \in Nat
    /\ len \in Nat /\ n \in Nat
    /\ U <= L /\ I <= L /\ O <= L /\ (L > 0 => O < L)
    /\ len <= L - U /\ n <= len
    /\ I >= O => n = len \/ n = L - I
    /\ I >= O => n <= L - I
    /\ I < O => n = len
    /\ I = O + U \/ I = O + U - L \/ (U = 0 /\ O = 0 /\ I = L)

\* Store writes n bytes of the chunk from inptr (I) on and the rest at the
\* start of the memory.  Neither piece touches place j of the i-th unread byte...
LEMMA StoreMissesUnread ==
    ASSUME NEW L, NEW U, NEW I, NEW O, NEW len, NEW n,
           Storing(L, U, I, O, len, n),
           NEW i \in 0..(U - 1), NEW j \in Int,
           O + i < L => j = O + i,
           O + i >= L => j = O + i - L
    PROVE  /\ j \in 0..(L - 1)
           /\ j >= len - n
           /\ ~(j >= I /\ j < I + n)
  <1>1. CASE I = O + U
    BY <1>1 DEF Storing
  <1>2. CASE I = O + U - L
    <2>1. n = len /\ I + n <= O
      BY <1>2 DEF Storing
    <2>2. CASE O + i < L
      BY <1>2, <2>1, <2>2 DEF Storing
    <2>3. CASE O + i >= L
      BY <1>2, <2>1, <2>3 DEF Storing
    <2> QED BY <2>2, <2>3 DEF Storing
  <1> QED BY <1>1, <1>2 DEF Storing

\* ... the i-th byte of the chunk lands in place j, U + i places after outptr...
LEMMA StoreFillsFree ==
    ASSUME NEW L, NEW U, NEW I, NEW O, NEW len, NEW n,
           Storing(L, U, I, O, len, n),
           NEW i \in 0..(len - 1), NEW j \in Int,
           O + (U + i) < L => j = O + (U + i),
           O + (U + i) >= L => j = O + (U + i) - L
    PROVE  /\ j \in 0..(L - 1)
           /\ \/ i < n /\ j = I + i /\ j >= len - n
              \/ i >= n /\ j = i - n
  <1>1. CASE I = O + U
    <2>1. CASE i < n
      BY <1>1, <2>1 DEF Storing
    <2>2. CASE i >= n
      <3>1. n = L - I
        BY <1>1, <2>2 DEF Storing
      <3> QED BY <1>1, <2>2, <3>1 DEF Storing
    <2> QED BY <2>1, <2>2 DEF Storing
  <1>2. CASE I = O + U - L
    <2>1. n = len /\ I + n <= O
      BY <1>2 DEF Storing
    <2>2. O + (U + i) >= L
      BY <1>2 DEF Storing
    <2> QED BY <1>2, <2>1, <2>2 DEF Storing
  <1>3. CASE U = 0 /\ O = 0 /\ I = L
    BY <1>3 DEF Storing
  <1> QED BY <1>1, <1>2, <1>3 DEF Storing

\* ... and inptr ends up len bytes further round the ring.
LEMMA StoreMovesIn ==
    ASSUME NEW L, NEW U, NEW I, NEW O, NEW len, NEW n,
           Storing(L, U, I, O, len, n),
           NEW inp, inp = IF n < len THEN len - n ELSE I + n
    PROVE  /\ inp \in 0..L
           /\ \/ inp = O + (U + len)
              \/ inp = O + (U + len) - L
              \/ U + len = 0 /\ O = 0 /\ inp = L
  <1>1. CASE I = O + U
    BY <1>1 DEF Storing
  <1>2. CASE I = O + U - L
    <2>1. n = len /\ I + n <= O
      BY <1>2 DEF Storing
    <2> QED BY <1>2, <2>1 DEF Storing
  <1>3. CASE U = 0 /\ O = 0 /\ I = L
    BY <1>3 DEF Storing
  <1> QED BY <1>1, <1>2, <1>3 DEF Storing

\* Storing a chunk there is room for keeps every unread byte and puts the
\* chunk's bytes behind them.
LEMMA StoreKeeps ==
    ASSUME NEW b, Good(b), NEW src \in Seq(Bytes),
           b.buflen - b.bufused >= Len(src), NEW g, g = Store(b, src)
    PROVE  /\ Good(g)
           /\ g.buflen = b.buflen /\ g.bufused = b.bufused + Len(src)
           /\ \A i \in 0..(b.bufused - 1) :
                  g.buffer[Slot(g, i)] = b.buffer[Slot(b, i)]
           /\ \A i \in 0..(Len(src) - 1) :
                  g.buffer[Slot(g, b.bufused + i)] = src[i + 1]
<1> DEFINE len == Len(src)
           n == IF b.inptr >= b.outptr THEN Smaller(len, b.buflen - b.inptr)
                                       ELSE len
           mem == [i \in 0..(b.buflen - 1) |->
                     IF i < len - n THEN src[n + i + 1]
                     ELSE IF i >= b.inptr /\ i < b.inptr + n
                          THEN src[i - b.inptr + 1]
                     ELSE b.buffer[i]]
           inp == IF n < len THEN len - n ELSE b.inptr + n
<1>1. /\ g.buffer = mem /\ g.buflen = b.buflen /\ g.bufused = b.bufused + len
      /\ g.inptr = inp /\ g.outptr = b.outptr
  BY DEF Store
<1>2. /\ b.buflen \in Nat /\ b.bufused \in Nat /\ b.inptr \in Nat
      /\ b.outptr \in Nat /\ b.bufused <= b.buflen /\ b.inptr <= b.buflen
      /\ b.outptr <= b.buflen /\ (b.buflen > 0 => b.outptr < b.buflen)
      /\ b.buffer \in [0..(b.buflen - 1) -> Bytes \cup {Junk}]
      /\ (b.buflen = 0 \/ b.buflen >= GrowSize)
  BY DEF Good
<1>0. /\ b.buflen \in Nat /\ b.bufused \in Nat /\ b.inptr \in Nat
      /\ b.outptr \in Nat /\ b.bufused <= b.buflen /\ b.inptr <= b.buflen
      /\ b.outptr <= b.buflen /\ (b.buflen > 0 => b.outptr < b.buflen)
  BY DEF Good
<1>3. len \in Nat /\ len <= b.buflen - b.bufused
  BY <1>2
<1>4. \A i \in 1..len : src[i] \in Bytes
  OBVIOUS
<1>5. /\ n \in 0..len
      /\ b.inptr >= b.outptr => (n = len \/ n = b.buflen - b.inptr)
      /\ b.inptr >= b.outptr => n <= b.buflen - b.inptr
      /\ b.inptr < b.outptr => n = len
  BY <1>2, <1>3 DEF Smaller
<1>6. inp = IF n < len THEN len - n ELSE b.inptr + n
  OBVIOUS
<1>7. mem = [i \in 0..(b.buflen - 1) |->
                     IF i < len - n THEN src[n + i + 1]
                     ELSE IF i >= b.inptr /\ i < b.inptr + n
                          THEN src[i - b.inptr + 1]
                     ELSE b.buffer[i]]
  OBVIOUS
<1> HIDE DEF len, n, mem, inp
<1>8. ASSUME NEW j \in 0..(b.buflen - 1)
      PROVE  /\ j < len - n => mem[j] = src[n + j + 1]
             /\ j >= len - n /\ j >= b.inptr /\ j < b.inptr + n =>
                    mem[j] = src[j - b.inptr + 1]
             /\ j >= len - n /\ ~(j >= b.inptr /\ j < b.inptr + n) =>
                    mem[j] = b.buffer[j]
  BY <1>2, <1>3, <1>5, <1>7
<1>9. mem \in [0..(b.buflen - 1) -> Bytes \cup {Junk}]
  <2> SUFFICES ASSUME NEW j \in 0..(b.buflen - 1)
               PROVE  mem[j] \in Bytes \cup {Junk}
    BY <1>7
  <2>1. CASE j < len - n
    <3>1. n + j + 1 \in 1..len
      BY <1>2, <1>3, <1>5, <2>1
    <3> QED BY <1>4, <1>8, <2>1, <3>1
  <2>2. CASE j >= len - n /\ j >= b.inptr /\ j < b.inptr + n
    <3>1. j - b.inptr + 1 \in 1..len
      BY <1>0, <1>3, <1>5, <2>2, SMTT(30)
    <3>2. mem[j] = src[j - b.inptr + 1]
      BY <1>8, <2>2
    <3> QED BY <1>4, <3>1, <3>2
  <2>3. CASE j >= len - n /\ ~(j >= b.inptr /\ j < b.inptr + n)
    BY <1>2, <1>8, <2>3
  <2> QED BY <1>2, <1>3, <1>5, <2>1, <2>2, <2>3
<1>10. /\ n \in Nat /\ n <= len
       /\ \/ b.inptr = b.outptr + b.bufused
          \/ b.inptr = b.outptr + b.bufused - b.buflen
          \/ b.bufused = 0 /\ b.outptr = 0 /\ b.inptr = b.buflen
  <2>1. n \in Nat /\ n <= len
    BY <1>3, <1>5
  <2> QED BY <2>1 DEF Good
<1>t. Storing(b.buflen, b.bufused, b.inptr, b.outptr, len, n)
  <2>1. /\ b.inptr >= b.outptr => n = len \/ n = b.buflen - b.inptr
        /\ b.inptr >= b.outptr => n <= b.buflen - b.inptr
        /\ b.inptr < b.outptr => n = len
    BY <1>5
  <2> QED BY <1>0, <1>3, <1>10, <2>1 DEF Storing
<1>s. ASSUME NEW i \in Nat
      PROVE  /\ Slot(b, i) = Slot(g, i) /\ Slot(g, i) \in Int
             /\ b.outptr + i < b.buflen => Slot(g, i) = b.outptr + i
             /\ b.outptr + i >= b.buflen => Slot(g, i) = b.outptr + i - b.buflen
  BY <1>1, <1>0 DEF Slot
<1>11. ASSUME NEW i \in 0..(b.bufused - 1)
       PROVE  mem[Slot(g, i)] = b.buffer[Slot(b, i)]
  <2>1. i \in Nat
    OBVIOUS
  <2>2. /\ Slot(g, i) \in 0..(b.buflen - 1)
        /\ Slot(g, i) >= len - n
        /\ ~(Slot(g, i) >= b.inptr /\ Slot(g, i) < b.inptr + n)
    BY <1>t, <1>s, <2>1, StoreMissesUnread
  <2> QED BY <1>8, <1>s, <2>1, <2>2
<1>12. ASSUME NEW i \in 0..(len - 1)
       PROVE  mem[Slot(g, b.bufused + i)] = src[i + 1]
  <2> DEFINE j == Slot(g, b.bufused + i)
  <2>1. b.bufused + i \in Nat
    BY <1>0, <1>3
  <2>2. /\ j \in Int
        /\ b.outptr + (b.bufused + i) < b.buflen => j = b.outptr + (b.bufused + i)
        /\ b.outptr + (b.bufused + i) >= b.buflen =>
              j = b.outptr + (b.bufused + i) - b.buflen
    BY <1>s, <2>1
  <2> HIDE DEF j
  <2>3. /\ j \in 0..(b.buflen - 1)
        /\ \/ i < n /\ j = b.inptr + i /\ j >= len - n
           \/ i >= n /\ j = i - n
    BY <1>t, <2>2, StoreFillsFree
  <2>4. CASE i < n /\ j = b.inptr + i /\ j >= len - n
    <3>1. j >= b.inptr /\ j < b.inptr + n
      BY <1>0, <1>10, <2>4
    <3>2. mem[j] = src[j - b.inptr + 1]
      BY <1>8, <2>3, <2>4, <3>1
    <3>3. j - b.inptr + 1 = i + 1
      BY <1>0, <2>4
    <3> QED BY <3>2, <3>3 DEF j
  <2>5. CASE i >= n /\ j = i - n
    <3>1. j < len - n
      BY <1>3, <1>10, <2>5
    <3>2. mem[j] = src[n + j + 1]
      BY <1>8, <2>3, <3>1
    <3>3. n + j + 1 = i + 1
      BY <1>10, <2>5
    <3> QED BY <3>2, <3>3 DEF j
  <2> QED BY <2>3, <2>4, <2>5
<1>13. /\ inp \in 0..b.buflen
       /\ \/ inp = b.outptr + (b.bufused + len)
          \/ inp = b.outptr + (b.bufused + len) - b.buflen
          \/ b.bufused + len = 0 /\ b.outptr = 0 /\ inp = b.buflen
  BY <1>6, <1>t, StoreMovesIn
<1>14. ASSUME NEW i \in 0..(g.bufused - 1)
       PROVE  g.buffer[Slot(g, i)] \in Bytes
  <2>1. CASE i < b.bufused
    <3>1. i \in 0..(b.bufused - 1)
      BY <1>0, <1>1, <1>3, <2>1
    <3> QED BY <1>1, <1>11, <3>1 DEF Good
  <2>2. CASE i >= b.bufused
    <3> DEFINE k == i - b.bufused
    <3>1. k \in 0..(len - 1) /\ b.bufused + k = i /\ k + 1 \in 1..len
      BY <1>1, <1>0, <1>3, <2>2, SMTT(30)
    <3> HIDE DEF k
    <3> QED BY <1>1, <1>4, <1>12, <3>1
  <2> QED BY <1>1, <1>0, <1>3, <2>1, <2>2
<1>15. Good(g)
  BY <1>1, <1>0, <1>3, <1>9, <1>13, <1>14 DEF Good
<1>16. QED
  BY <1>1, <1>11, <1>12, <1>15 DEF len
\* purple_circ_buffer_append as a whole, for a chunk of any length, but for the
\* one case in which a ring drained with inptr at its end has to grow.
LEMMA AppendKeeps ==
    ASSUME NEW b, Good(b), NEW src \in Seq(Bytes), ~Overruns(b, Len(src)),
           NEW g, g = AppendBytes(b, src)
    PROVE  /\ Good(g)
           /\ Contents(g) = Contents(b) \o src
<1>1. Len(src) \in Nat
  OBVIOUS
<1>2. b.buflen \in Nat /\ b.bufused \in Nat /\ b.bufused <= b.buflen
      /\ (b.buflen = 0 \/ b.buflen >= GrowSize)
  BY DEF Good
<1>3. PICK h : /\ g = Store(h, src)
               /\ Good(h)
               /\ h.buflen - h.bufused >= Len(src)
               /\ h.bufused = b.bufused
               /\ \A i \in 0..(b.bufused - 1) :
                      h.buffer[Slot(h, i)] = b.buffer[Slot(b, i)]
  <2>1. CASE b.buflen - b.bufused >= Len(src)
    <3>1. ~(b.buflen - b.bufused < Len(src))
      BY <1>1, <1>2, <2>1
    <3> QED BY <2>1, <3>1 DEF AppendBytes
  <2>2. CASE b.buflen - b.bufused < Len(src)
    <3> DEFINE newlen == GrownLen(b, Len(src))
    <3>1. /\ newlen \in Nat /\ newlen >= b.bufused + Len(src)
          /\ newlen > b.buflen /\ newlen >= GrowSize
      BY <1>1, <1>2, <2>2, GrownLenFits
    <3>2. ~(b.bufused = 0 /\ b.outptr = 0 /\ b.inptr = b.buflen /\ b.buflen > 0)
      BY <1>1, <1>2, <2>2 DEF Overruns
    <3> HIDE DEF newlen
    <3>3. PICK h : h = GrowTo(b, newlen)
      OBVIOUS
    <3>4. /\ Good(h) /\ h.buflen = newlen /\ h.bufused = b.bufused
          /\ \A i \in 0..(b.bufused - 1) :
                 h.buffer[Slot(h, i)] = b.buffer[Slot(b, i)]
      BY <3>1, <3>2, <3>3, GrowToKeeps
    <3>5. h.buflen - h.bufused >= Len(src)
      BY <1>1, <1>2, <3>1, <3>4
    <3>6. g = Store(h, src)
      BY <2>2, <3>3 DEF AppendBytes, newlen
    <3> QED BY <3>4, <3>5, <3>6
  <2> QED BY <1>1, <1>2, <2>1, <2>2
<1>4. /\ Good(g)
      /\ g.bufused = h.bufused + Len(src)
      /\ \A i \in 0..(h.bufused - 1) :
             g.buffer[Slot(g, i)] = h.buffer[Slot(h, i)]
      /\ \A i \in 0..(Len(src) - 1) :
             g.buffer[Slot(g, h.bufused + i)] = src[i + 1]
  BY <1>3, StoreKeeps
<1> DEFINE U == b.bufused
<1>5. U \in Nat /\ g.bufused = U + Len(src)
  BY <1>2, <1>3, <1>4
<1>6. ASSUME NEW i \in 1..(U + Len(src))
      PROVE  Contents(g)[i] = (Contents(b) \o src)[i]
  <2>1. Contents(g)[i] = g.buffer[Slot(g, i - 1)]
    BY <1>5 DEF Contents
  <2>0. Contents(b) = [m \in 1..U |-> b.buffer[Slot(b, m - 1)]]
    BY DEF Contents
  <2>2. CASE i <= U
    <3>1. i - 1 \in 0..(U - 1) /\ i \in 1..U
      BY <1>5, <2>2
    <3>2. g.buffer[Slot(g, i - 1)] = b.buffer[Slot(b, i - 1)]
      BY <1>3, <1>4, <3>1
    <3>3. (Contents(b) \o src)[i] = Contents(b)[i]
      BY <1>1, <1>5, <2>0, <3>1
    <3> QED BY <2>0, <2>1, <3>1, <3>2, <3>3
  <2>3. CASE i > U
    <3> DEFINE k == i - U - 1
    <3>1. k \in 0..(Len(src) - 1) /\ U + k = i - 1 /\ k + 1 = i - U
      BY <1>1, <1>5, <2>3
    <3> HIDE DEF k
    <3>2. g.buffer[Slot(g, U + k)] = src[k + 1]
      BY <1>3, <1>4, <3>1
    <3>3. (Contents(b) \o src)[i] = src[i - U]
      BY <1>1, <1>5, <2>0, <2>3
    <3> QED BY <2>1, <3>1, <3>2, <3>3
  <2>4. i <= U \/ i > U
    BY <1>1, <1>5
  <2> QED BY <2>2, <2>3, <2>4
<1>7. Contents(g) = Contents(b) \o src
  <2>1. Contents(b) \o src = [i \in 1..(U + Len(src)) |-> (Contents(b) \o src)[i]]
    <3>1. Contents(b) = [m \in 1..U |-> b.buffer[Slot(b, m - 1)]]
      BY DEF Contents
    <3> QED BY <1>1, <1>5, <3>1
  <2>2. Contents(g) = [i \in 1..(U + Len(src)) |-> Contents(g)[i]]
    BY <1>5 DEF Contents
  <2> QED BY <1>6, <2>1, <2>2
<1>8. QED
  BY <1>4, <1>7

\* get_max_read never offers more than is stored, and offers something whenever
\* anything is stored.
LEMMA MaxReadBounds ==
    ASSUME NEW b, Good(b)
    PROVE  /\ MaxRead(b) \in 0..b.bufused
           /\ b.bufused > 0 => MaxRead(b) > 0
           /\ b.outptr + MaxRead(b) <= b.buflen
  <1>0. /\ b.buflen \in Nat /\ b.bufused \in Nat /\ b.inptr \in Nat
        /\ b.outptr \in Nat /\ b.bufused <= b.buflen /\ b.inptr <= b.buflen
        /\ b.outptr <= b.buflen /\ (b.buflen > 0 => b.outptr < b.buflen)
    BY DEF Good
  <1>1. \/ b.inptr = b.outptr + b.bufused
        \/ b.inptr = b.outptr + b.bufused - b.buflen
        \/ b.bufused = 0 /\ b.outptr = 0 /\ b.inptr = b.buflen
    BY DEF Good
  <1>2. CASE b.bufused = 0
    BY <1>0, <1>2 DEF MaxRead
  <1>3. CASE b.bufused > 0 /\ b.inptr = b.outptr + b.bufused
    BY <1>0, <1>3 DEF MaxRead
  <1>4. CASE b.bufused > 0 /\ b.inptr = b.outptr + b.bufused - b.buflen
    BY <1>0, <1>4 DEF MaxRead
  <1> QED BY <1>0, <1>1, <1>2, <1>3, <1>4

\* mark_read drops the bytes it was told were read, and no others.
LEMMA MarkReadKeeps ==
    ASSUME NEW b, Good(b), NEW n \in 0..MaxRead(b), NEW g, g = MarkRead(b, n)
    PROVE  /\ Good(g)
           /\ Contents(g) = SubSeq(Contents(b), n + 1, Len(Contents(b)))
<1>0. /\ b.buflen \in Nat /\ b.bufused \in Nat /\ b.inptr \in Nat
      /\ b.outptr \in Nat /\ b.bufused <= b.buflen /\ b.inptr <= b.buflen
      /\ b.outptr <= b.buflen /\ (b.buflen > 0 => b.outptr < b.buflen)
  BY DEF Good
<1>1. n \in Nat /\ n <= b.bufused /\ b.outptr + n <= b.buflen
  BY <1>0, MaxReadBounds
<1>2. /\ g.buflen = b.buflen /\ g.buffer = b.buffer /\ g.inptr = b.inptr
      /\ g.bufused = b.bufused - n
      /\ g.outptr = IF b.outptr + n = b.buflen THEN 0 ELSE b.outptr + n
  BY DEF MarkRead
<1>3. ASSUME NEW i \in 0..(b.bufused - n - 1)
      PROVE  Slot(g, i) = Slot(b, n + i)
  BY <1>0, <1>1, <1>2 DEF Slot
<1>4. \/ b.inptr = b.outptr + b.bufused
      \/ b.inptr = b.outptr + b.bufused - b.buflen
      \/ b.bufused = 0 /\ b.outptr = 0 /\ b.inptr = b.buflen
  BY DEF Good
<1>5. \/ g.inptr = g.outptr + g.bufused
      \/ g.inptr = g.outptr + g.bufused - g.buflen
      \/ g.bufused = 0 /\ g.outptr = 0 /\ g.inptr = g.buflen
  <2>1. CASE b.outptr + n = b.buflen
    BY <1>0, <1>1, <1>2, <1>4, <2>1
  <2>2. CASE b.outptr + n # b.buflen
    BY <1>0, <1>1, <1>2, <1>4, <2>2
  <2> QED BY <2>1, <2>2
<1>6. ASSUME NEW i \in 0..(g.bufused - 1)
      PROVE  g.buffer[Slot(g, i)] \in Bytes
  <2>1. n + i \in 0..(b.bufused - 1) /\ i \in 0..(b.bufused - n - 1)
    BY <1>0, <1>1, <1>2
  <2> QED BY <1>2, <1>3, <2>1 DEF Good
<1>7. /\ g.bufused \in 0..g.buflen /\ g.outptr \in 0..g.buflen
      /\ g.buflen > 0 => g.outptr < g.buflen
  BY <1>0, <1>1, <1>2
<1>8. Good(g)
  BY <1>2, <1>5, <1>6, <1>7 DEF Good
<1>9. Contents(g) = SubSeq(Contents(b), n + 1, Len(Contents(b)))
  <2> DEFINE U == b.bufused
             q == Contents(b)
  <2>1. q = [m \in 1..U |-> b.buffer[Slot(b, m - 1)]] /\ Len(q) = U
    BY <1>0 DEF Contents
  <2>2. Contents(g) = [m \in 1..(U - n) |-> b.buffer[Slot(g, m - 1)]]
    BY <1>2 DEF Contents
  <2>3. SubSeq(q, n + 1, U) = [m \in 1..(U - n) |-> q[n + m]]
    BY <1>0, <1>1, <2>1
  <2>4. ASSUME NEW m \in 1..(U - n)
        PROVE  b.buffer[Slot(g, m - 1)] = q[n + m]
    <3>1. n + m \in 1..U /\ m - 1 \in 0..(U - n - 1)
          /\ n + (m - 1) = (n + m) - 1
      BY <1>0, <1>1
    <3> QED BY <1>3, <2>1, <3>1
  <2> HIDE DEF q
  <2> QED BY <2>1, <2>2, <2>3, <2>4 DEF q
<1>10. QED
  BY <1>8, <1>9
\* What a reader finds at outptr is the front of the unread bytes.
LEMMA ReadableIsFront ==
    ASSUME NEW b, Good(b), NEW n \in 0..MaxRead(b)
    PROVE  Readable(b, n) = SubSeq(Contents(b), 1, n)
<1>0. /\ b.buflen \in Nat /\ b.bufused \in Nat /\ b.outptr \in Nat
      /\ n \in Nat /\ n <= b.bufused /\ b.outptr + n <= b.buflen
  BY MaxReadBounds DEF Good
<1>1. ASSUME NEW i \in 1..n
      PROVE  Slot(b, i - 1) = b.outptr + i - 1
  BY <1>0 DEF Slot
<1> DEFINE q == Contents(b)
<1>2. q = [m \in 1..b.bufused |-> b.buffer[Slot(b, m - 1)]]
  BY DEF Contents
<1>3. SubSeq(q, 1, n) = [i \in 1..n |-> q[i]]
  BY <1>0, <1>2
<1>4. ASSUME NEW i \in 1..n
      PROVE  q[i] = b.buffer[b.outptr + i - 1]
  <2>1. i \in 1..b.bufused
    BY <1>0
  <2> QED BY <1>1, <1>2, <2>1
<1> HIDE DEF q
<1> QED BY <1>3, <1>4 DEF Readable, q

\* The unread bytes of a good buffer are a sequence of bytes.
LEMMA ContentsIsSeq ==
    ASSUME NEW b, Good(b)
    PROVE  /\ Contents(b) \in Seq(Bytes)
           /\ Len(Contents(b)) = b.bufused
<1>1. b.bufused \in Nat
  BY DEF Good
<1>2. ASSUME NEW i \in 1..b.bufused
      PROVE  b.buffer[Slot(b, i - 1)] \in Bytes
  <2>1. i - 1 \in 0..(b.bufused - 1)
    BY <1>1
  <2> QED BY <2>1 DEF Good
<1> QED BY <1>1, <1>2 DEF Contents

\* purple_circ_buffer_new gives a good, empty buffer.
LEMMA NewBufferGood == Good(NewBuffer) /\ Contents(NewBuffer) = <<>>
  <1> DEFINE b == NewBuffer
  <1>1. /\ b.buflen = 0 /\ b.bufused = 0 /\ b.inptr = 0 /\ b.outptr = 0
        /\ b.buffer = [i \in {} |-> Junk]
    BY DEF NewBuffer
  <1> HIDE DEF b
  <1>2. b.buffer \in [0..(b.buflen - 1) -> Bytes \cup {Junk}]
    BY <1>1
  <1>3. Good(b)
    BY <1>1, <1>2 DEF Good
  <1>4. Contents(b) = <<>>
    BY <1>1 DEF Contents
  <1> QED BY <1>3, <1>4 DEF b

-----------------------------------------------------------------------------
(* The buffer of the specification, for writers whose chunks fit the step.  *)

\* The buffer of purple_circ_buffer_new is good and empty.
LEMMA InitGood == Init => Good(cb) /\ Contents(cb) = <<>>
  BY NewBufferGood DEF Init

\* Every step keeps the buffer good and is a step of the FIFO, or leaves its
\* contents alone.
LEMMA StepGood ==
    ASSUME ChunksFitStep, Good(cb), [Next]_cb
    PROVE  Good(cb)' /\ [Fifo!Next]_(Contents(cb))
<1>1. CASE Put
  <2>a. PICK len \in 0..MaxChunk : \E src \in [1..len -> Bytes] :
            cb' = AppendBytes(cb, src)
    BY <1>1 DEF Put
  <2>1. PICK src \in [1..len -> Bytes] : cb' = AppendBytes(cb, src)
    BY <2>a
  <2>2. src \in Seq(Bytes) /\ Len(src) = len /\ len <= GrowSize
    BY BoundsAssumption, GrowSizeAssumption DEF ChunksFitStep
  <2>3. ~Overruns(cb, Len(src))
    BY <2>2, BoundsAssumption, GrowSizeAssumption DEF Overruns, Good
  <2>4. Good(cb') /\ Contents(cb') = Contents(cb) \o src
    BY <2>1, <2>2, <2>3, AppendKeeps
  <2>5. Fifo!Put
    BY <2>1, <2>4 DEF Fifo!Put
  <2> QED BY <2>4, <2>5 DEF Fifo!Next, Good
<1>2. CASE Take
  <2>1. PICK n \in 0..MaxRead(cb) : cb' = MarkRead(cb, n)
    BY <1>2 DEF Take
  <2>2. /\ Good(cb')
        /\ Contents(cb') = SubSeq(Contents(cb), n + 1, Len(Contents(cb)))
    BY <2>1, MarkReadKeeps
  <2>3. n \in 0..Len(Contents(cb))
    <3>1. cb.bufused \in Nat /\ Len(Contents(cb)) = cb.bufused
      BY DEF Contents, Good
    <3> QED BY <3>1, MaxReadBounds
  <2>4. Fifo!Take
    BY <2>2, <2>3 DEF Fifo!Take
  <2> QED BY <2>2, <2>4 DEF Fifo!Next, Good
<1>3. CASE UNCHANGED cb
  BY <1>3 DEF Good, Contents, Slot
<1> QED BY <1>1, <1>2, <1>3 DEF Next

\* The inductive invariant gives the four invariants of CircBuffer.
LEMMA GoodImplies ==
    ASSUME Good(cb)
    PROVE  TypeOK /\ PointersAgree /\ OfferIsUnread /\ NoJunkRead
<1>1. TypeOK
  BY DEF Good, TypeOK
<1>2. PointersAgree
  BY DEF Good, PointersAgree
<1>3. OfferIsUnread
  <2>1. cb.bufused \in Nat
    BY DEF Good
  <2> QED BY <2>1, MaxReadBounds DEF OfferIsUnread
<1>4. NoJunkRead
  <2> SUFFICES ASSUME NEW i \in 1..cb.bufused
               PROVE  Contents(cb)[i] # Junk
    BY DEF NoJunkRead
  <2>1. Contents(cb)[i] = cb.buffer[Slot(cb, i - 1)]
    BY DEF Contents
  <2>2. i - 1 \in 0..(cb.bufused - 1)
    BY DEF Good
  <2> QED BY <2>1, <2>2, JunkAssumption DEF Good
<1> QED BY <1>1, <1>2, <1>3, <1>4

\* purple_circ_buffer_*: whatever the growth step, as long as no chunk exceeds
\* it, the pointers stay inside the allocation in every reachable state.
THEOREM TypeCorrect == ASSUME ChunksFitStep PROVE Spec => []TypeOK
<1>1. Init => Good(cb)
  BY InitGood
<1>2. Good(cb) /\ [Next]_cb => Good(cb)'
  BY StepGood
<1>3. Good(cb) => TypeOK
  BY GoodImplies
<1> QED BY <1>1, <1>2, <1>3, PTL DEF Spec

\* The pointers and the count agree, what get_max_read offers is unread data,
\* and no reader sees memory that grow_circ_buffer added and no append wrote.
THEOREM ReaderIsSafe ==
    ASSUME ChunksFitStep PROVE Spec => [](PointersAgree /\ OfferIsUnread /\ NoJunkRead)
<1>1. Init => Good(cb)
  BY InitGood
<1>2. Good(cb) /\ [Next]_cb => Good(cb)'
  BY StepGood
<1>3. Good(cb) => PointersAgree /\ OfferIsUnread /\ NoJunkRead
  BY GoodImplies
<1> QED BY <1>1, <1>2, <1>3, PTL DEF Spec

\* circbuffer.c implements the byte FIFO: every byte appended is read once and
\* in order, across growth, wrap-around and partial reads.
THEOREM ImplementsFifo == ASSUME ChunksFitStep PROVE Spec => IsFifo
<1>1. Init => Good(cb) /\ Fifo!Init
  BY InitGood DEF Fifo!Init
<1>2. Good(cb) /\ [Next]_cb
         => Good(cb)' /\ [Fifo!Next]_(Contents(cb))
  BY StepGood
<1> QED BY <1>1, <1>2, PTL DEF Spec, IsFifo, Fifo!Spec
=============================================================================

------------------------- MODULE StreamWriterProofs -------------------------
(***************************************************************************)
(* Proofs about StreamWriter: whatever the lengths of its stanzas, an XMPP *)
(* stream keeps its bytes in order until one of them overruns its write    *)
(* buffer, and never forgets to watch a buffer that holds some.            *)
(***************************************************************************)
EXTENDS StreamWriter, SequenceTheorems, TLAPS

P == INSTANCE CircBufferProofs
        WITH Bytes <- Nat \ {0}, Junk <- 0, MaxUsed <- MaxSent

Pos == Nat \ {0}

\* The inductive invariant: InOrder and BufferedIsWatched need each other (a
\* stanza goes straight to the socket only when nothing is buffered), and InOrder
\* needs the buffer to be good, which it is until it is overrun.
IInv ==
    /\ writeh \in BOOLEAN /\ lost \in BOOLEAN
    /\ open \in BOOLEAN /\ overrun \in BOOLEAN
    /\ sent \in Nat
    /\ wire \in Seq(Pos)
    /\ ~overrun => P!Good(cb)
    /\ BufferedIsWatched
    /\ InOrder

\* The two instances of CircBuffer have the same operations.
LEMMA Same ==
    /\ CB!NewBuffer = P!NewBuffer
    /\ \A b, src : CB!AppendBytes(b, src) = P!AppendBytes(b, src)
    /\ \A b, len : CB!Overruns(b, len) = P!Overruns(b, len)
    /\ \A b : CB!MaxRead(b) = P!MaxRead(b)
    /\ \A b, n : CB!MarkRead(b, n) = P!MarkRead(b, n)
    /\ \A b, n : CB!Readable(b, n) = P!Readable(b, n)
    /\ \A b : CB!Contents(b) = P!Contents(b)
<1>1. CB!NewBuffer = P!NewBuffer
  BY DEF CB!NewBuffer, P!NewBuffer
<1>2. ASSUME NEW b, NEW src PROVE CB!AppendBytes(b, src) = P!AppendBytes(b, src)
  BY DEF CB!AppendBytes, P!AppendBytes, CB!Store, P!Store, CB!GrowTo, P!GrowTo,
         CB!GrownLen, P!GrownLen, CB!Wrapped, P!Wrapped, CB!Smaller, P!Smaller
<1>3. ASSUME NEW b PROVE CB!MaxRead(b) = P!MaxRead(b)
  BY DEF CB!MaxRead, P!MaxRead
<1>4. ASSUME NEW b, NEW n PROVE CB!MarkRead(b, n) = P!MarkRead(b, n)
  BY DEF CB!MarkRead, P!MarkRead
<1>5. ASSUME NEW b, NEW n PROVE CB!Readable(b, n) = P!Readable(b, n)
  BY DEF CB!Readable, P!Readable
<1>6. ASSUME NEW b PROVE CB!Contents(b) = P!Contents(b)
  BY DEF CB!Contents, P!Contents, CB!Slot, P!Slot
<1>7. ASSUME NEW b, NEW len PROVE CB!Overruns(b, len) = P!Overruns(b, len)
  BY DEF CB!Overruns, P!Overruns
<1> QED BY <1>1, <1>2, <1>3, <1>4, <1>5, <1>6, <1>7

\* The constants of the instance satisfy the assumptions of CircBuffer.
LEMMA Assumptions ==
    P!GrowSizeAssumption /\ P!BoundsAssumption /\ P!JunkAssumption
  BY StepAssumption, ChunkAssumption

\* The buffer lemmas of CircBufferProofs, about the operations as the stream
\* writer names them.
LEMMA Empty == P!Good(CB!NewBuffer) /\ CB!Contents(CB!NewBuffer) = <<>>
               /\ CB!NewBuffer.bufused = 0
<1>1. P!Good(P!NewBuffer) /\ P!Contents(P!NewBuffer) = <<>>
  BY Assumptions, P!NewBufferGood
<1>2. CB!NewBuffer.bufused = 0
  BY DEF CB!NewBuffer
<1> QED BY <1>1, <1>2, Same

\* The ring's lemma on purple_circ_buffer_append, for this ring.
LEMMA Appended ==
    ASSUME NEW b, P!Good(b), NEW src \in Seq(Pos), ~CB!Overruns(b, Len(src))
    PROVE  /\ P!Good(CB!AppendBytes(b, src))
           /\ CB!Contents(CB!AppendBytes(b, src)) = CB!Contents(b) \o src
<1>1. PICK g : g = P!AppendBytes(b, src)
  OBVIOUS
<1>2. src \in Seq(Nat \ {0})
  BY DEF Pos
<1>3. ~P!Overruns(b, Len(src))
  BY Same
<1>4. P!Good(g) /\ P!Contents(g) = P!Contents(b) \o src
  BY <1>1, <1>2, <1>3, Assumptions, P!AppendKeeps
<1> QED BY <1>1, <1>4, Same

\* The ring's lemmas on get_max_read and mark_read, for this ring.
LEMMA Drained ==
    ASSUME NEW b, P!Good(b), NEW n \in 0..CB!MaxRead(b)
    PROVE  /\ P!Good(CB!MarkRead(b, n))
           /\ CB!Contents(CB!MarkRead(b, n))
                = SubSeq(CB!Contents(b), n + 1, Len(CB!Contents(b)))
           /\ CB!Readable(b, n) = SubSeq(CB!Contents(b), 1, n)
<1>1. PICK g : g = P!MarkRead(b, n)
  OBVIOUS
<1>2. n \in 0..P!MaxRead(b)
  BY Same
<1>3. /\ P!Good(g)
      /\ P!Contents(g) = SubSeq(P!Contents(b), n + 1, Len(P!Contents(b)))
  BY <1>1, <1>2, Assumptions, P!MarkReadKeeps
<1>4. P!Readable(b, n) = SubSeq(P!Contents(b), 1, n)
  BY <1>2, Assumptions, P!ReadableIsFront
<1> QED BY <1>1, <1>3, <1>4, Same

\* What is buffered is a sequence of bufused numbers, and get_max_read offers
\* some of them if there are any.
LEMMA Stored ==
    ASSUME NEW b, P!Good(b)
    PROVE  /\ b.bufused \in Nat
           /\ CB!Contents(b) \in Seq(Pos)
           /\ Len(CB!Contents(b)) = b.bufused
           /\ CB!MaxRead(b) \in 0..b.bufused
           /\ b.bufused > 0 => CB!MaxRead(b) > 0
<1>1. b.bufused \in Nat
  BY DEF P!Good
<1>2. /\ P!Contents(b) \in Seq(Nat \ {0}) /\ Len(P!Contents(b)) = b.bufused
  BY Assumptions, P!ContentsIsSeq
<1>3. P!MaxRead(b) \in 0..b.bufused /\ (b.bufused > 0 => P!MaxRead(b) > 0)
  BY Assumptions, P!MaxReadBounds
<1> QED BY <1>1, <1>2, <1>3, Same DEF Pos

-----------------------------------------------------------------------------
\* The next chunk continues the numbering.
LEMMA ChunkIsNext ==
    ASSUME sent \in Nat, NEW len \in 1..MaxChunk
    PROVE  /\ Chunk(len) \in Seq(Pos) /\ Len(Chunk(len)) = len
           /\ Numbers(sent) \in Seq(Pos)
           /\ Numbers(sent) \o Chunk(len) = Numbers(sent + len)
<1>1. len \in Nat \ {0}
  BY ChunkAssumption
<1>2. Chunk(len) \in Seq(Pos) /\ Len(Chunk(len)) = len
  BY <1>1 DEF Chunk, Pos
<1>3. Numbers(sent) \in Seq(Pos) /\ Len(Numbers(sent)) = sent
  BY DEF Numbers, Pos
<1>4. Numbers(sent + len) \in Seq(Pos) /\ Len(Numbers(sent + len)) = sent + len
  BY <1>1 DEF Numbers, Pos
<1>5. ASSUME NEW i \in 1..(sent + len)
      PROVE  (Numbers(sent) \o Chunk(len))[i] = Numbers(sent + len)[i]
  BY <1>1, <1>2, <1>3 DEF Numbers, Chunk
<1> DEFINE s == Numbers(sent) \o Chunk(len)
           t == Numbers(sent + len)
<1>6. s \in Seq(Pos) /\ Len(s) = sent + len
  BY <1>2, <1>3, ConcatProperties
<1> HIDE DEF s, t
<1>7. s = t
  BY <1>4, <1>5, <1>6, SeqEqual DEF s, t
<1> QED BY <1>2, <1>3, <1>7 DEF s, t

\* Cutting a sequence in two and joining the pieces gives it back.
LEMMA CutAndJoin ==
    ASSUME NEW s \in Seq(Pos), NEW n \in 0..Len(s)
    PROVE  /\ SubSeq(s, 1, n) \in Seq(Pos)
           /\ SubSeq(s, n + 1, Len(s)) \in Seq(Pos)
           /\ Len(SubSeq(s, n + 1, Len(s))) = Len(s) - n
           /\ SubSeq(s, 1, n) \o SubSeq(s, n + 1, Len(s)) = s
<1>1. Len(s) \in Nat /\ n \in Nat /\ n <= Len(s)
  OBVIOUS
<1>2. \A i \in 1..Len(s) : s[i] \in Pos
  OBVIOUS
<1>3. SubSeq(s, 1, n) \in Seq(Pos)
  BY <1>1, <1>2
<1>4. SubSeq(s, n + 1, Len(s)) \in Seq(Pos)
      /\ Len(SubSeq(s, n + 1, Len(s))) = Len(s) - n
  BY <1>1, <1>2
<1>5. SubSeq(s, 1, n) \o SubSeq(s, n + 1, Len(s)) = SubSeq(s, 1, Len(s))
  <2>1. 1 \in 1..(Len(s) + 1) /\ n \in (1 - 1)..Len(s) /\ Len(s) \in n..Len(s)
    BY <1>1
  <2> QED BY <2>1, ConcatAdjacentSubSeq
<1>6. SubSeq(s, 1, Len(s)) = s
  BY SubSeqFull
<1> QED BY <1>3, <1>4, <1>5, <1>6
-----------------------------------------------------------------------------
\* The invariant holds when the stream is made.
LEMMA InitInv == Init => IInv
<1> SUFFICES ASSUME Init PROVE IInv
  OBVIOUS
<1>1. P!Good(cb) /\ CB!Contents(cb) = <<>> /\ cb.bufused = 0
  BY Empty DEF Init
<1>2. wire \in Seq(Pos) /\ sent \in Nat
  BY DEF Init
<1>3. BufferedIsWatched
  BY <1>1 DEF BufferedIsWatched
<1>4. InOrder
  <2>1. Numbers(sent) = <<>> /\ wire = <<>>
    BY DEF Init, Numbers
  <2> QED BY <1>1, <2>1 DEF InOrder
<1> QED BY <1>1, <1>2, <1>3, <1>4 DEF IInv, Init

\* The bytes bs are appended to the buffer: watched, they may overrun it, and
\* behind w they are in order if they do not.
LEMMA BufferedInv ==
    ASSUME P!Good(cb), NEW bs \in Seq(Pos), Buffered(bs), writeh', ~overrun,
           NEW w \in Seq(Pos), NEW all,
           ~lost' => w \o (CB!Contents(cb) \o bs) = all
    PROVE  /\ overrun' \in BOOLEAN
           /\ ~overrun' => P!Good(cb')
           /\ ~overrun' /\ ~lost' => w \o CB!Contents(cb') = all
           /\ BufferedIsWatched'
<1>1. /\ cb' = CB!AppendBytes(cb, bs) /\ overrun' = CB!Overruns(cb, Len(bs))
  BY DEF Buffered
<1>2. overrun' \in BOOLEAN
  BY <1>1 DEF CB!Overruns
<1>3. ASSUME ~overrun'
      PROVE  P!Good(cb') /\ CB!Contents(cb') = CB!Contents(cb) \o bs
  BY <1>1, <1>3, Appended
<1>4. BufferedIsWatched'
  BY DEF BufferedIsWatched
<1> QED BY <1>2, <1>3, <1>4

\* do_jabber_send_raw, its three outcomes.
LEMMA SendInv ==
    ASSUME IInv, Send
    PROVE  IInv'
<1> PICK len \in 1..MaxChunk :
        /\ sent' = sent + len
        /\ \/ SendNow(Chunk(len))
           \/ SendLater(Chunk(len))
           \/ SendFails
  BY DEF Send
<1> DEFINE bs == Chunk(len)
           c == CB!Contents(cb)
<1>0. /\ open /\ open' = open /\ ~overrun /\ len \in Nat /\ sent' \in Nat
      /\ sent \in Nat /\ wire \in Seq(Pos) /\ P!Good(cb)
      /\ writeh \in BOOLEAN /\ lost \in BOOLEAN
  BY ChunkAssumption DEF Send, IInv
<1>1. /\ bs \in Seq(Pos) /\ Len(bs) = len /\ Numbers(sent) \in Seq(Pos)
      /\ Numbers(sent) \o bs = Numbers(sent')
  BY <1>0, ChunkIsNext
<1>2. /\ c \in Seq(Pos) /\ Len(c) = cb.bufused /\ cb.bufused \in Nat
  BY <1>0, Stored
<1>3. ~lost => wire \o c = Numbers(sent)
  BY <1>0 DEF IInv, InOrder
<1>4. ~writeh => c = <<>>
  <2> SUFFICES ASSUME ~writeh PROVE c = <<>>
    OBVIOUS
  <2>1. Len(c) = 0
    BY <1>2 DEF IInv, BufferedIsWatched
  <2> QED BY <1>2, <2>1, EmptySeq
<1> HIDE DEF bs, c
<1>5. CASE SendNow(bs)
  <2>1. PICK n \in 0..Len(bs) :
            /\ wire' = wire \o SubSeq(bs, 1, n)
            /\ writeh' = (n < Len(bs))
            /\ IF n < Len(bs) THEN Buffered(SubSeq(bs, n + 1, Len(bs)))
                              ELSE UNCHANGED <<cb, overrun>>
    BY <1>5 DEF SendNow, Written
  <2>2. ~writeh /\ lost' = lost /\ c = <<>>
    BY <1>4, <1>5 DEF SendNow
  <2> DEFINE l == SubSeq(bs, 1, n)
             r == SubSeq(bs, n + 1, Len(bs))
             w == wire \o l
  <2>3. /\ l \in Seq(Pos) /\ r \in Seq(Pos) /\ l \o r = bs
        /\ Len(r) = Len(bs) - n
    BY <1>1, CutAndJoin
  <2> HIDE DEF l, r
  <2>4. w \in Seq(Pos)
    BY <1>0, <2>3, ConcatProperties
  <2>5. ~lost => w \o r = Numbers(sent')
    <3> SUFFICES ASSUME ~lost PROVE w \o r = Numbers(sent')
      OBVIOUS
    <3>1. wire = Numbers(sent)
      BY <1>0, <1>3, <2>2, ConcatEmptySeq
    <3>2. (wire \o l) \o r = wire \o (l \o r)
      <4>1. wire \in Seq(Pos) /\ l \in Seq(Pos) /\ r \in Seq(Pos)
        BY <1>0, <2>3
      <4> QED BY <4>1, ConcatAssociative, SMTT(30)
    <3>3. w \o r = wire \o bs
      BY <2>3, <3>2
    <3> QED BY <1>1, <3>1, <3>3
  <2>6. c \o r = r
    BY <2>2, <2>3, ConcatEmptySeq
  <2>7. wire' = w
    BY <2>1 DEF l
  <2> HIDE DEF w
  <2>8. CASE n < Len(bs)
    <3>1. Buffered(r) /\ writeh'
      BY <2>1, <2>8 DEF r
    <3>2. /\ overrun' \in BOOLEAN
          /\ ~overrun' => P!Good(cb')
          /\ ~overrun' /\ ~lost' => w \o CB!Contents(cb') = Numbers(sent')
          /\ BufferedIsWatched'
      BY <1>0, <2>2, <2>3, <2>4, <2>5, <2>6, <3>1, BufferedInv DEF c
    <3> QED BY <1>0, <2>2, <2>4, <2>7, <3>1, <3>2 DEF IInv, InOrder, P!Good,
                CB!Contents, CB!Slot, Numbers
  <2>9. CASE ~(n < Len(bs))
    <3>1. cb' = cb /\ ~overrun' /\ writeh' = FALSE /\ overrun' \in BOOLEAN
      BY <1>0, <2>1, <2>9 DEF IInv
    <3>2. r = <<>>
      <4>1. Len(r) = 0
        BY <1>0, <1>1, <2>3, <2>9
      <4> QED BY <2>3, <4>1, EmptySeq
    <3>3. BufferedIsWatched'
      BY <2>2, <3>1 DEF IInv, BufferedIsWatched
    <3>4. InOrder'
      <4>1. ~lost => w \o CB!Contents(cb) = Numbers(sent')
        BY <2>2, <2>5, <3>2 DEF c
      <4> QED BY <2>2, <2>7, <3>1, <4>1 DEF InOrder, CB!Contents, CB!Slot, Numbers
    <3> QED BY <1>0, <2>2, <2>4, <2>7, <3>1, <3>3, <3>4 DEF IInv, P!Good
  <2> QED BY <2>8, <2>9
<1>6. CASE SendLater(bs)
  <2>1. /\ writeh /\ writeh' = writeh /\ wire' = wire /\ lost' = lost
        /\ Buffered(bs)
    BY <1>6 DEF SendLater
  <2>2. ~lost => wire \o (c \o bs) = Numbers(sent')
    <3>1. (wire \o c) \o bs = wire \o (c \o bs)
      BY <1>0, <1>1, <1>2, ConcatAssociative, SMTT(30)
    <3> QED BY <1>1, <1>3, <3>1
  <2>3. /\ overrun' \in BOOLEAN
        /\ ~overrun' => P!Good(cb')
        /\ ~overrun' /\ ~lost' => wire \o CB!Contents(cb') = Numbers(sent')
        /\ BufferedIsWatched'
    BY <1>0, <1>1, <2>1, <2>2, BufferedInv DEF c
  <2> QED BY <1>0, <2>1, <2>3 DEF IInv, InOrder, P!Good, CB!Contents, CB!Slot,
              Numbers
<1>7. CASE SendFails
  BY <1>0, <1>7 DEF SendFails, IInv, InOrder, BufferedIsWatched, P!Good
<1> QED BY <1>5, <1>6, <1>7 DEF bs

\* jabber_send_cb writing to the socket.
LEMMA SendCbInv ==
    ASSUME IInv, SendCbWrites
    PROVE  IInv'
<1> DEFINE c == CB!Contents(cb)
           m == CB!MaxRead(cb)
<1>0. /\ sent \in Nat /\ wire \in Seq(Pos) /\ P!Good(cb) /\ open /\ writeh
      /\ lost \in BOOLEAN
      /\ writeh' = writeh /\ sent' = sent /\ lost' = lost /\ open' = open
      /\ ~overrun /\ overrun' = overrun
  BY DEF SendCbWrites, IInv
<1>1. PICK n \in 1..m : /\ wire' = wire \o SubSeq(CB!Readable(cb, m), 1, n)
                        /\ cb' = CB!MarkRead(cb, n)
  BY DEF SendCbWrites, Written
<1>2. c \in Seq(Pos) /\ Len(c) \in Nat /\ m \in 0..Len(c)
  BY <1>0, Stored
<1>3. n \in 0..m /\ m \in 0..m /\ n \in 0..Len(c)
  BY <1>2
<1> HIDE DEF c, m
<1>4. /\ P!Good(cb') /\ CB!Contents(cb') = SubSeq(c, n + 1, Len(c))
  BY <1>0, <1>1, <1>3, Drained DEF c, m
<1>5. CB!Readable(cb, m) = SubSeq(c, 1, m)
  BY <1>0, <1>3, Drained DEF c, m
<1>6. SubSeq(SubSeq(c, 1, m), 1, n) = SubSeq(c, 1, n)
  <2>1. /\ 1 \in 1..Len(c) /\ m \in 1..Len(c)
        /\ 1 \in 1..(m - 1 + 1) /\ n \in 1..(m - 1 + 1)
        /\ 1 + 1 - 1 = 1 /\ 1 + n - 1 = n
    BY <1>2, <1>3
  <2> QED BY <1>2, <2>1, SubSeqOfSubSeq
<1>7. /\ SubSeq(c, 1, n) \in Seq(Pos) /\ SubSeq(c, n + 1, Len(c)) \in Seq(Pos)
      /\ SubSeq(c, 1, n) \o SubSeq(c, n + 1, Len(c)) = c
  BY <1>2, <1>3, CutAndJoin
<1>8. wire' = wire \o SubSeq(c, 1, n) /\ wire' \in Seq(Pos)
  BY <1>0, <1>1, <1>5, <1>6, <1>7, ConcatProperties
<1>9. InOrder'
  <2> SUFFICES ASSUME ~lost PROVE wire' \o CB!Contents(cb') = Numbers(sent')
    BY <1>0 DEF InOrder, CB!Contents, CB!Slot, Numbers
  <2>1. wire \o c = Numbers(sent)
    BY <1>0 DEF IInv, InOrder, c
  <2>2. (wire \o SubSeq(c, 1, n)) \o SubSeq(c, n + 1, Len(c)) = wire \o c
    <3> DEFINE l == SubSeq(c, 1, n)
               r == SubSeq(c, n + 1, Len(c))
    <3>1. wire \in Seq(Pos) /\ l \in Seq(Pos) /\ r \in Seq(Pos)
      BY <1>0, <1>7
    <3>2. l \o r = c
      BY <1>7
    <3> HIDE DEF l, r
    <3>3. (wire \o l) \o r = wire \o (l \o r)
      BY <3>1, ConcatAssociative
    <3> QED BY <3>2, <3>3 DEF l, r
  <2> QED BY <1>0, <1>4, <1>8, <2>1, <2>2
<1> QED BY <1>0, <1>4, <1>8, <1>9 DEF IInv, BufferedIsWatched, P!Good

\* Every step keeps the invariant.
LEMMA NextInv ==
    ASSUME IInv, [Next]_vars
    PROVE  IInv'
<1>1. CASE Send
  BY <1>1, SendInv
<1>2. CASE SendCbIdle
  <2>1. /\ UNCHANGED <<cb, wire, sent, lost, open, overrun>> /\ writeh' = FALSE
        /\ CB!MaxRead(cb) = 0 /\ ~overrun /\ P!Good(cb)
    BY <1>2 DEF SendCbIdle, IInv
  <2>2. cb.bufused = 0
    BY <2>1, Stored
  <2>3. InOrder'
    BY <2>1 DEF IInv, InOrder, CB!Contents, CB!Slot, Numbers
  <2>4. BufferedIsWatched'
    BY <2>1, <2>2, Stored DEF BufferedIsWatched
  <2>5. P!Good(cb')
    BY <2>1
  <2> QED BY <2>1, <2>3, <2>4, <2>5 DEF IInv, P!Good
<1>3. CASE SendCbWrites
  BY <1>3, SendCbInv
<1>4. CASE SendCbFails
  BY <1>4 DEF SendCbFails, IInv, BufferedIsWatched, InOrder, P!Good
<1>5. CASE Close
  <2>1. PICK len \in 1..MaxChunk :
            /\ sent' = sent + len
            /\ \/ \E n \in 0..len : Written(Chunk(len), n)
               \/ UNCHANGED wire
    BY <1>5 DEF Close
  <2>2. /\ open' = FALSE /\ writeh' = FALSE /\ lost' = lost
        /\ cb' = CB!NewBuffer /\ overrun' = overrun
    BY <1>5 DEF Close
  <2>3. sent' \in Nat /\ sent \in Nat
    BY <2>1, ChunkAssumption DEF IInv
  <2>4. wire' \in Seq(Pos)
    <3>1. CASE \E n \in 0..len : Written(Chunk(len), n)
      <4>1. PICK n \in 0..len : wire' = wire \o SubSeq(Chunk(len), 1, n)
        BY <3>1 DEF Written
      <4>2. Chunk(len) \in Seq(Pos) /\ Len(Chunk(len)) = len
        BY <2>3, ChunkIsNext
      <4>3. SubSeq(Chunk(len), 1, n) \in Seq(Pos)
        BY <4>2, CutAndJoin
      <4> QED BY <4>1, <4>3, ConcatProperties DEF IInv
    <3>2. CASE UNCHANGED wire
      BY <3>2 DEF IInv
    <3> QED BY <2>1, <3>1, <3>2
  <2>5. P!Good(cb') /\ cb'.bufused = 0
    BY <2>2, Empty
  <2>6. BufferedIsWatched' /\ InOrder'
    BY <2>2, <2>5 DEF BufferedIsWatched, InOrder
  <2> QED BY <2>2, <2>3, <2>4, <2>5, <2>6 DEF IInv, P!Good
<1>6. CASE UNCHANGED vars
  BY <1>6 DEF vars, IInv, BufferedIsWatched, InOrder, P!Good,
              CB!Contents, CB!Slot
<1> QED BY <1>1, <1>2, <1>3, <1>4, <1>5, <1>6 DEF Next

\* The model's bound on what the protocol sends: until it closes, when
\* jabber_close adds a last stanza.
Bounded ==
    /\ sent \in Nat /\ open \in BOOLEAN
    /\ open => sent <= MaxSent
    /\ sent <= MaxSent + MaxChunk

\* do_jabber_send_raw keeps the bound, and jabber_close comes once.
LEMMA BoundedInv == Spec => []Bounded
<1>1. Init => Bounded
  BY ChunkAssumption DEF Init, Bounded
<1>2. Bounded /\ [Next]_vars => Bounded'
  <2> SUFFICES ASSUME Bounded, [Next]_vars PROVE Bounded'
    OBVIOUS
  <2>1. CASE Send
    <3>1. PICK len \in 1..MaxChunk : sent + len <= MaxSent /\ sent' = sent + len
      BY <2>1 DEF Send
    <3>2. open' = TRUE
      BY <2>1 DEF Send, Bounded
    <3> QED BY <3>1, <3>2, ChunkAssumption DEF Bounded
  <2>2. CASE Close
    <3>1. PICK len \in 1..MaxChunk : sent' = sent + len
      BY <2>2 DEF Close
    <3>2. open' = FALSE /\ open
      BY <2>2 DEF Close
    <3>3. sent \in Nat /\ sent <= MaxSent /\ len \in Nat /\ len <= MaxChunk
      BY <3>2, ChunkAssumption DEF Bounded
    <3>4. sent' \in Nat /\ sent' <= MaxSent + MaxChunk
      BY <3>1, <3>3, ChunkAssumption
    <3> QED BY <3>2, <3>4 DEF Bounded
  <2>3. CASE SendCbIdle \/ SendCbWrites \/ SendCbFails \/ UNCHANGED vars
    BY <2>3 DEF SendCbIdle, SendCbWrites, SendCbFails, vars, Bounded
  <2> QED BY <2>1, <2>2, <2>3 DEF Next
<1> QED BY <1>1, <1>2, PTL DEF Spec

\* The state of the stream has its type, and do_jabber_send_raw and
\* jabber_send_cb only ever give the socket bytes that were to be sent, never
\* memory nobody wrote; until it is overrun, the pointers of the buffer are inside
\* its allocation.
THEOREM TypeCorrect == Spec => []TypeOK
<1>1. IInv /\ Bounded => TypeOK
  <2> SUFFICES ASSUME IInv, Bounded PROVE TypeOK
    OBVIOUS
  <2>1. ~overrun => CB!TypeOK
    BY DEF IInv, P!Good, CB!TypeOK
  <2>2. sent \in 0..(MaxSent + MaxChunk)
    BY ChunkAssumption DEF Bounded
  <2> QED BY <2>1, <2>2 DEF IInv, TypeOK, Pos
<1>2. IInv /\ [Next]_vars => IInv'
  BY NextInv
<1> QED BY <1>1, <1>2, InitInv, BoundedInv, PTL DEF Spec

\* The stream the server reads is the stream the client wrote: for stanzas of any
\* length, until an error is reported or one of them overruns the buffer, the
\* wire followed by the buffer is all the bytes sent, in order.
THEOREM StreamInOrder == Spec => []InOrder
<1>1. IInv => InOrder
  BY DEF IInv
<1>2. IInv /\ [Next]_vars => IInv'
  BY NextInv
<1> QED BY <1>1, <1>2, InitInv, PTL DEF Spec

\* Whenever bytes are buffered, the write watcher that drains them is there: for
\* stanzas of any length, and also in a buffer that was overrun.
THEOREM BufferIsWatched == Spec => []BufferedIsWatched
<1>1. IInv => BufferedIsWatched
  BY DEF IInv
<1>2. IInv /\ [Next]_vars => IInv'
  BY NextInv
<1> QED BY <1>1, <1>2, InitInv, PTL DEF Spec
=============================================================================

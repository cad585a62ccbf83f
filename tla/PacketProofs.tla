----------------------------- MODULE PacketProofs -----------------------------
(***************************************************************************)
(* What TCPState promises, for sequence numbers of any width, anywhere on  *)
(* their circle.                                                           *)
(*                                                                         *)
(* What the checksum of every header promises, whatever the bytes: the sum *)
(* that a receiver forms over what was sent folds to nothing but ones, and *)
(* one word that is not what was sent shows. Sums stay below 2^32, as the  *)
(* unsigned int of OnesComplementSum does for any packet.                  *)
(*                                                                         *)
(* Then what becomes of a packet on its way, byte by byte: the fields of   *)
(* a header do not disturb each other, a header comes out of its           *)
(* constructor and setters with a correct checksum, a packet comes out of  *)
(* a FIFO as it went in, the receiver cuts the headers off a frame where   *)
(* the sender put them, and what ip_module passes up is what was sent.     *)
(***************************************************************************)
EXTENDS PacketPath, TcpState, WellFoundedInduction, TLAPS

\* How far b is ahead of a on the circle of sequence numbers.
Ahead(a, b) == IF b >= a THEN b - a ELSE b + W - a

\* tcpstate.cc:44-68: but for one value of last_sent, an acknowledgement is
\* accepted if and only if it is ahead of last_acked and at most one byte ahead
\* of last_sent, wherever the numbers wrap. The bytes that leave SendBuffer are
\* then one more than those by which last_acked advances.
THEOREM AckIsInWindow ==
  ASSUME W \in Nat, W > 1,
         NEW acked \in Unsigned, NEW sent \in Unsigned, NEW newack \in Unsigned,
         sent # W - 1
  PROVE  /\ SetLastAcked(acked, sent, newack).ok
              <=> Ahead(acked, newack) >= 1 /\ Ahead(acked, newack) <= Ahead(acked, sent) + 1
         /\ SetLastAcked(acked, sent, newack).ok =>
              SetLastAcked(acked, sent, newack).erased =
                Ahead(acked, SetLastAcked(acked, sent, newack).last_acked) + 1
<1> DEFINE ok == Accepted(acked, sent, newack)
<1>1. /\ acked \in Int /\ 0 <= acked /\ acked < W
      /\ sent \in Int /\ 0 <= sent /\ sent < W - 1
      /\ newack \in Int /\ 0 <= newack /\ newack < W
  BY DEF Unsigned
<1>2. Wrap(sent + 1) = sent + 1
  BY <1>1 DEF Wrap
<1>3. ok <=> Ahead(acked, newack) >= 1 /\ Ahead(acked, newack) <= Ahead(acked, sent) + 1
  BY <1>1, <1>2 DEF Accepted, Ahead
<1>4. ok => Erased(acked, newack) = Ahead(acked, Wrap(newack - 1)) + 1
  BY <1>1, <1>2 DEF Accepted, Erased, Wrap, Ahead
<1> QED
  BY <1>3, <1>4 DEF SetLastAcked

\* tcpstate.cc:46-47: last_sent + 1 wraps to 0 when the last byte sent has the
\* greatest number there is, and then no acknowledgement is ever accepted.
THEOREM NoAckAtTheWrap ==
  ASSUME W \in Nat, W > 1,
         NEW acked \in Unsigned, NEW newack \in Unsigned
  PROVE  ~ SetLastAcked(acked, W - 1, newack).ok
<1>1. acked <= W - 1 /\ acked \in Nat /\ newack \in Nat
  BY DEF Unsigned
<1>2. Wrap(W - 1 + 1) = 0
  BY DEF Wrap
<1>3. ~ Accepted(acked, W - 1, newack)
  BY <1>1, <1>2 DEF Accepted
<1> QED
  BY <1>3 DEF SetLastAcked

\* tcpstate.cc:49, 62: an acknowledgement that comes twice takes a byte each
\* time, although nothing new is acknowledged.
THEOREM AckedTwiceErasesAByte ==
  ASSUME W \in Nat, W > 1,
         NEW acked \in Unsigned, NEW sent \in Unsigned,
         sent # W - 1
  PROVE  SetLastAcked(acked, sent, Wrap(acked + 1)) =
           [ok |-> TRUE, erased |-> 1, last_acked |-> acked]
<1> DEFINE newack == Wrap(acked + 1)
<1>1. /\ acked \in Int /\ 0 <= acked /\ acked < W
      /\ sent \in Int /\ 0 <= sent /\ sent < W - 1
  BY DEF Unsigned
<1>2. (acked < W - 1 /\ newack = acked + 1) \/ (acked = W - 1 /\ newack = 0)
  BY <1>1 DEF Wrap
<1>3. Wrap(sent + 1) = sent + 1
  BY <1>1 DEF Wrap
<1> HIDE DEF newack
<1>4. Accepted(acked, sent, newack)
  BY <1>1, <1>2, <1>3 DEF Accepted
<1>5. Erased(acked, newack) = 1
  BY <1>1, <1>2 DEF Erased, Wrap
<1>6. Wrap(newack - 1) = acked
  BY <1>1, <1>2 DEF Wrap
<1> QED
  BY <1>4, <1>5, <1>6 DEF SetLastAcked, newack

\* tcpstate.cc:95-106: while no more is in flight than either window admits,
\* what is sent next stays in both, wherever the numbers wrap. (With a window
\* that has shrunk below what is in flight, rwnd - offsetlastsent wraps, and
\* only the other bounds are left.)
THEOREM SendsWithinTheWindow ==
  ASSUME W \in Nat, W > 1,
         NEW acked \in Unsigned, NEW sent \in Unsigned,
         NEW rwnd \in Unsigned, NEW bytes \in Unsigned,
         TCP_MAXIMUM_SEGMENT_SIZE \in Nat, N < W,
         Ahead(acked, sent) <= rwnd,
         Ahead(acked, sent) <= N
  PROVE  LET s == SendPacketPayload(acked, sent, rwnd, bytes)
         IN  /\ s.offsetlastsent = Ahead(acked, sent)
             /\ s.offsetlastsent + s.bytesize <= rwnd
             /\ s.offsetlastsent + s.bytesize <= N
             /\ s.bytesize <= bytes
             /\ s.bytesize <= TCP_MAXIMUM_SEGMENT_SIZE
<1> DEFINE off == OffsetLastSent(acked, sent)
           room == Lesser(Wrap(rwnd - off), Wrap(N - off))
           size == Lesser(Lesser(room, bytes), TCP_MAXIMUM_SEGMENT_SIZE)
<1>1. /\ acked \in Int /\ 0 <= acked /\ acked < W
      /\ sent \in Int /\ 0 <= sent /\ sent < W
      /\ rwnd \in Int /\ 0 <= rwnd /\ rwnd < W
      /\ bytes \in Int /\ 0 <= bytes
  BY DEF Unsigned
<1>2. off = Ahead(acked, sent) /\ off \in Nat
  BY <1>1 DEF OffsetLastSent, Ahead, Wrap
<1>3. N \in Int
  BY DEF N
<1> HIDE DEF off
<1>4. Wrap(rwnd - off) = rwnd - off /\ Wrap(N - off) = N - off
  BY <1>1, <1>2, <1>3 DEF Wrap
<1>5. /\ size \in Int
      /\ off + size <= rwnd /\ off + size <= N
      /\ size <= bytes /\ size <= TCP_MAXIMUM_SEGMENT_SIZE
  BY <1>1, <1>2, <1>3, <1>4 DEF Lesser
<1> QED
  BY <1>2, <1>5 DEF SendPacketPayload, off

\* tcpstate.cc:78-92: a segment that is accepted is the next one, and fits the
\* buffer that GetRwnd tells the peer of, whose size never wraps.
THEOREM ReceivesWithinTheBuffer ==
  ASSUME W \in Nat, W > 1, TCP_MAXIMUM_SEGMENT_SIZE \in Nat, TCP_BUFFER_SIZE + N < W,
         NEW recvd \in Unsigned, NEW size \in Nat, size <= TCP_BUFFER_SIZE,
         NEW first \in Unsigned, NEW length \in Unsigned,
         SetLastRecvd(recvd, size, first, length).ok
  PROVE  /\ Ahead(recvd, first) = 1
         /\ length <= GetRwnd(size)
         /\ SetLastRecvd(recvd, size, first, length).last_recvd = Wrap(recvd + length)
<1>1. /\ recvd \in Int /\ 0 <= recvd /\ recvd < W
      /\ length \in Int /\ 0 <= length /\ length < W
  BY DEF Unsigned
<1>2. /\ first = Wrap(recvd + 1) /\ length <= N /\ Wrap(size + length) <= TCP_BUFFER_SIZE
      /\ SetLastRecvd(recvd, size, first, length).last_recvd = Wrap(recvd + length)
  BY DEF SetLastRecvd
<1>3. N \in Nat /\ TCP_BUFFER_SIZE \in Nat
  BY DEF N, TCP_BUFFER_SIZE
<1>4. Wrap(size + length) = size + length
  BY <1>1, <1>2, <1>3 DEF Wrap
<1>5. GetRwnd(size) = TCP_BUFFER_SIZE - size
  BY <1>1, <1>3 DEF GetRwnd, Wrap
<1>6. Ahead(recvd, first) = 1
  BY <1>1, <1>2 DEF Ahead, Wrap
<1>7. length <= GetRwnd(size)
  BY <1>1, <1>2, <1>3, <1>4, <1>5
<1> QED
  BY <1>2, <1>6, <1>7

Sum32 == {n \in Nat : n < 4294967296}

\* What leaves room for one word more.
Room32 == {n \in Nat : n + 65535 < 4294967296}

IsWord(w) == w \in Nat /\ w <= 65535

\* util.cc:264: a sum is 65536 times its carry and its low word.
LEMMA Halves ==
  ASSUME NEW s \in Sum32
  PROVE  /\ IsWord(s \div 65536)
         /\ IsWord(s % 65536)
         /\ s = 65536 * (s \div 65536) + (s % 65536)
<1> DEFINE h == s \div 65536
           l == s % 65536
<1>1. h \in Nat /\ l \in Nat /\ l <= 65535
  BY SMT DEF Sum32
<1>2. s % 65536 = s - 65536 * (s \div 65536)
  BY SMT DEF Sum32
<1>3. s \in Nat /\ s < 4294967296
  BY SMT DEF Sum32
<1>4. s = 65536 * h + l
  BY <1>1, <1>2, <1>3, SMT
<1> HIDE DEF h, l
<1>5. h <= 65535
  BY <1>1, <1>3, <1>4, SMT
<1>6. IsWord(h) /\ IsWord(l)
  BY <1>1, <1>5, SMT DEF IsWord
<1> QED
  BY <1>4, <1>6, SMT DEF h, l

\* util.cc:264: the first folding takes 65535 away for each carry.
LEMMA FirstFolding ==
  ASSUME NEW s \in Sum32
  PROVE  /\ FoldCarry(s) \in Nat /\ FoldCarry(s) <= 131070
         /\ FoldCarry(s) = s - 65535 * (s \div 65536)
         /\ FoldCarry(s) = 0 => s = 0
<1> DEFINE h == s \div 65536
           l == s % 65536
<1>1. IsWord(h) /\ IsWord(l) /\ s = 65536 * h + l
  BY Halves, SMT
<1>2. FoldCarry(s) = l + h
  BY SMT DEF FoldCarry
<1> HIDE DEF h, l
<1>3. /\ FoldCarry(s) \in Nat /\ FoldCarry(s) <= 131070
      /\ FoldCarry(s) = s - 65535 * h
      /\ FoldCarry(s) = 0 => s = 0
  BY <1>1, <1>2, SMT DEF IsWord, Sum32
<1> QED
  BY <1>3, SMT DEF h

\* util.cc:266: after the second there is no carry left.
LEMMA SecondFolding ==
  ASSUME NEW t \in Nat, t <= 131070
  PROVE  /\ IsWord(FoldCarry(t))
         /\ FoldCarry(t) % 65536 = FoldCarry(t)
         /\ FoldCarry(t) = t \/ FoldCarry(t) = t - 65535
         /\ FoldCarry(t) = 0 => t = 0
<1> DEFINE u == FoldCarry(t)
<1>1. CASE t < 65536
  <2>1. t % 65536 = t /\ t \div 65536 = 0
    BY <1>1, SMT
  <2>2. u = t
    BY <2>1, SMT DEF FoldCarry
  <2> QED
    BY <1>1, <2>1, <2>2, SMT DEF IsWord
<1>2. CASE t >= 65536
  <2>1. t % 65536 = t - 65536 /\ t \div 65536 = 1
    BY <1>2, SMT
  <2>2. u = t - 65535
    BY <2>1, SMT DEF FoldCarry
  <2> HIDE DEF u
  <2>3. u \in Nat /\ u < 65536 /\ u # 0
    BY <1>2, <2>2, SMT
  <2>4. u % 65536 = u
    BY <2>3, SMT
  <2>5. IsWord(u)
    BY <2>3, SMT DEF IsWord
  <2> QED
    BY <2>2, <2>3, <2>4, <2>5 DEF u
<1> QED
  BY <1>1, <1>2, SMT

\* util.cc:252-271: what is left is the sum without a number of times 65535,
\* and 0 only if there was nothing to add.
THEOREM FoldedIsTheResidue ==
  ASSUME NEW s \in Sum32
  PROVE  /\ IsWord(Folded(s))
         /\ \E k \in Nat : s = 65535 * k + Folded(s)
         /\ Folded(s) = 0 => s = 0
<1> DEFINE t == FoldCarry(s)
           h == s \div 65536
           f == Folded(s)
<1>1. t \in Nat /\ t <= 131070 /\ t = s - 65535 * h /\ (t = 0 => s = 0)
  BY FirstFolding
<1>2. h \in Nat
  <2>1. IsWord(h)
    BY Halves
  <2> HIDE DEF h
  <2> QED
    BY <2>1, SMT DEF IsWord
<1>3. f = FoldCarry(t) % 65536
  BY DEF Folded
<1>4. s \in Int
  BY SMT DEF Sum32
<1> HIDE DEF t, h, f
<1>5. /\ IsWord(f)
      /\ f = t \/ f = t - 65535
      /\ f = 0 => t = 0
  BY <1>1, <1>3, SecondFolding
<1>6. \E k \in Nat : s = 65535 * k + f
  <2>1. CASE f = t
    <3>1. s = 65535 * h + f
      BY <1>1, <1>2, <1>4, <2>1, SMT
    <3> QED
      BY <1>2, <3>1
  <2>2. CASE f = t - 65535
    <3>1. s = 65535 * (h + 1) + f
      BY <1>1, <1>2, <1>4, <2>2, SMT
    <3>2. h + 1 \in Nat
      BY <1>2, SMT
    <3> QED
      BY <3>1, <3>2
  <2> QED
    BY <1>5, <2>1, <2>2
<1> QED
  BY <1>1, <1>5, <1>6 DEF f

\* ip.cc:285-308, udp.cc:73-131, tcp.cc:158-221, icmp.cc:199-229: a header with
\* the checksum that RecomputeChecksum puts where there were zeros is found
\* correct, whatever the sum of its other words.
THEOREM ChecksumVerifies ==
  ASSUME NEW s \in Room32
  PROVE  Complement(Folded(s + Complement(Folded(s)))) = 0
<1> DEFINE f == Folded(s)
           c == Complement(f)
           t == s + c
           g == Folded(t)
<1>0. s \in Nat
  BY SMT DEF Room32
<1>1. s \in Sum32
  BY SMT DEF Sum32, Room32
<1>2. IsWord(f)
  BY <1>1, FoldedIsTheResidue
<1>3. PICK k \in Nat : s = 65535 * k + f
  BY <1>1, FoldedIsTheResidue
<1> HIDE DEF f
<1>4. f \in Int /\ 0 <= f /\ f <= 65535
  BY <1>2, SMT DEF IsWord
<1>5. c = 65535 - f
  BY DEF Complement
<1> HIDE DEF c
<1>6. t = 65535 * (k + 1) /\ t # 0 /\ t \in Nat /\ t < 4294967296
  BY <1>0, <1>3, <1>4, <1>5, SMT DEF Room32
<1> HIDE DEF t
<1>7. t \in Sum32
  BY <1>6, SMT DEF Sum32
<1>8. IsWord(g) /\ g # 0
  BY <1>6, <1>7, FoldedIsTheResidue
<1>9. PICK m \in Nat : t = 65535 * m + g
  BY <1>7, FoldedIsTheResidue
<1> HIDE DEF g
<1>10. g \in Int /\ 1 <= g /\ g <= 65535
  BY <1>8, SMT DEF IsWord
<1>11. g = 65535
  BY <1>6, <1>9, <1>10, SMT
<1>12. Complement(g) = 0
  BY <1>11, SMT DEF Complement
<1> QED
  BY <1>12 DEF f, c, t, g

\* The same lines: if one word is another than was sent, the checksum is
\* another one, but for a word of zeros that becomes one of ones or the reverse.
THEOREM OneWordShows ==
  ASSUME NEW s \in Room32, NEW v \in Nat, v <= 65535, NEW w \in Nat, w <= 65535,
         v # w,
         ~ (v = 0 /\ w = 65535),
         ~ (v = 65535 /\ w = 0)
  PROVE  Folded(s + v) # Folded(s + w)
<1> DEFINE a == s + v
           b == s + w
           f == Folded(a)
<1>1. v \in Int /\ 0 <= v /\ v <= 65535 /\ w \in Int /\ 0 <= w /\ w <= 65535
  BY SMT DEF IsWord
<1>0. s \in Nat
  BY SMT DEF Room32
<1>2. a \in Sum32 /\ b \in Sum32
  BY <1>0, <1>1, SMT DEF Sum32, Room32
<1>3. a = s + v /\ b = s + w
  OBVIOUS
<1> HIDE DEF a, b
<1>4. SUFFICES ASSUME Folded(b) = f PROVE FALSE
  BY DEF a, b
<1>5. PICK k \in Nat : a = 65535 * k + f
  BY <1>2, FoldedIsTheResidue
<1>6. PICK m \in Nat : b = 65535 * m + Folded(b)
  BY <1>2, FoldedIsTheResidue
<1>7. IsWord(f)
  BY <1>2, FoldedIsTheResidue
<1>8. b = 65535 * m + f
  BY <1>4, <1>6
<1> HIDE DEF f
<1>9. f \in Int
  BY <1>7, SMT DEF IsWord
<1>10. v - w = 65535 * (k - m)
  BY <1>0, <1>1, <1>3, <1>5, <1>8, <1>9, SMT
<1> QED
  BY <1>1, <1>10, SMT

-----------------------------------------------------------------------------
(***************************************************************************)
(* Buffers.                                                                *)
(***************************************************************************)
LEMMA Concat ==
  ASSUME NEW S, NEW v \in Seq(S), NEW y \in Seq(S)
  PROVE  /\ v \o y \in Seq(S) /\ Len(v \o y) = Len(v) + Len(y)
         /\ \A i \in 1 .. Len(v \o y) : (v \o y)[i] = IF i <= Len(v) THEN v[i] ELSE y[i - Len(v)]
  OBVIOUS

\* What is written stands in its place, what was there stays, and between the
\* old end and the new there are zeros.
LEMMA SetDataIs ==
  ASSUME NEW b \in Seq(Byte), NEW data \in Seq(Byte), NEW offset \in Nat
  PROVE  /\ SetData(b, data, offset) \in Seq(Byte)
         /\ Len(SetData(b, data, offset)) =
              IF offset + Len(data) > Len(b) THEN offset + Len(data) ELSE Len(b)
         /\ \A i \in 1 .. Len(SetData(b, data, offset)) :
              SetData(b, data, offset)[i] =
                IF i <= offset
                  THEN IF i <= Len(b) THEN b[i] ELSE 0
                  ELSE IF i <= offset + Len(data) THEN data[i - offset] ELSE b[i]
<1> DEFINE n == IF offset > Len(b) THEN offset - Len(b) ELSE 0
           x == SubSeq(b, 1, Smaller(offset, Len(b)))
           g == Zeros(n)
           y == SubSeq(b, offset + Len(data) + 1, Len(b))
           r == SetData(b, data, offset)
<1>1. r = x \o g \o data \o y
  BY DEF SetData
<1>2. n \in Nat /\ g \in Seq(Byte) /\ Len(g) = n /\ \A i \in 1 .. n : g[i] = 0
  <2>1. n \in Nat OBVIOUS
  <2> HIDE DEF n
  <2> QED BY <2>1 DEF Zeros, Byte
<1>3. /\ x \in Seq(Byte) /\ Len(x) = Smaller(offset, Len(b))
      /\ \A i \in 1 .. Len(x) : x[i] = b[i]
  BY DEF Smaller
<1>4. /\ y \in Seq(Byte)
      /\ Len(y) = IF offset + Len(data) > Len(b) THEN 0 ELSE Len(b) - (offset + Len(data))
      /\ \A i \in 1 .. Len(y) : y[i] = b[offset + Len(data) + i]
  OBVIOUS
<1>a. Len(b) \in Nat /\ Len(data) \in Nat /\ n = IF offset > Len(b) THEN offset - Len(b) ELSE 0
  OBVIOUS
<1> HIDE DEF x, g, y, r, n
<1>e. Len(x) = Smaller(offset, Len(b)) /\ Len(g) = n
  BY <1>2, <1>3
<1>5. Len(x) + Len(g) = offset
  <2>1. CASE offset > Len(b)
    <3>1. n = offset - Len(b) /\ Len(x) = Len(b) BY <1>a, <1>e, <2>1 DEF Smaller
    <3> QED BY <1>a, <1>e, <3>1
  <2>2. CASE offset <= Len(b)
    <3>1. n = 0 /\ Len(x) = offset BY <1>a, <1>e, <2>2 DEF Smaller
    <3> QED BY <1>a, <1>e, <3>1
  <2> QED BY <1>a, <2>1, <2>2
<1> DEFINE u == x \o g
           v == u \o data
<1>b. /\ u \in Seq(Byte) /\ Len(u) = offset
      /\ \A i \in 1 .. Len(u) : u[i] = IF i <= Len(x) THEN x[i] ELSE g[i - Len(x)]
  BY <1>2, <1>3, <1>5
<1> HIDE DEF u
<1>c. /\ v \in Seq(Byte) /\ Len(v) = offset + Len(data)
      /\ \A i \in 1 .. Len(v) : v[i] = IF i <= offset THEN u[i] ELSE data[i - offset]
  <2>1. u \in Seq(Byte) /\ Len(u) = offset BY <1>b
  <2> QED BY <2>1
<1>d. r = v \o y
  BY <1>1 DEF u
<1> HIDE DEF v
<1>6. /\ r \in Seq(Byte) /\ Len(r) = offset + Len(data) + Len(y)
      /\ \A i \in 1 .. Len(r) : r[i] = IF i <= offset + Len(data) THEN v[i] ELSE y[i - (offset + Len(data))]
  <2>1. v \in Seq(Byte) /\ Len(v) = offset + Len(data) /\ y \in Seq(Byte) BY <1>4, <1>c
  <2>2. r \in Seq(Byte) /\ Len(r) = Len(v) + Len(y) BY <2>1, <1>d, Concat
  <2>3. \A i \in 1 .. Len(r) : r[i] = IF i <= Len(v) THEN v[i] ELSE y[i - Len(v)]
    BY <2>1, <1>d, Concat
  <2> QED BY <2>1, <2>2, <2>3
<1>f. Len(y) = IF offset + Len(data) > Len(b) THEN 0 ELSE Len(b) - (offset + Len(data))
  BY <1>4
<1>g. Len(r) = offset + Len(data) + Len(y)
  BY <1>6
<1>7. ASSUME NEW i \in 1 .. Len(r)
      PROVE  r[i] = IF i <= offset THEN IF i <= Len(b) THEN b[i] ELSE 0
                    ELSE IF i <= offset + Len(data) THEN data[i - offset] ELSE b[i]
  <2>1. CASE i <= Len(x)
    <3>1. i <= offset /\ i <= Len(b)
      BY <2>1, <1>3, <1>a DEF Smaller
    <3>2. r[i] = v[i] BY <1>6, <1>a, <3>1
    <3>3. v[i] = u[i] BY <1>c, <1>a, <3>1
    <3>4. u[i] = x[i] BY <1>b, <2>1, <3>1
    <3>5. x[i] = b[i] BY <1>3, <2>1
    <3> QED BY <3>1, <3>2, <3>3, <3>4, <3>5
  <2>2. CASE i > Len(x) /\ i <= offset
    <3>1. r[i] = v[i] BY <1>6, <1>a, <2>2
    <3>2. v[i] = u[i] BY <1>c, <1>a, <2>2
    <3>3. u[i] = g[i - Len(x)] BY <1>b, <1>3, <2>2
    <3>4. i - Len(x) \in 1 .. n BY <1>2, <1>3, <1>5, <2>2
    <3>5. i > Len(b) BY <1>a, <1>3, <2>2 DEF Smaller
    <3> QED BY <1>2, <2>2, <3>1, <3>2, <3>3, <3>4, <3>5
  <2>3. CASE i > offset /\ i <= offset + Len(data)
    <3>1. r[i] = v[i] BY <1>6, <2>3
    <3>2. v[i] = data[i - offset] BY <1>c, <2>3
    <3> QED BY <2>3, <3>1, <3>2
  <2>4. CASE i > offset + Len(data)
    <3>1. r[i] = y[i - (offset + Len(data))] BY <1>6, <2>4
    <3>2. i - (offset + Len(data)) \in 1 .. Len(y)
      <4>1. i \in Nat /\ i <= offset + Len(data) + Len(y) BY <1>g
      <4>2. Len(y) \in Nat BY <1>a, <1>f
      <4> QED BY <1>a, <2>4, <4>1, <4>2
    <3>3. y[i - (offset + Len(data))] = b[offset + Len(data) + (i - (offset + Len(data)))]
      BY <1>4, <3>2
    <3>4. offset + Len(data) + (i - (offset + Len(data))) = i
      BY <1>a
    <3>5. ~ (i <= offset) /\ ~ (i <= offset + Len(data))
      BY <1>a, <2>4
    <3> QED BY <3>1, <3>3, <3>4, <3>5
  <2>5. Len(x) \in Nat /\ i \in Nat
    BY <1>3
  <2> QED BY <2>1, <2>2, <2>3, <2>4, <2>5, <1>a
<1>8. Len(r) = IF offset + Len(data) > Len(b) THEN offset + Len(data) ELSE Len(b)
  <2>1. CASE offset + Len(data) > Len(b)
    BY <1>a, <1>f, <1>g, <2>1
  <2>2. CASE ~ (offset + Len(data) > Len(b))
    <3>1. Len(y) = Len(b) - (offset + Len(data)) BY <1>f, <2>2
    <3> QED BY <1>a, <1>g, <2>2, <3>1
  <2> QED BY <2>1, <2>2
<1> QED BY <1>6, <1>7, <1>8 DEF r

\* The special case of what stays within the buffer.
LEMMA SetDataWithin ==
  ASSUME NEW b \in Seq(Byte), NEW data \in Seq(Byte), NEW offset \in Nat,
         offset + Len(data) <= Len(b)
  PROVE  /\ SetData(b, data, offset) \in Seq(Byte)
         /\ Len(SetData(b, data, offset)) = Len(b)
         /\ \A i \in 1 .. Len(b) :
              SetData(b, data, offset)[i] =
                IF offset < i /\ i <= offset + Len(data) THEN data[i - offset] ELSE b[i]
<1> DEFINE r == SetData(b, data, offset)
<1>1. r \in Seq(Byte) /\ Len(r) = Len(b)
  BY SetDataIs
<1>2. \A i \in 1 .. Len(r) :
        r[i] = IF i <= offset THEN IF i <= Len(b) THEN b[i] ELSE 0
               ELSE IF i <= offset + Len(data) THEN data[i - offset] ELSE b[i]
  BY SetDataIs
<1> HIDE DEF r
<1>3. \A i \in 1 .. Len(b) :
        r[i] = IF offset < i /\ i <= offset + Len(data) THEN data[i - offset] ELSE b[i]
  BY <1>1, <1>2
<1> QED BY <1>1, <1>3 DEF r

LEMMA GetDataIs ==
  ASSUME NEW b \in Seq(Byte), NEW size \in Nat, NEW offset \in Nat,
         offset + size <= Len(b)
  PROVE  /\ GetData(b, size, offset) \in Seq(Byte)
         /\ Len(GetData(b, size, offset)) = size
         /\ \A i \in 1 .. size : GetData(b, size, offset)[i] = b[offset + i]
  BY DEF GetData, Smaller

LEMMA GetAll ==
  ASSUME NEW b \in Seq(Byte), NEW size \in Nat, size >= Len(b)
  PROVE  GetData(b, size, 0) = b
  BY DEF GetData, Smaller

LEMMA HtonsIs ==
  ASSUME NEW n \in Int
  PROVE  /\ htons(n) \in Seq(Byte) /\ Len(htons(n)) = 2
         /\ htons(n)[1] = (n \div 256) % 256 /\ htons(n)[2] = n % 256
<1>1. (n \div 256) % 256 \in Byte /\ n % 256 \in Byte
  BY DEF Byte
<1> QED BY <1>1 DEF htons

LEMMA NetworkOrder ==
  ASSUME NEW n, IsWord(n)
  PROVE  256 * htons(n)[1] + htons(n)[2] = n
<1>0. n \in Nat /\ n <= 65535
  BY SMT DEF IsWord
<1>1. n \in Nat /\ n \div 256 < 256
  BY <1>0, SMT
<1>2. (n \div 256) % 256 = n \div 256
  BY <1>1, SMT
<1>3. n = 256 * (n \div 256) + (n % 256)
  BY <1>1, SMT
<1> QED BY <1>2, <1>3, SMT DEF htons

-----------------------------------------------------------------------------
(***************************************************************************)
(* Sums of words.                                                          *)
(***************************************************************************)
LEMMA NatWellFounded == IsWellFoundedOn({ss \in Nat \X Nat : ss[1] < ss[2]}, Nat)
  BY NatLessThanWellFounded DEF OpToRel

LEMMA NatLeast ==
  ASSUME NEW T, T \subseteq Nat, T # {}
  PROVE  \E x \in T : \A y \in T : x <= y
<1> DEFINE R == {ss \in Nat \X Nat : ss[1] < ss[2]}
<1>1. \A x, y \in Nat : x < y => <<x, y>> \in R
  OBVIOUS
<1>2. IsWellFoundedOn(R, Nat)
  BY NatWellFounded
<1> HIDE DEF R
<1>3. PICK x \in T : \A y \in T : ~ (<<y, x>> \in R)
  BY <1>2, WFMin
<1>4. \A y \in T : ~ (y < x)
  BY <1>1, <1>3
<1> QED BY <1>4

\* Induction, for a set of naturals.
LEMMA NatSteps ==
  ASSUME NEW P, 0 \in P, \A n \in Nat : n \in P => n + 1 \in P
  PROVE  Nat \subseteq P
<1> SUFFICES ASSUME Nat \ P # {} PROVE FALSE
  OBVIOUS
<1>1. PICK x \in Nat \ P : \A y \in Nat \ P : x <= y
  <2>1. Nat \ P \subseteq Nat OBVIOUS
  <2> QED BY <2>1, NatLeast
<1>2. x # 0 /\ x - 1 \in Nat
  BY <1>1
<1>3. x - 1 \in P
  BY <1>1, <1>2
<1>4. (x - 1) + 1 \in P
  BY <1>2, <1>3
<1> QED BY <1>1, <1>4

LEMMA ByteIs == \A x \in Byte : x \in Nat /\ x <= 255
  BY DEF Byte

LEMMA WordsOf ==
  ASSUME NEW b \in Seq(Byte)
  PROVE  /\ Words(b) \in Nat /\ 2 * Words(b) <= Len(b) + 1 /\ Len(b) <= 2 * Words(b)
         /\ \A i \in 1 .. Words(b) : Word(b, i) \in Nat /\ Word(b, i) <= 65535
<1>1. Len(b) \in Nat
  OBVIOUS
<1>2. Words(b) \in Nat /\ 2 * Words(b) <= Len(b) + 1 /\ Len(b) <= 2 * Words(b)
  BY <1>1 DEF Words
<1>3. ASSUME NEW i \in 1 .. Words(b)
      PROVE  Word(b, i) \in Nat /\ Word(b, i) <= 65535
  <2>1. b[2 * i - 1] \in Nat /\ b[2 * i - 1] <= 255
    <3>1. 2 * i - 1 \in 1 .. Len(b) BY <1>1, <1>2
    <3>2. b[2 * i - 1] \in Byte BY <3>1
    <3> QED BY <3>2, ByteIs
  <2>2. CASE 2 * i <= Len(b)
    <3>1. 2 * i \in 1 .. Len(b) BY <1>1, <2>2
    <3>2. b[2 * i] \in Byte BY <3>1
    <3>3. b[2 * i] \in Nat /\ b[2 * i] <= 255 BY <3>2, ByteIs
    <3>4. Word(b, i) = 256 * b[2 * i - 1] + b[2 * i] BY <2>2 DEF Word
    <3> HIDE DEF Word
    <3> QED BY <2>1, <3>3, <3>4
  <2>3. CASE ~ (2 * i <= Len(b))
    <3>4. Word(b, i) = 256 * b[2 * i - 1] + 0 BY <2>3 DEF Word
    <3> HIDE DEF Word
    <3> QED BY <2>1, <3>4
  <2> QED BY <2>2, <2>3
<1> QED BY <1>2, <1>3

\* f adds the words of b up.
Adds(b, f) ==
  /\ f[0] = 0
  /\ \A i \in 1 .. Words(b) : f[i] = f[i - 1] + Word(b, i)

LEMMA SumsExist ==
  ASSUME NEW b \in Seq(Byte)
  PROVE  \E f \in [0 .. Words(b) -> Nat] : Adds(b, f)
<1> DEFINE K == Words(b)
           Q(n) == \E f \in [0 .. n -> Nat] :
                     f[0] = 0 /\ \A i \in 1 .. n : f[i] = f[i - 1] + Word(b, i)
           P == {n \in Nat : n <= K => Q(n)}
<1>1. K \in Nat /\ \A i \in 1 .. K : Word(b, i) \in Nat
  BY WordsOf
<1> HIDE DEF K
<1>2. Q(0)
  <2> DEFINE f == [i \in 0 .. 0 |-> 0]
  <2>1. f \in [0 .. 0 -> Nat] /\ f[0] = 0 /\ \A i \in 1 .. 0 : f[i] = f[i - 1] + Word(b, i)
    OBVIOUS
  <2> QED BY <2>1
<1>3. ASSUME NEW n \in Nat, n + 1 <= K, Q(n)
      PROVE  Q(n + 1)
  <2>1. PICK f \in [0 .. n -> Nat] :
               f[0] = 0 /\ \A i \in 1 .. n : f[i] = f[i - 1] + Word(b, i)
    BY <1>3
  <2> DEFINE g == [i \in 0 .. n + 1 |-> IF i = n + 1 THEN f[n] + Word(b, n + 1) ELSE f[i]]
  <2>2. Word(b, n + 1) \in Nat
    BY <1>1, <1>3
  <2>3. f[n] + Word(b, n + 1) \in Nat
    BY <2>2
  <2>4. g \in [0 .. n + 1 -> Nat]
    BY <2>3
  <2>5. \A i \in 0 .. n : g[i] = f[i]
    OBVIOUS
  <2>6. g[n + 1] = f[n] + Word(b, n + 1)
    OBVIOUS
  <2> HIDE DEF g
  <2>7. ASSUME NEW i \in 1 .. n + 1
        PROVE  g[i] = g[i - 1] + Word(b, i)
    <3>1. CASE i = n + 1
      <4>1. g[i - 1] = f[n] BY <2>5, <3>1
      <4> QED BY <2>6, <3>1, <4>1
    <3>2. CASE i # n + 1
      <4>1. i \in 1 .. n /\ i \in 0 .. n /\ i - 1 \in 0 .. n BY <3>2
      <4> QED BY <2>1, <2>5, <4>1
    <3> QED BY <3>1, <3>2
  <2>8. g[0] = 0
    BY <2>1, <2>5
  <2> QED BY <2>4, <2>7, <2>8
<1> HIDE DEF Q
<1>4. \A n \in Nat : n \in P => n + 1 \in P
  BY <1>1, <1>3
<1>5. 0 \in P
  BY <1>2
<1> HIDE DEF P
<1>6. Nat \subseteq P
  BY <1>4, <1>5, NatSteps
<1>7. Q(K)
  BY <1>1, <1>6 DEF P
<1> QED BY <1>7 DEF Adds, K, Q

\* What SumOfWords chooses is such a function.
LEMMA SumIs ==
  ASSUME NEW b \in Seq(Byte)
  PROVE  \E f \in [0 .. Words(b) -> Nat] : Adds(b, f) /\ SumOfWords(b) = f[Words(b)]
<1> DEFINE K == Words(b)
           step(h) == [i \in 0 .. K |-> IF i = 0 THEN 0 ELSE h[i - 1] + Word(b, i)]
           f == CHOOSE h : h = step(h)
<1>1. K \in Nat /\ \A i \in 1 .. K : Word(b, i) \in Nat
  BY WordsOf
<1>2. SumOfWords(b) = f[K]
  BY DEF SumOfWords
<1>3. PICK g \in [0 .. K -> Nat] : Adds(b, g)
  BY SumsExist
<1> HIDE DEF K
<1>4. g = step(g)
  <2>1. \A i \in 0 .. K : g[i] = IF i = 0 THEN 0 ELSE g[i - 1] + Word(b, i)
    BY <1>1, <1>3 DEF Adds, K
  <2> QED BY <2>1
<1>5. f = step(f)
  BY <1>4
<1> HIDE DEF f
<1>6. f[0] = 0 /\ \A i \in 1 .. K : f[i] = f[i - 1] + Word(b, i)
  <2>1. \A i \in 0 .. K : f[i] = IF i = 0 THEN 0 ELSE f[i - 1] + Word(b, i)
    BY <1>5
  <2>2. 0 \in 0 .. K /\ \A i \in 1 .. K : i \in 0 .. K /\ i # 0
    BY <1>1
  <2> QED BY <2>1, <2>2
<1> DEFINE P == {n \in Nat : n <= K => f[n] \in Nat}
<1>7. ASSUME NEW n \in Nat, n \in P
      PROVE  n + 1 \in P
  <2> SUFFICES ASSUME n + 1 <= K PROVE f[n + 1] \in Nat
    OBVIOUS
  <2>1. n + 1 \in 1 .. K /\ f[n] \in Nat
    BY <1>1, <1>7
  <2>2. f[n + 1] = f[(n + 1) - 1] + Word(b, n + 1)
    BY <1>6, <2>1
  <2>3. (n + 1) - 1 = n
    OBVIOUS
  <2> QED BY <1>1, <2>1, <2>2, <2>3
<1>8. 0 \in P
  BY <1>6
<1>9. Nat \subseteq P
  <2> HIDE DEF P
  <2> QED BY <1>7, <1>8, NatSteps
<1>10. \A n \in 0 .. K : f[n] \in Nat
  BY <1>1, <1>9
<1>11. f \in [0 .. K -> Nat]
  <2>1. f = [i \in 0 .. K |-> f[i]]
    BY <1>5
  <2> QED BY <1>10, <2>1
<1> QED BY <1>2, <1>6, <1>11 DEF Adds, K

\* Two strings of bytes that differ in one word differ in it alone in their sums.
LEMMA SumsApart ==
  ASSUME NEW b \in Seq(Byte), NEW c \in Seq(Byte), Len(b) = Len(c),
         NEW j \in 1 .. Words(b),
         \A i \in 1 .. Words(b) : i # j => Word(b, i) = Word(c, i)
  PROVE  \E s \in Nat : /\ SumOfWords(b) = s + Word(b, j)
                        /\ SumOfWords(c) = s + Word(c, j)
                        /\ s + 65535 <= 65535 * Words(b)
<1> DEFINE K == Words(b)
           u == Word(b, j)
           v == Word(c, j)
<1>1. K \in Nat /\ \A i \in 1 .. K : Word(b, i) \in Nat /\ Word(b, i) <= 65535
  BY WordsOf
<1>2. Words(c) = K
  BY DEF Words
<1>3. v \in Nat /\ v <= 65535
  BY <1>2, WordsOf
<1>4. u \in Nat /\ u <= 65535 /\ j \in Nat /\ 1 <= j /\ j <= K
  BY <1>1
<1>5. PICK f \in [0 .. K -> Nat] : Adds(b, f) /\ SumOfWords(b) = f[K]
  BY SumIs
<1>6. PICK g \in [0 .. K -> Nat] : Adds(c, g) /\ SumOfWords(c) = g[K]
  BY <1>2, SumIs
<1> DEFINE P == {n \in Nat : n <= K =>
                   IF n < j THEN f[n] = g[n] /\ f[n] <= 65535 * n
                   ELSE \E s \in Nat : f[n] = s + u /\ g[n] = s + v /\ s + 65535 <= 65535 * n}
<1>7. /\ f[0] = 0 /\ g[0] = 0
      /\ \A i \in 1 .. K : f[i] = f[i - 1] + Word(b, i) /\ g[i] = g[i - 1] + Word(c, i)
  BY <1>2, <1>5, <1>6 DEF Adds
<1>8. \A i \in 1 .. K : i # j => Word(c, i) = Word(b, i)
  OBVIOUS
<1>8a. Word(b, j) = u /\ Word(c, j) = v
  OBVIOUS
<1> HIDE DEF K, u, v
<1>9. 0 \in P
  BY <1>4, <1>7
<1>10. ASSUME NEW n \in Nat, n \in P
       PROVE  n + 1 \in P
  <2> SUFFICES ASSUME n + 1 <= K
               PROVE  IF n + 1 < j THEN f[n + 1] = g[n + 1] /\ f[n + 1] <= 65535 * (n + 1)
                      ELSE \E s \in Nat : /\ f[n + 1] = s + u /\ g[n + 1] = s + v
                                          /\ s + 65535 <= 65535 * (n + 1)
    OBVIOUS
  <2>1. n + 1 \in 1 .. K /\ (n + 1) - 1 = n /\ n \in 0 .. K
    BY <1>1
  <2>2. f[n + 1] = f[n] + Word(b, n + 1) /\ g[n + 1] = g[n] + Word(c, n + 1)
    BY <1>7, <2>1
  <2>3. f[n] \in Nat /\ g[n] \in Nat /\ Word(b, n + 1) \in Nat /\ Word(b, n + 1) <= 65535
    BY <1>1, <2>1
  <2>4. CASE n + 1 < j
    <3>1. f[n] = g[n] /\ f[n] <= 65535 * n
      BY <1>4, <1>10, <2>1, <2>4
    <3>2. Word(c, n + 1) = Word(b, n + 1)
      BY <1>4, <1>8, <2>1, <2>4
    <3> QED BY <2>2, <2>3, <2>4, <3>1, <3>2
  <2>5. CASE n + 1 = j
    <3>1. f[n] = g[n] /\ f[n] <= 65535 * n
      BY <1>4, <1>10, <2>1, <2>5
    <3>2. f[n + 1] = f[n] + u /\ g[n + 1] = f[n] + v /\ f[n] + 65535 <= 65535 * (n + 1)
      BY <1>8a, <2>2, <2>3, <2>5, <3>1
    <3>3. ~ (n + 1 < j)
      BY <1>4, <2>5
    <3> QED BY <2>3, <3>2, <3>3
  <2>6. CASE n + 1 > j
    <3>1. ~ (n < j) /\ ~ (n + 1 < j) /\ n + 1 # j /\ n <= K
      BY <1>1, <1>4, <2>6
    <3>2. PICK s \in Nat : f[n] = s + u /\ g[n] = s + v /\ s + 65535 <= 65535 * n
      BY <1>10, <3>1
    <3>3. Word(c, n + 1) = Word(b, n + 1)
      BY <1>8, <2>1, <3>1
    <3> DEFINE r == s + Word(b, n + 1)
    <3>4. r \in Nat /\ f[n + 1] = r + u /\ g[n + 1] = r + v /\ r + 65535 <= 65535 * (n + 1)
      BY <1>3, <1>4, <2>2, <2>3, <3>2, <3>3
    <3> QED BY <3>1, <3>4
  <2> QED BY <1>4, <2>4, <2>5, <2>6
<1>11. K \in P
  <2> HIDE DEF P
  <2>1. \A n \in Nat : n \in P => n + 1 \in P
    BY <1>10
  <2>2. Nat \subseteq P
    BY <1>9, <2>1, NatSteps
  <2> QED BY <1>1, <2>2
<1>12. \E s \in Nat : f[K] = s + u /\ g[K] = s + v /\ s + 65535 <= 65535 * K
  <2>1. ~ (K < j) BY <1>1, <1>4
  <2> QED BY <1>1, <1>11, <2>1
<1> QED BY <1>5, <1>6, <1>12 DEF K, u, v

LEMMA SumIsNat ==
  ASSUME NEW b \in Seq(Byte)
  PROVE  SumOfWords(b) \in Nat
<1>1. PICK f \in [0 .. Words(b) -> Nat] : SumOfWords(b) = f[Words(b)]
  BY SumIs
<1>2. Words(b) \in Nat
  BY WordsOf
<1> QED BY <1>1, <1>2

\* As long as the sum fits the wider integer.
Short(b) == Len(b) <= 131072

LEMMA OneWordApart ==
  ASSUME NEW b \in Seq(Byte), NEW c \in Seq(Byte), Len(b) = Len(c), Short(b),
         NEW k \in 1 .. Words(b),
         \A i \in 1 .. Len(b) : i # 2 * k - 1 /\ i # 2 * k => b[i] = c[i]
  PROVE  \E s \in Room32 : /\ SumOfWords(b) = s + Word(b, k)
                           /\ SumOfWords(c) = s + Word(c, k)
<1>1. Len(b) \in Nat /\ Words(b) \in Nat /\ Words(b) <= 65536 /\ 2 * Words(b) <= Len(b) + 1
  <2>1. Len(b) \in Nat /\ Len(b) <= 131072 BY DEF Short
  <2>2. Words(b) \in Nat /\ 2 * Words(b) <= Len(b) + 1 BY WordsOf
  <2> QED BY <2>1, <2>2
<1>2. ASSUME NEW i \in 1 .. Words(b), i # k
      PROVE  Word(b, i) = Word(c, i)
  <2>1. 2 * i - 1 \in 1 .. Len(b) /\ 2 * i - 1 # 2 * k - 1 /\ 2 * i - 1 # 2 * k
    BY <1>1, <1>2
  <2>2. b[2 * i - 1] = c[2 * i - 1]
    BY <2>1
  <2>3. CASE 2 * i <= Len(b)
    <3>1. 2 * i \in 1 .. Len(b) /\ 2 * i # 2 * k - 1 /\ 2 * i # 2 * k
      BY <1>1, <1>2, <2>3
    <3>2. b[2 * i] = c[2 * i]
      BY <3>1
    <3> QED BY <2>2, <3>2 DEF Word
  <2>4. CASE ~ (2 * i <= Len(b))
    BY <2>2, <2>4 DEF Word
  <2> QED BY <2>3, <2>4
<1>3. PICK s \in Nat : /\ SumOfWords(b) = s + Word(b, k)
                       /\ SumOfWords(c) = s + Word(c, k)
                       /\ s + 65535 <= 65535 * Words(b)
  BY <1>2, SumsApart
<1>4. s \in Room32
  <2>1. s + 65535 <= 4294901760
    BY <1>1, <1>3, SMT
  <2> QED BY <2>1, SMT DEF Room32
<1> QED BY <1>3, <1>4

\* ip.cc:285, udp.cc:110, tcp.cc:191, icmp.cc:219: the checksum of zeros where
\* it stands, put there, makes the sum come out as all ones.
THEOREM ChecksumPut ==
  ASSUME NEW b \in Seq(Byte), NEW k \in 1 .. Words(b), 2 * k <= Len(b), Short(b),
         b[2 * k - 1] = 0, b[2 * k] = 0,
         NEW c \in Seq(Byte), Len(c) = Len(b),
         \A i \in 1 .. Len(b) : i # 2 * k - 1 /\ i # 2 * k => c[i] = b[i],
         c[2 * k - 1] = htons(Complement(OnesComplementSum(b)))[1],
         c[2 * k] = htons(Complement(OnesComplementSum(b)))[2]
  PROVE  Complement(OnesComplementSum(c)) = 0
<1> DEFINE o == OnesComplementSum(b)
           n == Complement(o)
<1>1. PICK s \in Room32 : /\ SumOfWords(b) = s + Word(b, k)
                          /\ SumOfWords(c) = s + Word(c, k)
  <2>1. \A i \in 1 .. Len(b) : i # 2 * k - 1 /\ i # 2 * k => b[i] = c[i]
    OBVIOUS
  <2> QED BY <2>1, OneWordApart
<1>1a. s \in Nat /\ s \in Sum32
  BY SMT DEF Room32, Sum32
<1>2. Word(b, k) = 0
  BY DEF Word
<1>3. SumOfWords(b) = s
  BY <1>1, <1>1a, <1>2
<1>4. o = Folded(s)
  BY <1>3 DEF OnesComplementSum
<1>6. o \in Nat /\ o <= 65535
  BY <1>1a, <1>4, FoldedIsTheResidue DEF IsWord
<1> HIDE DEF o
<1>7. IsWord(n) /\ n \in Nat
  <2>1. n = 65535 - o BY DEF Complement
  <2> HIDE DEF n
  <2> QED BY <1>6, <2>1, SMT DEF IsWord
<1> HIDE DEF n
<1>8. 256 * htons(n)[1] + htons(n)[2] = n
  BY <1>7, NetworkOrder
<1>9. Word(c, k) = 256 * c[2 * k - 1] + c[2 * k]
  BY DEF Word
<1>10. c[2 * k - 1] = htons(n)[1] /\ c[2 * k] = htons(n)[2]
  BY DEF n, o
<1>11. SumOfWords(c) = s + n
  BY <1>1, <1>8, <1>9, <1>10
<1>12. OnesComplementSum(c) = Folded(s + Complement(Folded(s)))
  BY <1>4, <1>11 DEF OnesComplementSum, n
<1> QED BY <1>1, <1>12, ChecksumVerifies

\* One byte that is another than it was makes the sum another.
THEOREM DamageShows ==
  ASSUME NEW b \in Seq(Byte), NEW c \in Seq(Byte), Len(b) = Len(c), Short(b),
         NEW j \in 1 .. Len(b), b[j] # c[j],
         \A i \in 1 .. Len(b) : i # j => b[i] = c[i]
  PROVE  OnesComplementSum(b) # OnesComplementSum(c)
<1> DEFINE k == (j + 1) \div 2
<1>1. k \in 1 .. Words(b) /\ (j = 2 * k - 1 \/ j = 2 * k)
  <2>1. Len(b) \in Nat /\ Words(b) \in Nat /\ Len(b) <= 2 * Words(b)
    BY WordsOf
  <2>2. k \in Nat /\ (j = 2 * k - 1 \/ j = 2 * k)
    OBVIOUS
  <2> HIDE DEF k
  <2> QED BY <2>1, <2>2
<1> HIDE DEF k
<1>2. PICK s \in Room32 : /\ SumOfWords(b) = s + Word(b, k)
                          /\ SumOfWords(c) = s + Word(c, k)
  <2>1. \A i \in 1 .. Len(b) : i # 2 * k - 1 /\ i # 2 * k => b[i] = c[i]
    BY <1>1
  <2> QED BY <1>1, <2>1, OneWordApart
<1> DEFINE v == Word(b, k)
           w == Word(c, k)
<1>3. Words(c) = Words(b)
  BY DEF Words
<1>4. v \in Nat /\ v <= 65535 /\ w \in Nat /\ w <= 65535
  BY <1>1, <1>3, WordsOf
<1>5. v # w /\ ~ (v = 0 /\ w = 65535) /\ ~ (v = 65535 /\ w = 0)
  <2>1. Len(b) \in Nat /\ 2 * Words(b) <= Len(b) + 1 /\ Words(b) \in Nat
    BY WordsOf
  <2>2. 2 * k - 1 \in 1 .. Len(b)
    BY <1>1, <2>1
  <2> DEFINE x == b[2 * k - 1]
             y == c[2 * k - 1]
  <2>3. x \in Nat /\ x <= 255 /\ y \in Nat /\ y <= 255
    <3>1. x \in Byte /\ y \in Byte BY <2>2
    <3> QED BY <3>1, ByteIs
  <2>4. CASE 2 * k <= Len(b)
    <3> DEFINE z == b[2 * k]
               t == c[2 * k]
    <3>1. 2 * k \in 1 .. Len(b)
      BY <1>1, <2>1, <2>4
    <3>2. z \in Nat /\ z <= 255 /\ t \in Nat /\ t <= 255
      <4>1. z \in Byte /\ t \in Byte BY <3>1
      <4> QED BY <4>1, ByteIs
    <3>3. v = 256 * x + z /\ w = 256 * y + t
      BY <2>4 DEF Word
    <3>4. (x # y /\ z = t) \/ (x = y /\ z # t)
      BY <1>1, <2>2, <3>1
    <3> HIDE DEF v, w, x, y, z, t
    <3> QED BY <2>3, <3>2, <3>3, <3>4
  <2>5. CASE ~ (2 * k <= Len(b))
    <3>1. v = 256 * x + 0 /\ w = 256 * y + 0
      BY <2>5 DEF Word
    <3>2. j = 2 * k - 1
      BY <1>1, <2>1, <2>5
    <3>3. x # y
      BY <3>2
    <3> HIDE DEF v, w, x, y
    <3> QED BY <2>3, <3>1, <3>3
  <2> QED BY <2>4, <2>5
<1> HIDE DEF v, w
<1>6. Folded(s + v) # Folded(s + w)
  BY <1>4, <1>5, OneWordShows
<1> QED BY <1>2, <1>6 DEF OnesComplementSum, v, w

LEMMA SumIsWord ==
  ASSUME NEW b \in Seq(Byte)
  PROVE  OnesComplementSum(b) \in Nat
<1>1. \A s \in Nat : Folded(s) \in Nat
  BY DEF Folded, FoldCarry
<1> QED BY <1>1, SumIsNat DEF OnesComplementSum

-----------------------------------------------------------------------------
(***************************************************************************)
(* IP headers. IpHeader has its own instance of the operators of Buffer.   *)
(***************************************************************************)
LEMMA IpBuffer ==
  /\ \A b, data, offset : IP!SetData(b, data, offset) = SetData(b, data, offset)
  /\ \A b, size, offset : IP!GetData(b, size, offset) = GetData(b, size, offset)
  /\ \A b : IP!OnesComplementSum(b) = OnesComplementSum(b)
  /\ \A n : IP!htons(n) = htons(n)
  /\ \A b : IP!ntohs(b) = ntohs(b)
  /\ \A n : IP!Complement(n) = Complement(n)
<1>1. ASSUME NEW b, NEW data, NEW offset
      PROVE  IP!SetData(b, data, offset) = SetData(b, data, offset)
  BY DEF IP!SetData, SetData, IP!Zeros, Zeros, IP!Smaller, Smaller
<1>2. ASSUME NEW b, NEW size, NEW offset
      PROVE  IP!GetData(b, size, offset) = GetData(b, size, offset)
  BY DEF IP!GetData, GetData, IP!Smaller, Smaller
<1>3. ASSUME NEW b
      PROVE  IP!OnesComplementSum(b) = OnesComplementSum(b)
  BY DEF IP!OnesComplementSum, OnesComplementSum, IP!SumOfWords, SumOfWords, IP!Words, Words,
         IP!Word, Word, IP!Folded, Folded, IP!FoldCarry, FoldCarry
<1>4. \A n : IP!htons(n) = htons(n)
  BY DEF IP!htons, htons
<1>5. \A b : IP!ntohs(b) = ntohs(b)
  BY DEF IP!ntohs, ntohs
<1>6. \A n : IP!Complement(n) = Complement(n)
  BY DEF IP!Complement, Complement
<1> QED BY <1>1, <1>2, <1>3, <1>4, <1>5, <1>6

\* A string of bytes that is long enough for a header.
Long(h) == h \in Seq(Byte) /\ Len(h) >= 20 /\ Len(h) <= 60

\* h is g with other bytes at offset, but for the checksum.
Patched(h, g, bytes, offset) ==
  /\ Long(h) /\ Len(h) = Len(g)
  /\ \A i \in 1 .. Len(g) : i # 11 /\ i # 12 =>
       h[i] = IF offset < i /\ i <= offset + Len(bytes) THEN bytes[i - offset] ELSE g[i]

\* The checksum of a header is put without touching anything else, and is right
\* if the header says how long it is.
LEMMA RecomputeIp ==
  ASSUME NEW h, Long(h)
  PROVE  /\ Patched(IP!RecomputeChecksum(h), h, <<>>, 0)
         /\ Len(h) = 4 * IP!GetHeaderLength(h) =>
              Complement(OnesComplementSum(IP!RecomputeChecksum(h))) = 0
<1> DEFINE z == SetData(h, htons(0), 10)
           n == IP!ComputeChecksum(z)
           r == SetData(z, htons(n), 10)
           size == 4 * IP!GetHeaderLength(z)
<1>1. IP!RecomputeChecksum(h) = r
  BY IpBuffer DEF IP!RecomputeChecksum, IP!SetChecksum
<1>2. h \in Seq(Byte) /\ Len(h) \in Nat /\ Len(h) >= 20 /\ Len(h) <= 60
  BY DEF Long
<1>3. htons(0) \in Seq(Byte) /\ Len(htons(0)) = 2 /\ htons(0)[1] = 0 /\ htons(0)[2] = 0
  <2>1. (0 \div 256) % 256 = 0 /\ 0 % 256 = 0 /\ 0 \in Byte
    BY DEF Byte
  <2> QED BY <2>1 DEF htons
<1> DEFINE zeros == htons(0)
<1> HIDE DEF zeros
<1>4. /\ z \in Seq(Byte) /\ Len(z) = Len(h)
      /\ \A i \in 1 .. Len(h) : z[i] = IF 10 < i /\ i <= 12 THEN zeros[i - 10] ELSE h[i]
  <2>1. /\ SetData(h, zeros, 10) \in Seq(Byte) /\ Len(SetData(h, zeros, 10)) = Len(h)
        /\ \A i \in 1 .. Len(h) : SetData(h, zeros, 10)[i] =
              IF 10 < i /\ i <= 10 + Len(zeros) THEN zeros[i - 10] ELSE h[i]
    <3>1. zeros \in Seq(Byte) /\ Len(zeros) = 2 BY <1>3 DEF zeros
    <3>2. 10 \in Nat /\ 10 + Len(zeros) <= Len(h) BY <1>2, <3>1
    <3> QED BY <1>2, <3>1, <3>2, SetDataWithin
  <2> QED BY <1>3, <2>1 DEF zeros
<1> HIDE DEF z
<1>5. z[11] = 0 /\ z[12] = 0
  <2>1. zeros[1] = 0 /\ zeros[2] = 0 BY <1>3 DEF zeros
  <2> QED BY <1>2, <1>4, <2>1
<1>6. \A i \in 1 .. Len(h) : i # 11 /\ i # 12 => z[i] = h[i]
  BY <1>2, <1>4
<1>7. size \in Nat /\ IP!GetHeaderLength(z) = IP!GetHeaderLength(h)
  <2>1. z[1] = h[1] BY <1>2, <1>6
  <2>2. h[1] \in Byte BY <1>2
  <2>3. h[1] \in Nat BY <2>2, ByteIs
  <2> QED BY <2>1, <2>3 DEF IP!GetHeaderLength
<1>8. GetData(z, size, 0) \in Seq(Byte)
  <2> HIDE DEF size
  <2> QED BY <1>4, <1>7 DEF GetData, Smaller
<1>9. n = Complement(OnesComplementSum(GetData(z, size, 0)))
  BY IpBuffer DEF IP!ComputeChecksum
<1> HIDE DEF size, n
<1>10. n \in Int
  BY <1>8, <1>9, SumIsWord DEF Complement
<1>11. htons(n) \in Seq(Byte) /\ Len(htons(n)) = 2
  BY <1>10, HtonsIs
<1> DEFINE sum == htons(n)
<1> HIDE DEF sum
<1>12. /\ r \in Seq(Byte) /\ Len(r) = Len(h)
       /\ \A i \in 1 .. Len(h) : r[i] = IF 10 < i /\ i <= 12 THEN sum[i - 10] ELSE z[i]
  <2>1. /\ SetData(z, sum, 10) \in Seq(Byte) /\ Len(SetData(z, sum, 10)) = Len(z)
        /\ \A i \in 1 .. Len(z) : SetData(z, sum, 10)[i] =
              IF 10 < i /\ i <= 10 + Len(sum) THEN sum[i - 10] ELSE z[i]
    <3>1. sum \in Seq(Byte) /\ Len(sum) = 2 BY <1>11 DEF sum
    <3>2. 10 \in Nat /\ 10 + Len(sum) <= Len(z) BY <1>2, <1>4, <3>1
    <3> QED BY <1>4, <3>1, <3>2, SetDataWithin
  <2> QED BY <1>4, <1>11, <2>1 DEF sum
<1> HIDE DEF r
<1>13. \A i \in 1 .. Len(h) : i # 11 /\ i # 12 => r[i] = z[i]
  BY <1>2, <1>12
<1>14. Patched(r, h, <<>>, 0)
  <2>1. Long(r) BY <1>2, <1>12 DEF Long
  <2>2. \A i \in 1 .. Len(h) : i # 11 /\ i # 12 => r[i] = h[i]
    BY <1>6, <1>13
  <2> QED BY <1>12, <2>1, <2>2 DEF Patched
<1>15. ASSUME Len(h) = 4 * IP!GetHeaderLength(h)
       PROVE  Complement(OnesComplementSum(r)) = 0
  <2>1. size = Len(z)
    BY <1>4, <1>7, <1>15 DEF size
  <2>2. GetData(z, size, 0) = z
    BY <1>4, <1>7, <2>1, GetAll
  <2>3. n = Complement(OnesComplementSum(z))
    BY <1>9, <2>2
  <2>4. r[11] = htons(Complement(OnesComplementSum(z)))[1] /\ r[12] = htons(Complement(OnesComplementSum(z)))[2]
    <3>1. r[11] = sum[1] /\ r[12] = sum[2]
      <4>1. 11 \in 1 .. Len(h) /\ 12 \in 1 .. Len(h) BY <1>2
      <4>2. r[11] = sum[11 - 10] /\ r[12] = sum[12 - 10] BY <1>12, <4>1
      <4> QED BY <4>2
    <3> QED BY <2>3, <3>1 DEF sum
  <2>5. 6 \in 1 .. Words(z) /\ Short(z)
    <3>1. Len(z) \in Nat /\ Len(z) >= 20 /\ Len(z) <= 60 BY <1>2, <1>4
    <3>2. Words(z) \in Nat /\ Len(z) <= 2 * Words(z) BY <1>4, WordsOf
    <3> QED BY <3>1, <3>2 DEF Short
  <2>6. 2 * 6 <= Len(z) /\ 2 * 6 - 1 = 11 /\ 2 * 6 = 12
    BY <1>2, <1>4
  <2>7. \A i \in 1 .. Len(z) : i # 11 /\ i # 12 => r[i] = z[i]
    BY <1>4, <1>13
  <2> QED BY <1>4, <1>5, <1>12, <2>4, <2>5, <2>6, <2>7, ChecksumPut
<1> QED BY <1>1, <1>14, <1>15

\* Every Set of the IP header writes its bytes, and leaves the others.
LEMMA PutIp ==
  ASSUME NEW h, Long(h), NEW bytes \in Seq(Byte), NEW offset \in Nat,
         offset + Len(bytes) <= Len(h)
  PROVE  /\ Patched(IP!Put(h, bytes, offset), h, bytes, offset)
         /\ Len(h) = 4 * IP!GetHeaderLength(SetData(h, bytes, offset)) =>
              Complement(OnesComplementSum(IP!Put(h, bytes, offset))) = 0
<1> DEFINE s == SetData(h, bytes, offset)
           r == IP!RecomputeChecksum(s)
<1>1. IP!Put(h, bytes, offset) = r
  BY IpBuffer DEF IP!Put
<1>2. h \in Seq(Byte) /\ Len(h) \in Nat /\ Len(h) >= 20 /\ Len(h) <= 60
  BY DEF Long
<1>3. /\ s \in Seq(Byte) /\ Len(s) = Len(h)
      /\ \A i \in 1 .. Len(h) : s[i] = IF offset < i /\ i <= offset + Len(bytes)
                                       THEN bytes[i - offset] ELSE h[i]
  BY <1>2, SetDataWithin
<1> HIDE DEF s
<1>4. Long(s)
  BY <1>2, <1>3 DEF Long
<1>5. Patched(r, s, <<>>, 0) /\ (Len(s) = 4 * IP!GetHeaderLength(s) => Complement(OnesComplementSum(r)) = 0)
  BY <1>4, RecomputeIp
<1> HIDE DEF r
<1>6. Long(r) /\ Len(r) = Len(h) /\ \A i \in 1 .. Len(h) : i # 11 /\ i # 12 => r[i] = s[i]
  BY <1>3, <1>5 DEF Patched
<1>7. Patched(r, h, bytes, offset)
  BY <1>3, <1>6 DEF Patched
<1> QED BY <1>1, <1>3, <1>5, <1>7 DEF s

\* h is g but at the places in set, and there is another checksum.
ButAt(h, g, set) ==
  /\ Long(h) /\ Len(h) = Len(g)
  /\ \A i \in 1 .. Len(g) : i \notin set /\ i # 11 /\ i # 12 => h[i] = g[i]

Verifies(h) == Complement(OnesComplementSum(h)) = 0

\* What a header with this first byte says of its length.
Whole(h) == h[1] % 16 = Len(h) \div 4 /\ Len(h) % 4 = 0

\* Of one byte.
LEMMA PutByte ==
  ASSUME NEW h, Long(h), NEW x \in Byte, NEW offset \in 0 .. 9
  PROVE  /\ ButAt(IP!Put(h, <<x>>, offset), h, {offset + 1})
         /\ IP!Put(h, <<x>>, offset)[offset + 1] = x
<1> DEFINE r == IP!Put(h, <<x>>, offset)
<1>1. <<x>> \in Seq(Byte) /\ Len(<<x>>) = 1 /\ <<x>>[1] = x
  OBVIOUS
<1>2. Len(h) \in Nat /\ Len(h) >= 20
  BY DEF Long
<1>3. offset \in Nat /\ offset + Len(<<x>>) <= Len(h)
  BY <1>1, <1>2
<1>4. Patched(r, h, <<x>>, offset)
  BY <1>1, <1>3, PutIp
<1> HIDE DEF r
<1>5. \A i \in 1 .. Len(h) : i # 11 /\ i # 12 => r[i] = IF offset < i /\ i <= offset + 1 THEN <<x>>[i - offset] ELSE h[i]
  BY <1>1, <1>4 DEF Patched
<1>6. \A i \in 1 .. Len(h) : i # offset + 1 /\ i # 11 /\ i # 12 => r[i] = h[i]
  BY <1>2, <1>5
<1>7. r[offset + 1] = x
  <2>1. offset + 1 \in 1 .. Len(h) /\ offset + 1 # 11 /\ offset + 1 # 12 BY <1>2
  <2>2. r[offset + 1] = <<x>>[(offset + 1) - offset] BY <1>5, <2>1
  <2>3. (offset + 1) - offset = 1 OBVIOUS
  <2> QED BY <1>1, <2>2, <2>3
<1> QED BY <1>4, <1>6, <1>7 DEF ButAt, Patched, r

\* Of two.
\* n stands in h, in network order, behind the first offset bytes.
WordIn(h, offset, n) == h[offset + 1] = (n \div 256) % 256 /\ h[offset + 2] = n % 256

LEMMA PutWord ==
  ASSUME NEW h, Long(h), NEW n \in Nat, NEW offset \in {2, 4, 6}
  PROVE  /\ ButAt(IP!Put(h, IP!htons(n), offset), h, {offset + 1, offset + 2})
         /\ WordIn(IP!Put(h, IP!htons(n), offset), offset, n)
         /\ Whole(h) => Verifies(IP!Put(h, IP!htons(n), offset))
<1> DEFINE w == htons(n)
           r == IP!Put(h, w, offset)
<1>1. w \in Seq(Byte) /\ Len(w) = 2 /\ w[1] = (n \div 256) % 256 /\ w[2] = n % 256
  BY HtonsIs
<1>0. IP!htons(n) = w
  BY IpBuffer
<1> HIDE DEF w
<1>2. h \in Seq(Byte) /\ Len(h) \in Nat /\ Len(h) >= 20
  BY DEF Long
<1>3. offset \in Nat /\ offset >= 2 /\ offset <= 6 /\ offset + Len(w) <= Len(h)
  BY <1>1, <1>2
<1>4. Patched(r, h, w, offset)
  BY <1>1, <1>3, PutIp
<1>a. Len(h) = 4 * IP!GetHeaderLength(SetData(h, w, offset)) => Complement(OnesComplementSum(r)) = 0
  BY <1>1, <1>3, PutIp, ZenonT(60)
<1> HIDE DEF r
<1>5. \A i \in 1 .. Len(h) : i # 11 /\ i # 12 => r[i] = IF offset < i /\ i <= offset + 2 THEN w[i - offset] ELSE h[i]
  BY <1>1, <1>4 DEF Patched
<1>6. \A i \in 1 .. Len(h) : i # offset + 1 /\ i # offset + 2 /\ i # 11 /\ i # 12 => r[i] = h[i]
  BY <1>2, <1>3, <1>5
<1>7. r[offset + 1] = w[1] /\ r[offset + 2] = w[2]
  <2>1. offset + 1 \in 1 .. Len(h) /\ offset + 1 # 11 /\ offset + 1 # 12 BY <1>2, <1>3
  <2>2. offset + 2 \in 1 .. Len(h) /\ offset + 2 # 11 /\ offset + 2 # 12 BY <1>2, <1>3
  <2>3. (offset + 1) - offset = 1 /\ (offset + 2) - offset = 2 BY <1>3
  <2>a. offset < offset + 1 /\ offset + 1 <= offset + 2 /\ offset < offset + 2 BY <1>3
  <2>4. r[offset + 1] = w[(offset + 1) - offset] BY <1>5, <2>1, <2>a
  <2>5. r[offset + 2] = w[(offset + 2) - offset] BY <1>5, <2>2, <2>a
  <2> QED BY <2>3, <2>4, <2>5
<1>8. ASSUME Whole(h)
      PROVE  Verifies(r)
  <2>1. SetData(h, w, offset)[1] = h[1]
    <3>1. 1 \in 1 .. Len(h) /\ ~ (offset < 1) BY <1>2, <1>3
    <3>2. \A i \in 1 .. Len(h) : SetData(h, w, offset)[i] =
                IF offset < i /\ i <= offset + Len(w) THEN w[i - offset] ELSE h[i]
      <4>1. w \in Seq(Byte) /\ h \in Seq(Byte) BY <1>1, <1>2
      <4>2. offset \in Nat /\ offset + Len(w) <= Len(h) BY <1>3
      <4> HIDE <1>8
      <4> QED BY <4>1, <4>2, SetDataWithin
    <3> QED BY <3>1, <3>2
  <2>2. Len(h) = 4 * IP!GetHeaderLength(SetData(h, w, offset))
    BY <1>2, <1>8, <2>1 DEF IP!GetHeaderLength, Whole
  <2> QED BY <1>a, <2>2 DEF Verifies
<1>9. WordIn(r, offset, n)
  BY <1>1, <1>7 DEF WordIn
<1> QED BY <1>0, <1>4, <1>6, <1>8, <1>9 DEF ButAt, Patched, r

\* a stands in h behind the first offset bytes.
StandsIn(h, offset, a) == \A i \in 1 .. Len(a) : h[offset + i] = a[i]

\* Of four.
LEMMA PutAddress ==
  ASSUME NEW h, Long(h), NEW addr \in Bytes(4), NEW offset \in {12, 16}
  PROVE  /\ ButAt(IP!Put(h, addr, offset), h, offset + 1 .. offset + 4)
         /\ StandsIn(IP!Put(h, addr, offset), offset, addr)
         /\ Whole(h) => Verifies(IP!Put(h, addr, offset))
<1> DEFINE r == IP!Put(h, addr, offset)
<1>1. addr \in Seq(Byte) /\ Len(addr) = 4
  BY DEF Bytes
<1>2. h \in Seq(Byte) /\ Len(h) \in Nat /\ Len(h) >= 20
  BY DEF Long
<1>3. offset \in Nat /\ offset >= 12 /\ offset <= 16 /\ offset + Len(addr) <= Len(h)
  BY <1>1, <1>2
<1>4. Patched(r, h, addr, offset)
  BY <1>1, <1>3, PutIp
<1>a. Len(h) = 4 * IP!GetHeaderLength(SetData(h, addr, offset)) => Complement(OnesComplementSum(r)) = 0
  BY <1>1, <1>3, PutIp
<1> HIDE DEF r
<1>5. \A i \in 1 .. Len(h) : i # 11 /\ i # 12 => r[i] = IF offset < i /\ i <= offset + 4 THEN addr[i - offset] ELSE h[i]
  BY <1>1, <1>4 DEF Patched
<1>6. \A i \in 1 .. Len(h) : i \notin offset + 1 .. offset + 4 /\ i # 11 /\ i # 12 => r[i] = h[i]
  BY <1>2, <1>3, <1>5
<1>7. StandsIn(r, offset, addr)
  <2> SUFFICES ASSUME NEW i \in 1 .. 4 PROVE r[offset + i] = addr[i]
    BY <1>1 DEF StandsIn
  <2>1. offset + i \in 1 .. Len(h) /\ offset + i # 11 /\ offset + i # 12 BY <1>2, <1>3
  <2>2. offset < offset + i /\ offset + i <= offset + 4 /\ (offset + i) - offset = i BY <1>3
  <2> QED BY <1>5, <2>1, <2>2
<1>8. ASSUME Whole(h)
      PROVE  Verifies(r)
  <2>1. SetData(h, addr, offset)[1] = h[1]
    <3>1. 1 \in 1 .. Len(h) /\ ~ (offset < 1) BY <1>2, <1>3
    <3> QED BY <1>1, <1>2, <1>3, <3>1, SetDataWithin
  <2>2. Len(h) = 4 * IP!GetHeaderLength(SetData(h, addr, offset))
    BY <1>2, <1>8, <2>1 DEF IP!GetHeaderLength, Whole
  <2> QED BY <1>a, <2>2 DEF Verifies
<1> QED BY <1>4, <1>6, <1>7, <1>8 DEF ButAt, Patched, r

\* What the field of the offset holds.
IsOffset(n) == n \in Nat /\ n <= 8191

\* The offset is written under the flags that were there.
LEMMA SetFragOffsetIp ==
  ASSUME NEW h, Long(h), NEW offset \in Nat, IsOffset(offset)
  PROVE  /\ ButAt(IP!SetFragOffset(h, offset), h, {7, 8})
         /\ IP!SetFragOffset(h, offset)[7] = 32 * (h[7] \div 32) + offset \div 256
         /\ IP!SetFragOffset(h, offset)[8] = offset % 256
<1> DEFINE w == htons(offset)
           s == SetData(h, w, 6)
           b == (s[7] % 32) + 32 * (IP!GetFlags(h) % 8)
           f == IP!Put(s, <<b>>, 6)
           r == IP!RecomputeChecksum(f)
<1>1. IP!SetFragOffset(h, offset) = r
  BY IpBuffer DEF IP!SetFragOffset, IP!SetFlags
<1>0. offset \div 256 \in Nat /\ offset \div 256 <= 31
  BY SMT DEF IsOffset
<1>2. h \in Seq(Byte) /\ Len(h) \in Nat /\ Len(h) >= 20 /\ Len(h) <= 60
  BY DEF Long
<1>3. w \in Seq(Byte) /\ Len(w) = 2 /\ w[1] = (offset \div 256) % 256 /\ w[2] = offset % 256
  BY HtonsIs
<1> HIDE DEF w
<1>4. /\ s \in Seq(Byte) /\ Len(s) = Len(h)
      /\ \A i \in 1 .. Len(h) : s[i] = IF 6 < i /\ i <= 8 THEN w[i - 6] ELSE h[i]
  <2>1. 6 + Len(w) <= Len(h) /\ 6 + Len(w) = 8 /\ 6 \in Nat BY <1>2, <1>3
  <2>2. /\ s \in Seq(Byte) /\ Len(s) = Len(h)
        /\ \A i \in 1 .. Len(h) : s[i] = IF 6 < i /\ i <= 6 + Len(w) THEN w[i - 6] ELSE h[i]
    <3>1. PICK o \in Nat : o = 6 OBVIOUS
    <3>2. o + Len(w) <= Len(h) /\ w \in Seq(Byte) BY <1>3, <2>1, <3>1
    <3>3. /\ SetData(h, w, o) \in Seq(Byte) /\ Len(SetData(h, w, o)) = Len(h)
          /\ \A i \in 1 .. Len(h) : SetData(h, w, o)[i] = IF o < i /\ i <= o + Len(w) THEN w[i - o] ELSE h[i]
      BY <1>2, <3>2, SetDataWithin
    <3> QED BY <3>1, <3>3
  <2> QED BY <2>1, <2>2
<1> HIDE DEF s
<1>5. s[7] = offset \div 256 /\ s[8] = offset % 256
  <2>1. 7 \in 1 .. Len(h) /\ 8 \in 1 .. Len(h) BY <1>2
  <2>2. s[7] = w[1] /\ s[8] = w[2] BY <1>4, <2>1
  <2>3. (offset \div 256) % 256 = offset \div 256 BY <1>0
  <2> QED BY <1>3, <2>2, <2>3
<1>6. b = 32 * (h[7] \div 32) + offset \div 256 /\ b \in Byte
  <2>1. h[7] \in Byte BY <1>2
  <2>2. h[7] \in Nat /\ h[7] <= 255 BY <2>1, ByteIs
  <2>3. h[7] \div 32 \in 0 .. 7 BY <2>2
  <2>4. IP!GetFlags(h) % 8 = h[7] \div 32 BY <2>3 DEF IP!GetFlags
  <2>5. offset \div 256 \in 0 .. 31 BY <1>0
  <2>6. (offset \div 256) % 32 = offset \div 256 BY <2>5
  <2>7. b = (offset \div 256) + 32 * (h[7] \div 32) BY <1>5, <2>4, <2>6
  <2> HIDE DEF b
  <2>8. b \in Byte BY <2>3, <2>5, <2>7 DEF Byte
  <2> QED BY <2>3, <2>5, <2>7, <2>8
<1> HIDE DEF b
<1>7. ButAt(f, s, {7}) /\ f[7] = b
  <2>1. Long(s) BY <1>2, <1>4 DEF Long
  <2>2. 6 \in 0 .. 9 /\ 6 + 1 = 7 OBVIOUS
  <2> QED BY <1>6, <2>1, <2>2, PutByte
<1> HIDE DEF f
<1>8. Long(f) /\ Len(f) = Len(h)
  BY <1>4, <1>7 DEF ButAt
<1>9. Patched(r, f, <<>>, 0)
  BY <1>8, RecomputeIp
<1> HIDE DEF r
<1>10. Long(r) /\ Len(r) = Len(h) /\ \A i \in 1 .. Len(h) : i # 11 /\ i # 12 => r[i] = f[i]
  BY <1>8, <1>9 DEF Patched
<1>11. \A i \in 1 .. Len(h) : i # 7 /\ i # 8 /\ i # 11 /\ i # 12 => r[i] = h[i]
  <2> SUFFICES ASSUME NEW i \in 1 .. Len(h), i # 7, i # 8, i # 11, i # 12 PROVE r[i] = h[i]
    OBVIOUS
  <2>1. r[i] = f[i] BY <1>10
  <2>2. f[i] = s[i] BY <1>4, <1>7 DEF ButAt
  <2>3. s[i] = h[i] BY <1>4
  <2> QED BY <2>1, <2>2, <2>3
<1>12. r[7] = f[7] /\ r[8] = f[8] /\ f[8] = s[8]
  <2>1. 7 \in 1 .. Len(h) /\ 8 \in 1 .. Len(h) /\ 8 \in 1 .. Len(s) BY <1>2, <1>4
  <2> QED BY <1>7, <1>10, <2>1 DEF ButAt
<1> QED BY <1>1, <1>5, <1>6, <1>7, <1>10, <1>11, <1>12 DEF ButAt

\* What the constructor leaves in the bytes that no module sets again.
Fresh(h) ==
  /\ Long(h) /\ Len(h) = 20
  /\ h[1] = 69 /\ h[7] = 64 /\ h[8] = 0 /\ h[9] = 64

LEMMA ConstructorIp ==
  ASSUME NEW g \in Byte, NEW id \in Nat
  PROVE  Fresh(IP!IPHeader(g, id))
<1> DEFINE blank == [i \in 1 .. IP!IP_HEADER_BASE_LENGTH |-> g]
           b1 == (blank[1] % 16) + 16 * (4 % 16)
           h1 == IP!Put(blank, <<b1>>, 0)
           b2 == 16 * (h1[1] \div 16) + (5 % 16)
           h2 == IP!Put(h1, <<b2>>, 0)
           h3 == IP!Put(h2, <<0>>, 1)
           h4 == IP!Put(h3, IP!htons(20), 2)
           h5 == IP!Put(h4, IP!htons(id), 4)
           b6 == (h5[7] % 32) + 32 * (2 % 8)
           h6 == IP!Put(h5, <<b6>>, 6)
           h7 == IP!SetFragOffset(h6, 0)
           h8 == IP!Put(h7, <<64>>, 8)
           h9 == IP!Put(h8, <<255>>, 9)
           none == <<0, 0, 0, 0>>
           h10 == IP!Put(h9, none, 12)
           h11 == IP!Put(h10, none, 16)
<1>1. IP!IPHeader(g, id) = h11
  BY DEF IP!IPHeader, IP!SetVersion, IP!SetHeaderLength, IP!SetTOS, IP!SetTotalLength, IP!SetID,
         IP!SetFlags, IP!SetTTL, IP!SetProtocol, IP!SetSourceIP, IP!SetDestIP,
         IP!IP_HEADER_BASE_LENGTH, IP!IP_PROTO_RAW
<1>2. Long(blank) /\ Len(blank) = 20 /\ blank[1] = g
  BY DEF Long, IP!IP_HEADER_BASE_LENGTH
<1> HIDE DEF blank
<1>3. b1 \in Byte /\ b1 = 64 + (g % 16)
  <2>1. g \in Nat /\ g <= 255 BY ByteIs
  <2>3. 4 % 16 = 4 OBVIOUS
  <2>2. b1 = 64 + (g % 16) BY <1>2, <2>1, <2>3
  <2> QED BY <2>1, <2>2 DEF Byte
<1> HIDE DEF b1
<1>4. Long(h1) /\ Len(h1) = 20 /\ h1[1] = b1
  BY <1>2, <1>3, PutByte DEF ButAt
<1> HIDE DEF h1
<1>5. b2 = 69 /\ b2 \in Byte
  <2>1. g \in Nat /\ g <= 255 BY ByteIs
  <2>2. b1 \div 16 = 4 BY <1>3, <2>1
  <2>3. b2 = 69 BY <1>4, <2>2
  <2> QED BY <2>3 DEF Byte
<1> HIDE DEF b2
<1>6. Long(h2) /\ Len(h2) = 20 /\ h2[1] = 69
  BY <1>4, <1>5, PutByte DEF ButAt
<1> HIDE DEF h2
<1>7. Long(h3) /\ Len(h3) = 20 /\ h3[1] = 69
  <2>1. 0 \in Byte /\ 1 \in 0 .. 9 BY DEF Byte
  <2>2. ButAt(h3, h2, {1 + 1}) BY <1>6, <2>1, PutByte
  <2> QED BY <1>6, <2>2 DEF ButAt
<1> HIDE DEF h3
<1>8. Long(h4) /\ Len(h4) = 20 /\ h4[1] = 69
  <2>1. 20 \in Nat /\ 2 \in {2, 4, 6} OBVIOUS
  <2>2. ButAt(h4, h3, {2 + 1, 2 + 2}) BY <1>7, <2>1, PutWord
  <2> QED BY <1>7, <2>2 DEF ButAt
<1> HIDE DEF h4
<1>9. Long(h5) /\ Len(h5) = 20 /\ h5[1] = 69
  <2>1. 4 \in {2, 4, 6} OBVIOUS
  <2>2. ButAt(h5, h4, {4 + 1, 4 + 2}) BY <1>8, <2>1, PutWord
  <2> QED BY <1>8, <2>2 DEF ButAt
<1> HIDE DEF h5
<1>10. b6 \in Byte /\ b6 \div 32 = 2
  <2>0. h5 \in Seq(Byte) /\ 7 \in 1 .. Len(h5) BY <1>9 DEF Long
  <2>1. h5[7] \in Byte BY <2>0
  <2>2. h5[7] \in Nat BY <2>1, ByteIs
  <2>4. 2 % 8 = 2 OBVIOUS
  <2>3. b6 = 64 + (h5[7] % 32) BY <2>2, <2>4
  <2> HIDE DEF b6
  <2> QED BY <2>2, <2>3 DEF Byte
<1> HIDE DEF b6
<1>11. Long(h6) /\ Len(h6) = 20 /\ h6[1] = 69 /\ h6[7] = b6
  <2>1. 6 \in 0 .. 9 OBVIOUS
  <2>2. ButAt(h6, h5, {6 + 1}) /\ h6[6 + 1] = b6 BY <1>9, <1>10, <2>1, PutByte
  <2> QED BY <1>9, <2>2 DEF ButAt
<1> HIDE DEF h6
<1>12. Long(h7) /\ Len(h7) = 20 /\ h7[1] = 69 /\ h7[7] = 64 /\ h7[8] = 0
  <2>1. PICK o \in Nat : o = 0 OBVIOUS
  <2>2. /\ ButAt(IP!SetFragOffset(h6, o), h6, {7, 8})
        /\ IP!SetFragOffset(h6, o)[7] = 32 * (h6[7] \div 32) + o \div 256
        /\ IP!SetFragOffset(h6, o)[8] = o % 256
    <3>1. Long(h6) /\ IsOffset(o) BY <1>11, <2>1, SMT DEF IsOffset
    <3> QED BY <3>1, SetFragOffsetIp
  <2>3. o \div 256 = 0 /\ o % 256 = 0 /\ h7 = IP!SetFragOffset(h6, o) BY <2>1
  <2>4. h7[7] = 32 * 2 + 0 /\ h7[8] = 0 BY <1>10, <1>11, <2>2, <2>3
  <2>5. ButAt(h7, h6, {7, 8}) BY <2>2, <2>3
  <2> HIDE DEF h7
  <2> QED BY <1>11, <2>4, <2>5 DEF ButAt
<1> HIDE DEF h7
<1>13. Long(h8) /\ Len(h8) = 20 /\ h8[1] = 69 /\ h8[7] = 64 /\ h8[8] = 0 /\ h8[9] = 64
  <2>1. 64 \in Byte /\ 8 \in 0 .. 9 BY DEF Byte
  <2>2. ButAt(h8, h7, {8 + 1}) /\ h8[8 + 1] = 64 BY <1>12, <2>1, PutByte
  <2> QED BY <1>12, <2>2 DEF ButAt
<1> HIDE DEF h8
<1>14. Fresh(h9)
  <2>1. 255 \in Byte /\ 9 \in 0 .. 9 BY DEF Byte
  <2>2. ButAt(h9, h8, {9 + 1}) BY <1>13, <2>1, PutByte
  <2> QED BY <1>13, <2>2 DEF ButAt, Fresh
<1> HIDE DEF h9
<1>15. none \in Bytes(4)
  BY DEF Bytes, Byte
<1> HIDE DEF none
<1>16. Fresh(h10)
  <2>1. ButAt(h10, h9, 12 + 1 .. 12 + 4) BY <1>14, <1>15, PutAddress DEF Fresh
  <2> QED BY <1>14, <2>1 DEF ButAt, Fresh
<1> HIDE DEF h10
<1>17. Fresh(h11)
  <2>1. ButAt(h11, h10, 16 + 1 .. 16 + 4) BY <1>15, <1>16, PutAddress DEF Fresh
  <2> QED BY <1>16, <2>1 DEF ButAt, Fresh
<1> QED BY <1>1, <1>17

-----------------------------------------------------------------------------
(***************************************************************************)
(* What is read from a header is what was set.                             *)
(***************************************************************************)
LEMMA Same ==
  ASSUME NEW a \in Seq(Byte), NEW b \in Seq(Byte), NEW n \in Nat, Len(a) = n, Len(b) = n,
         \A i \in 1 .. n : a[i] = b[i]
  PROVE  a = b
  OBVIOUS

LEMMA GetIs ==
  ASSUME NEW h \in Seq(Byte), NEW a \in Seq(Byte), NEW n \in Nat, Len(a) = n,
         NEW offset \in Nat, offset + n <= Len(h),
         \A i \in 1 .. n : h[offset + i] = a[i]
  PROVE  IP!GetData(h, n, offset) = a
<1> DEFINE d == GetData(h, n, offset)
<1>1. d \in Seq(Byte) /\ Len(d) = n /\ \A i \in 1 .. n : d[i] = h[offset + i]
  BY GetDataIs
<1>2. IP!GetData(h, n, offset) = d
  BY IpBuffer
<1> HIDE DEF d
<1>3. \A i \in 1 .. n : d[i] = a[i]
  BY <1>1
<1> QED BY <1>1, <1>2, <1>3, Same

LEMMA AddressAt ==
  ASSUME NEW h, Long(h), NEW a \in Bytes(4), NEW offset \in {12, 16}, StandsIn(h, offset, a)
  PROVE  IP!GetData(h, 4, offset) = a
<1>1. h \in Seq(Byte) /\ Len(h) \in Nat /\ Len(h) >= 20
  BY DEF Long
<1>2. PICK n \in Nat : n = 4
  OBVIOUS
<1>3. a \in Seq(Byte) /\ Len(a) = n
  BY <1>2 DEF Bytes
<1>4. offset \in Nat /\ offset + n <= Len(h)
  BY <1>1, <1>2
<1>5. \A i \in 1 .. n : h[offset + i] = a[i]
  BY <1>3 DEF StandsIn
<1>6. IP!GetData(h, n, offset) = a
  BY <1>1, <1>3, <1>4, <1>5, GetIs
<1> QED BY <1>2, <1>6

LEMMA OptionsAt ==
  ASSUME NEW h, Long(h), Whole(h), NEW a \in Seq(Byte), Len(h) = 20 + Len(a),
         StandsIn(h, 20, a)
  PROVE  IP!GetOptions(h) = a
<1>1. h \in Seq(Byte) /\ Len(h) \in Nat
  BY DEF Long
<1>2. PICK offset \in Nat : offset = 20
  OBVIOUS
<1>3. PICK n \in Nat : n = Len(a)
  OBVIOUS
<1>4. offset + n <= Len(h)
  BY <1>1, <1>2, <1>3
<1>5. \A i \in 1 .. n : h[offset + i] = a[i]
  BY <1>2, <1>3 DEF StandsIn
<1>6. IP!GetData(h, n, offset) = a
  BY <1>1, <1>3, <1>4, <1>5, GetIs
<1>7. 4 * IP!GetHeaderLength(h) - 20 = n
  <2>1. IP!GetHeaderLength(h) = Len(h) \div 4 /\ Len(h) % 4 = 0
    BY DEF Whole, IP!GetHeaderLength
  <2>2. \A m \in Nat : m % 4 = 0 => m = 4 * (m \div 4)
    OBVIOUS
  <2>3. Len(h) = 4 * (Len(h) \div 4)
    BY <1>1, <2>1, <2>2
  <2> QED BY <1>3, <2>1, <2>3
<1>8. IP!GetOptions(h) = IP!GetData(h, 4 * IP!GetHeaderLength(h) - 20, 20)
  BY DEF IP!GetOptions, IP!IP_HEADER_BASE_LENGTH
<1> QED BY <1>2, <1>6, <1>7, <1>8

LEMMA WordAt ==
  ASSUME NEW h, Long(h), NEW offset \in {2, 6}
  PROVE  IP!ntohs(IP!GetData(h, 2, offset)) = 256 * h[offset + 1] + h[offset + 2]
<1>1. h \in Seq(Byte) /\ Len(h) \in Nat /\ Len(h) >= 20
  BY DEF Long
<1>2. PICK n \in Nat : n = 2
  OBVIOUS
<1>3. offset \in Nat /\ offset + n <= Len(h)
  BY <1>1, <1>2
<1>4. \A i \in 1 .. n : GetData(h, n, offset)[i] = h[offset + i]
  BY <1>1, <1>3, GetDataIs
<1>5. IP!GetData(h, n, offset) = GetData(h, n, offset)
  BY IpBuffer
<1>6. IP!GetData(h, n, offset)[1] = h[offset + 1] /\ IP!GetData(h, n, offset)[2] = h[offset + 2]
  BY <1>2, <1>4, <1>5
<1> QED BY <1>2, <1>6 DEF IP!ntohs

\* The word of the flags and the offset.
Shared(flags, fragoff) == 256 * (32 * flags + fragoff \div 256) + (fragoff % 256)

LEMMA SharedWord ==
  ASSUME NEW flags \in Nat, flags <= 7, NEW fragoff \in Nat, IsOffset(fragoff)
  PROVE  /\ (32 * flags + fragoff \div 256) \div 32 = flags
         /\ Shared(flags, fragoff) % 8192 = fragoff
<1>1. PICK q \in Nat : q = fragoff \div 256 /\ q <= 31
  BY SMT DEF IsOffset
<1>2. PICK r \in Nat : r = fragoff % 256 /\ r <= 255 /\ fragoff = 256 * q + r
  BY <1>1
<1>3. (32 * flags + q) \div 32 = flags
  BY <1>1
<1>4. 256 * (32 * flags + q) + r = 8192 * flags + fragoff
  BY <1>2
<1>5. (8192 * flags + fragoff) % 8192 = fragoff
  BY SMT DEF IsOffset
<1> QED BY <1>1, <1>2, <1>3, <1>4, <1>5 DEF Shared

LEMMA SourceAt ==
  ASSUME NEW h, Long(h), NEW a \in Bytes(4), StandsIn(h, 12, a)
  PROVE  IP!GetSourceIP(h) = a
<1>1. PICK o \in {12, 16} : o = 12
  OBVIOUS
<1>2. StandsIn(h, o, a)
  BY <1>1
<1>3. IP!GetData(h, 4, o) = a
  BY <1>2, AddressAt
<1> QED BY <1>1, <1>3 DEF IP!GetSourceIP

LEMMA DestAt ==
  ASSUME NEW h, Long(h), NEW a \in Bytes(4), StandsIn(h, 16, a)
  PROVE  IP!GetDestIP(h) = a
<1>1. PICK o \in {12, 16} : o = 16
  OBVIOUS
<1>2. StandsIn(h, o, a)
  BY <1>1
<1>3. IP!GetData(h, 4, o) = a
  BY <1>2, AddressAt
<1> QED BY <1>1, <1>3 DEF IP!GetDestIP

LEMMA FragOffsetAt ==
  ASSUME NEW h, Long(h)
  PROVE  IP!GetFragOffset(h) = (256 * h[7] + h[8]) % 8192
<1>1. PICK o \in {2, 6} : o = 6
  OBVIOUS
<1>2. IP!ntohs(IP!GetData(h, 2, o)) = 256 * h[o + 1] + h[o + 2]
  BY WordAt
<1>3. o + 1 = 7 /\ o + 2 = 8
  BY <1>1
<1>4. IP!ntohs(IP!GetData(h, 2, 6)) = 256 * h[7] + h[8]
  BY <1>1, <1>2, <1>3
<1> QED BY <1>4 DEF IP!GetFragOffset

LEMMA TotalLengthAt ==
  ASSUME NEW h, Long(h)
  PROVE  IP!GetTotalLength(h) = 256 * h[3] + h[4]
<1>1. PICK o \in {2, 6} : o = 2
  OBVIOUS
<1>2. IP!ntohs(IP!GetData(h, 2, o)) = 256 * h[o + 1] + h[o + 2]
  BY WordAt
<1>3. o + 1 = 3 /\ o + 2 = 4
  BY <1>1
<1>4. IP!ntohs(IP!GetData(h, 2, 2)) = 256 * h[3] + h[4]
  BY <1>1, <1>2, <1>3
<1> QED BY <1>4 DEF IP!GetTotalLength

Marked(h, ttl, flags, fragoff, proto) ==
  /\ h[7] = 32 * flags + fragoff \div 256 /\ h[8] = fragoff % 256
  /\ h[9] = ttl /\ h[10] = proto

LEMMA FieldsAt ==
  ASSUME NEW h, Long(h), Whole(h), NEW src \in Bytes(4), NEW dst \in Bytes(4), NEW ttl,
         NEW flags \in Nat, flags <= 7, NEW fragoff \in Nat, IsOffset(fragoff),
         NEW options \in Seq(Byte), NEW proto, Len(h) = 20 + Len(options),
         Marked(h, ttl, flags, fragoff, proto),
         StandsIn(h, 12, src), StandsIn(h, 16, dst), StandsIn(h, 20, options)
  PROVE  Fields(h) = [src |-> src, dst |-> dst, ttl |-> ttl, flags |-> flags,
                      fragoff |-> fragoff, options |-> options, proto |-> proto]
<1>1. IP!GetSourceIP(h) = src
  BY SourceAt
<1>2. IP!GetDestIP(h) = dst
  BY DestAt
<1>3. IP!GetTTL(h) = ttl /\ IP!GetProtocol(h) = proto
  BY DEF IP!GetTTL, IP!GetProtocol, Marked
<1>4. IP!GetFlags(h) = flags
  BY SharedWord DEF IP!GetFlags, Marked
<1>5. IP!GetFragOffset(h) = (256 * h[7] + h[8]) % 8192
  BY FragOffsetAt
<1>6. IP!GetFragOffset(h) = fragoff
  <2>1. Shared(flags, fragoff) % 8192 = fragoff
    BY SharedWord
  <2>2. 256 * h[7] + h[8] = Shared(flags, fragoff)
    BY DEF Shared, Marked
  <2> QED BY <1>5, <2>1, <2>2
<1>7. IP!GetOptions(h) = options
  BY OptionsAt
<1> QED BY <1>1, <1>2, <1>3, <1>4, <1>6, <1>7 DEF Fields

-----------------------------------------------------------------------------
(***************************************************************************)
(* The headers that are built say what they were given.                    *)
(***************************************************************************)
IsIp(h) == Long(h) /\ Whole(h) /\ Verifies(h)

LEMMA GivenIs ==
  ASSUME NEW o
  PROVE  Given(o) = [src |-> o.src, dst |-> o.dst, ttl |-> o.ttl, flags |-> o.flags,
                     fragoff |-> o.fragoff, options |-> o.options, proto |-> o.proto]
<1>1. DOMAIN Fields(IP!IPHeader(0, 0)) =
        {"src", "dst", "ttl", "flags", "fragoff", "options", "proto"}
  BY DEF Fields
<1> QED BY <1>1 DEF Given

\* A byte that is not set stays.
LEMMA Stays ==
  ASSUME NEW h, NEW g, NEW set, ButAt(h, g, set), NEW i \in 1 .. Len(g),
         i \notin set, i # 11, i # 12
  PROVE  h[i] = g[i]
  BY DEF ButAt

LEMMA StandsStill ==
  ASSUME NEW h, NEW g, NEW set, ButAt(h, g, set), NEW offset \in Nat, NEW a, Len(a) \in Nat,
         StandsIn(g, offset, a), offset + Len(a) <= Len(g), Len(g) \in Nat, offset >= 12,
         \A i \in set : i <= offset \/ i > offset + Len(a)
  PROVE  StandsIn(h, offset, a)
<1> SUFFICES ASSUME NEW i \in 1 .. Len(a)
             PROVE  h[offset + i] = a[i]
  BY DEF StandsIn
<1>1. g[offset + i] = a[i]
  BY DEF StandsIn
<1>2. /\ offset + i \in 1 .. Len(g) /\ offset + i > offset /\ offset + i <= offset + Len(a)
      /\ offset + i # 11 /\ offset + i # 12
  OBVIOUS
<1>3. offset + i \notin set
  BY <1>2
<1>4. h[offset + i] = g[offset + i]
  BY <1>2, <1>3, Stays
<1> QED BY <1>1, <1>4

LEMMA LengthIs ==
  ASSUME NEW h, NEW g, NEW set, ButAt(h, g, set), Long(g)
  PROVE  Long(h) /\ Len(h) = Len(g) /\ Len(h) \in Nat /\ Len(h) >= 20
  BY DEF ButAt, Long

\* A header whose first byte stays says of its length what it said.
LEMMA WholeStays ==
  ASSUME NEW h, NEW g, NEW set, ButAt(h, g, set), Long(g), Whole(g), 1 \notin set
  PROVE  Whole(h)
<1>1. Len(h) = Len(g) /\ 1 \in 1 .. Len(g)
  BY LengthIs
<1>2. h[1] = g[1]
  BY <1>1 DEF ButAt
<1> QED BY <1>1, <1>2 DEF Whole

Addressed(h, proto, src, dst) ==
  IP!SetDestIP(IP!SetSourceIP(IP!SetProtocol(h, proto), src), dst)

LEMMA AddressedIp ==
  ASSUME NEW g, Long(g), Whole(g), NEW proto \in Byte, NEW src \in Bytes(4), NEW dst \in Bytes(4)
  PROVE  LET r == Addressed(g, proto, src, dst)
         IN  /\ IsIp(r) /\ Len(r) = Len(g) /\ r[10] = proto
             /\ StandsIn(r, 12, src) /\ StandsIn(r, 16, dst)
             /\ \A i \in 1 .. Len(g) : (i < 10 \/ i > 20) => r[i] = g[i]
<1>1. PICK o9 \in 0 .. 9 : o9 = 9
  OBVIOUS
<1>2. PICK o12 \in {12, 16} : o12 = 12
  OBVIOUS
<1>3. PICK o16 \in {12, 16} : o16 = 16
  OBVIOUS
<1> DEFINE a == IP!Put(g, <<proto>>, o9)
           b == IP!Put(a, src, o12)
           r == IP!Put(b, dst, o16)
<1>4. Addressed(g, proto, src, dst) = r
  BY <1>1, <1>2, <1>3 DEF Addressed, IP!SetProtocol, IP!SetSourceIP, IP!SetDestIP
<1>5. ButAt(a, g, {o9 + 1}) /\ a[o9 + 1] = proto
  BY PutByte
<1> HIDE DEF a
<1>6. Long(a) /\ Len(a) = Len(g) /\ Len(a) \in Nat /\ Len(a) >= 20
  BY <1>5, LengthIs
<1>7. /\ ButAt(b, a, o12 + 1 .. o12 + 4)
      /\ StandsIn(b, o12, src)
  BY <1>6, PutAddress
<1> HIDE DEF b
<1>8. Long(b) /\ Len(b) = Len(a) /\ Len(b) \in Nat /\ Len(b) >= 20
  BY <1>6, <1>7, LengthIs
<1>9. Whole(b)
  <2>1. 1 \notin {o9 + 1} BY <1>1
  <2>2. Whole(a) BY <1>5, <2>1, WholeStays
  <2>3. 1 \notin o12 + 1 .. o12 + 4 BY <1>2
  <2> QED BY <1>6, <1>7, <2>2, <2>3, WholeStays
<1>10. /\ ButAt(r, b, o16 + 1 .. o16 + 4)
       /\ StandsIn(r, o16, dst)
       /\ Verifies(r)
  BY <1>8, <1>9, PutAddress
<1> HIDE DEF r
<1>11. Long(r) /\ Len(r) = Len(b)
  BY <1>8, <1>10, LengthIs
<1>12. Whole(r)
  <2>1. 1 \notin o16 + 1 .. o16 + 4 BY <1>3
  <2> QED BY <1>8, <1>9, <1>10, <2>1, WholeStays
<1>13. Len(src) = 4 /\ Len(dst) = 4
  BY DEF Bytes
<1>14. StandsIn(r, 16, dst)
  BY <1>3, <1>10
<1>15. StandsIn(r, 12, src)
  <2>1. StandsIn(b, o12, src)
    BY <1>7
  <2>2. \A i \in o16 + 1 .. o16 + 4 : i <= o12 \/ i > o12 + Len(src)
    BY <1>2, <1>3, <1>13
  <2>3. o12 \in Nat /\ o12 >= 12 /\ Len(src) \in Nat /\ o12 + Len(src) <= Len(b)
    BY <1>2, <1>8, <1>13
  <2>4. StandsIn(r, o12, src)
    BY <1>8, <1>10, <2>1, <2>2, <2>3, StandsStill
  <2> QED BY <1>2, <2>4
<1>16. \A i \in 1 .. Len(g) : (i < 10 \/ i > 20) => r[i] = g[i]
  <2> SUFFICES ASSUME NEW i \in 1 .. Len(g), i < 10 \/ i > 20 PROVE r[i] = g[i]
    OBVIOUS
  <2>1. r[i] = b[i] BY <1>3, <1>6, <1>8, <1>10 DEF ButAt
  <2>2. b[i] = a[i] BY <1>2, <1>6, <1>7 DEF ButAt
  <2>3. a[i] = g[i] BY <1>1, <1>5 DEF ButAt
  <2> QED BY <2>1, <2>2, <2>3
<1>17. r[10] = proto
  <2>1. 10 \in 1 .. Len(b) /\ 10 \in 1 .. Len(a) BY <1>6, <1>8
  <2>2. r[10] = b[10] BY <1>3, <2>1, <1>10 DEF ButAt
  <2>3. b[10] = a[10] BY <1>2, <2>1, <1>7 DEF ButAt
  <2> QED BY <1>1, <1>5, <2>2, <2>3
<1> QED BY <1>4, <1>6, <1>8, <1>10, <1>11, <1>12, <1>14, <1>15, <1>16, <1>17 DEF IsIp

-----------------------------------------------------------------------------
LEMMA TotalIp ==
  ASSUME NEW g, Long(g), Whole(g), NEW n \in Nat
  PROVE  LET r == IP!SetTotalLength(g, n)
         IN  /\ IsIp(r) /\ Len(r) = Len(g)
             /\ WordIn(r, 2, n)
             /\ \A i \in 1 .. Len(g) : i \notin {3, 4, 11, 12} => r[i] = g[i]
<1>1. PICK o \in {2, 4, 6} : o = 2
  OBVIOUS
<1> DEFINE r == IP!Put(g, IP!htons(n), o)
<1>2. IP!SetTotalLength(g, n) = r
  BY <1>1 DEF IP!SetTotalLength
<1>3. /\ ButAt(r, g, {o + 1, o + 2})
      /\ WordIn(r, o, n)
      /\ Whole(g) => Verifies(r)
  BY PutWord
<1> HIDE DEF r
<1>4. Long(r) /\ Len(r) = Len(g)
  BY <1>3, LengthIs
<1>5. Whole(r)
  <2>1. 1 \notin {o + 1, o + 2} BY <1>1
  <2> QED BY <1>3, <2>1, WholeStays
<1>6. \A i \in 1 .. Len(g) : i \notin {3, 4, 11, 12} => r[i] = g[i]
  BY <1>1, <1>3 DEF ButAt
<1>7. WordIn(r, 2, n)
  BY <1>1, <1>3
<1> QED BY <1>2, <1>3, <1>4, <1>5, <1>6, <1>7 DEF IsIp

LEMMA FreshIsWhole ==
  ASSUME NEW h, Fresh(h)
  PROVE  Long(h) /\ Whole(h) /\ Len(h) = 20 /\ h[1] = 69
<1>1. Long(h) /\ Len(h) = 20 /\ h[1] = 69
  BY DEF Fresh
<1>2. 69 % 16 = 5 /\ 20 \div 4 = 5 /\ 20 % 4 = 0
  OBVIOUS
<1> QED BY <1>1, <1>2 DEF Whole

DatagramHeader(g, src, dst, n) ==
  IP!SetTotalLength(Addressed(g, IP!IP_PROTO_UDP, src, dst), n)

LEMMA DatagramIp ==
  ASSUME NEW g, Fresh(g), NEW src \in Bytes(4), NEW dst \in Bytes(4), NEW n \in Nat
  PROVE  LET r == DatagramHeader(g, src, dst, n)
         IN  /\ IsIp(r)
             /\ Fields(r) = [src |-> src, dst |-> dst, ttl |-> 64, flags |-> 2, fragoff |-> 0,
                             options |-> <<>>, proto |-> 17]
             /\ WordIn(r, 2, n) /\ Len(r) = 20
<1> DEFINE a == Addressed(g, IP!IP_PROTO_UDP, src, dst)
           r == IP!SetTotalLength(a, n)
<1>1. Long(g) /\ Whole(g) /\ Len(g) = 20
  BY FreshIsWhole
<1>2. IP!IP_PROTO_UDP = 17 /\ IP!IP_PROTO_UDP \in Byte
  BY DEF IP!IP_PROTO_UDP, Byte
<1>3. /\ IsIp(a) /\ Len(a) = Len(g) /\ a[10] = 17
      /\ StandsIn(a, 12, src) /\ StandsIn(a, 16, dst)
      /\ \A i \in 1 .. Len(g) : (i < 10 \/ i > 20) => a[i] = g[i]
  BY <1>1, <1>2, AddressedIp
<1> HIDE DEF a
<1>4. Long(a) /\ Whole(a)
  BY <1>3 DEF IsIp
<1>5. /\ IsIp(r) /\ Len(r) = Len(a)
      /\ WordIn(r, 2, n)
      /\ \A i \in 1 .. Len(a) : i \notin {3, 4, 11, 12} => r[i] = a[i]
  BY <1>4, TotalIp
<1> HIDE DEF r
<1>6. Len(r) = 20 /\ Len(a) = 20
  BY <1>1, <1>3, <1>5
<1>7. r[7] = a[7] /\ r[8] = a[8] /\ r[9] = a[9] /\ r[10] = a[10]
  BY <1>5, <1>6
<1>8. a[7] = 64 /\ a[8] = 0 /\ a[9] = 64
  <2>1. a[7] = g[7] /\ a[8] = g[8] /\ a[9] = g[9]
    BY <1>1, <1>3
  <2> QED BY <2>1 DEF Fresh
<1>9. StandsIn(r, 12, src) /\ StandsIn(r, 16, dst)
  <2>1. Len(src) = 4 /\ Len(dst) = 4
    BY DEF Bytes
  <2>2. \A i \in 13 .. 20 : r[i] = a[i]
    BY <1>5, <1>6
  <2>3. StandsIn(r, 12, src)
    BY <1>3, <2>1, <2>2 DEF StandsIn
  <2>4. StandsIn(r, 16, dst)
    BY <1>3, <2>1, <2>2 DEF StandsIn
  <2> QED BY <2>3, <2>4
<1>10. PICK flags \in Nat : flags = 2
  OBVIOUS
<1>11. PICK fragoff \in Nat : fragoff = 0
  OBVIOUS
<1>12. PICK options \in Seq(Byte) : options = <<>>
  <2>1. <<>> \in Seq(Byte) OBVIOUS
  <2> QED BY <2>1
<1>b. PICK ttl \in Nat : ttl = 64
  OBVIOUS
<1>c. PICK proto \in Nat : proto = 17
  OBVIOUS
<1>13. flags <= 7 /\ IsOffset(fragoff) /\ Len(r) = 20 + Len(options)
  <2>1. IsOffset(fragoff) BY <1>11, SMT DEF IsOffset
  <2> QED BY <1>6, <1>10, <1>12, <2>1
<1>14. Marked(r, ttl, flags, fragoff, proto)
  <2>1. fragoff \div 256 = 0 /\ fragoff % 256 = 0 BY <1>11
  <2> QED BY <1>3, <1>7, <1>8, <1>10, <1>b, <1>c, <1>11, <2>1 DEF Marked
<1>15. StandsIn(r, 20, options)
  BY <1>12 DEF StandsIn
<1>16. Long(r) /\ Whole(r)
  BY <1>5 DEF IsIp
<1>17. Fields(r) = [src |-> src, dst |-> dst, ttl |-> ttl, flags |-> flags,
                    fragoff |-> fragoff, options |-> options, proto |-> proto]
  BY <1>9, <1>13, <1>14, <1>15, <1>16, FieldsAt
<1> QED BY <1>5, <1>6, <1>b, <1>c, <1>10, <1>11, <1>12, <1>17 DEF DatagramHeader, a, r

-----------------------------------------------------------------------------
\* x is the byte of h behind the first offset bytes.
ByteIn(h, offset, x) == h[offset + 1] = x

LEMMA PutByteIn ==
  ASSUME NEW h, Long(h), NEW x \in Byte, NEW offset \in 0 .. 9
  PROVE  /\ ButAt(IP!Put(h, <<x>>, offset), h, {offset + 1})
         /\ ByteIn(IP!Put(h, <<x>>, offset), offset, x)
  BY PutByte DEF ByteIn

\* s is b with data at offset, and zeros in a gap.
Laid(s, b, data, offset) ==
  /\ s \in Seq(Byte)
  /\ Len(s) = IF offset + Len(data) > Len(b) THEN offset + Len(data) ELSE Len(b)
  /\ \A i \in 1 .. Len(s) :
       s[i] = IF i <= offset
                THEN IF i <= Len(b) THEN b[i] ELSE 0
                ELSE IF i <= offset + Len(data) THEN data[i - offset] ELSE b[i]

LEMMA SetDataLaid ==
  ASSUME NEW b \in Seq(Byte), NEW data \in Seq(Byte), NEW offset \in Nat
  PROVE  Laid(SetData(b, data, offset), b, data, offset)
  BY SetDataIs DEF Laid

\* The options make the header longer, and it says so.
LEMMA OptionsIp ==
  ASSUME NEW g, Long(g), Len(g) = 20, g[1] = 69, NEW a \in Options
  PROVE  LET r == IP!SetOptions(g, a)
         IN  /\ Long(r) /\ Whole(r) /\ Len(r) = 20 + Len(a) /\ StandsIn(r, 20, a)
             /\ \A i \in 2 .. 10 : r[i] = g[i]
<1> DEFINE s == SetData(g, a, 20)
<1>1. g \in Seq(Byte) /\ a \in Seq(Byte) /\ Len(a) \in Nat /\ Len(a) % 4 = 0 /\ Len(a) <= 40
  BY DEF Long, Options
<1>2. PICK n \in Nat : n = 20
  OBVIOUS
<1>3. Laid(SetData(g, a, n), g, a, n)
  <2>1. g \in Seq(Byte) /\ a \in Seq(Byte) BY <1>1
  <2> QED BY <2>1, SetDataLaid
<1>4. /\ s \in Seq(Byte) /\ Len(s) = IF 20 + Len(a) > 20 THEN 20 + Len(a) ELSE 20
      /\ \A i \in 1 .. Len(s) :
           s[i] = IF i <= 20 THEN IF i <= 20 THEN g[i] ELSE 0
                  ELSE IF i <= 20 + Len(a) THEN a[i - 20] ELSE g[i]
  BY <1>2, <1>3 DEF Laid
<1> HIDE DEF s
<1>5. Len(s) = 20 + Len(a)
  BY <1>1, <1>4
<1>6. \A i \in 1 .. 20 : s[i] = g[i]
  BY <1>1, <1>4, <1>5
<1>7. \A i \in 1 .. Len(a) : s[20 + i] = a[i]
  <2> SUFFICES ASSUME NEW i \in 1 .. Len(a) PROVE s[20 + i] = a[i]
    OBVIOUS
  <2>1. 20 + i \in 1 .. Len(s) /\ ~ (20 + i <= 20) /\ 20 + i <= 20 + Len(a) /\ (20 + i) - 20 = i
    BY <1>1, <1>5
  <2> QED BY <1>4, <2>1
<1>8. Long(s)
  BY <1>1, <1>4, <1>5 DEF Long
<1> DEFINE hlen == (20 + Len(a)) \div 4
           x == 16 * (s[1] \div 16) + (hlen % 16)
<1>9. hlen \in Nat /\ hlen <= 15 /\ hlen % 16 = hlen /\ Len(s) \div 4 = hlen /\ Len(s) % 4 = 0
  <2>1. PICK m \in Nat : m = Len(a) BY <1>1
  <2>2. m % 4 = 0 /\ m <= 40 /\ Len(s) = 20 + m BY <1>1, <1>5, <2>1
  <2>3. PICK q \in Nat : m = 4 * q /\ q <= 10 BY <2>2
  <2>4. (20 + 4 * q) \div 4 = 5 + q /\ (20 + 4 * q) % 4 = 0 BY <2>3
  <2>5. hlen = 5 + q /\ Len(s) \div 4 = 5 + q /\ Len(s) % 4 = 0 BY <2>1, <2>2, <2>3, <2>4
  <2>6. \A k \in Nat : k <= 10 => (5 + k) % 16 = 5 + k OBVIOUS
  <2> HIDE DEF hlen
  <2> QED BY <2>3, <2>5, <2>6
<1> HIDE DEF hlen
<1>10. s[1] = 69 /\ 69 \div 16 = 4
  BY <1>6
<1>11. x = 64 + hlen /\ x \in Byte /\ x % 16 = hlen
  <2>1. x = 64 + hlen BY <1>9, <1>10
  <2>2. \A k \in Nat : k <= 15 => (64 + k) % 16 = k OBVIOUS
  <2> HIDE DEF x
  <2>3. x \in Byte BY <1>9, <2>1 DEF Byte
  <2>4. x % 16 = hlen BY <1>9, <2>1, <2>2
  <2> QED BY <2>1, <2>3, <2>4
<1> HIDE DEF x
<1>12. PICK o \in 0 .. 9 : o = 0
  OBVIOUS
<1> DEFINE r == IP!Put(s, <<x>>, o)
<1>13. IP!SetOptions(g, a) = r
  <2>1. IP!IP_HEADER_BASE_LENGTH = 20 BY DEF IP!IP_HEADER_BASE_LENGTH
  <2>2. IP!SetData(g, a, 20) = s BY IpBuffer DEF s
  <2>3. IP!SetOptions(g, a) = IP!SetHeaderLength(s, hlen) BY <2>1, <2>2 DEF IP!SetOptions, hlen
  <2>4. IP!SetHeaderLength(s, hlen) = r BY <1>12 DEF IP!SetHeaderLength, x
  <2> QED BY <2>3, <2>4
<1>14. ButAt(r, s, {o + 1}) /\ ByteIn(r, o, x)
  <2>1. x \in Byte BY <1>11
  <2> QED BY <1>8, <2>1, PutByteIn
<1> HIDE DEF r
<1>15. Long(r) /\ Len(r) = Len(s)
  BY <1>8, <1>14, LengthIs
<1>16. Whole(r)
  <2>1. r[1] = x /\ Len(r) = Len(s) BY <1>12, <1>14, <1>15 DEF ByteIn
  <2> QED BY <1>9, <1>11, <2>1 DEF Whole
<1>17. \A i \in 2 .. Len(s) : i # 11 /\ i # 12 => r[i] = s[i]
  BY <1>12, <1>14 DEF ButAt
<1>18. StandsIn(r, 20, a)
  <2> SUFFICES ASSUME NEW i \in 1 .. Len(a) PROVE r[20 + i] = a[i]
    BY DEF StandsIn
  <2>1. 20 + i \in 2 .. Len(s) /\ 20 + i # 11 /\ 20 + i # 12 BY <1>1, <1>5
  <2> QED BY <1>7, <1>17, <2>1
<1>19. \A i \in 2 .. 10 : r[i] = g[i]
  <2> SUFFICES ASSUME NEW i \in 2 .. 10 PROVE r[i] = g[i]
    OBVIOUS
  <2>1. i \in 2 .. Len(s) /\ i # 11 /\ i # 12 /\ i \in 1 .. 20 BY <1>1, <1>5
  <2>2. r[i] = s[i] BY <1>17, <2>1
  <2>3. s[i] = g[i] BY <1>6, <2>1
  <2> QED BY <2>2, <2>3
<1> QED BY <1>5, <1>13, <1>15, <1>16, <1>18, <1>19

\* The fields that share bytes, set one after the other.
MarkedHeader(h, ttl, flags, fragoff) ==
  IP!SetFragOffset(IP!SetFlags(IP!SetTTL(h, ttl), flags), fragoff)

LEMMA MarkedIp ==
  ASSUME NEW g, Fresh(g), NEW ttl \in Byte, NEW flags \in Nat, flags <= 7,
         NEW fragoff \in Nat, IsOffset(fragoff)
  PROVE  LET r == MarkedHeader(g, ttl, flags, fragoff)
         IN  /\ Long(r) /\ Len(r) = 20 /\ r[1] = 69
             /\ r[7] = 32 * flags + fragoff \div 256 /\ r[8] = fragoff % 256 /\ r[9] = ttl
<1>1. PICK o8 \in 0 .. 9 : o8 = 8
  OBVIOUS
<1>2. PICK o6 \in 0 .. 9 : o6 = 6
  OBVIOUS
<1> DEFINE a == IP!Put(g, <<ttl>>, o8)
           x == (a[7] % 32) + 32 * (flags % 8)
           b == IP!Put(a, <<x>>, o6)
           r == IP!SetFragOffset(b, fragoff)
<1>3. MarkedHeader(g, ttl, flags, fragoff) = r
  BY <1>1, <1>2 DEF MarkedHeader, IP!SetFlags, IP!SetTTL
<1>4. Long(g) /\ Len(g) = 20 /\ g[1] = 69 /\ g[7] = 64
  BY DEF Fresh
<1>a. Long(g)
  BY DEF Fresh
<1>5. ButAt(a, g, {o8 + 1}) /\ ByteIn(a, o8, ttl)
  BY <1>a, PutByteIn
<1> HIDE DEF a
<1>6. Long(a) /\ Len(a) = 20 /\ a[1] = 69 /\ a[7] = 64 /\ a[9] = ttl
  BY <1>1, <1>4, <1>5 DEF ButAt, ByteIn
<1>7. x = 32 * flags /\ x \in Byte
  <2>1. flags % 8 = flags /\ a[7] % 32 = 0 BY <1>6
  <2>2. x = 32 * flags BY <2>1
  <2> QED BY <2>2 DEF Byte
<1> HIDE DEF x
<1>8. ButAt(b, a, {o6 + 1}) /\ ByteIn(b, o6, x)
  <2>1. Long(a) /\ x \in Byte BY <1>6, <1>7
  <2> QED BY <2>1, PutByteIn
<1> HIDE DEF b
<1>9. Long(b) /\ Len(b) = 20 /\ b[1] = 69 /\ b[7] = 32 * flags /\ b[9] = ttl
  BY <1>2, <1>6, <1>7, <1>8 DEF ButAt, ByteIn
<1>10. /\ ButAt(r, b, {7, 8})
       /\ r[7] = 32 * (b[7] \div 32) + fragoff \div 256
       /\ r[8] = fragoff % 256
  <2>1. Long(b) BY <1>9
  <2> QED BY <2>1, SetFragOffsetIp
<1> HIDE DEF r
<1>11. Long(r) /\ Len(r) = 20 /\ r[1] = 69 /\ r[9] = ttl
  BY <1>9, <1>10 DEF ButAt
<1>12. (32 * flags) \div 32 = flags
  OBVIOUS
<1>13. r[7] = 32 * flags + fragoff \div 256
  BY <1>9, <1>10, <1>12
<1> QED BY <1>3, <1>10, <1>11, <1>13

-----------------------------------------------------------------------------
LEMMA OffsetsAre == \A n \in Offsets : n \in Nat /\ IsOffset(n)
  BY SMT DEF Offsets, IsOffset

LEMMA PeerGiven ==
  ASSUME NEW o, IsPeerPacket(o)
  PROVE  /\ o.src \in Hosts /\ o.dst \in Hosts /\ o.src \in Bytes(4) /\ o.dst \in Bytes(4)
         /\ o.ttl \in Byte /\ o.flags \in Nat /\ o.flags <= 7
         /\ o.fragoff \in Nat /\ IsOffset(o.fragoff)
         /\ o.options \in Options /\ o.proto \in Byte
<1>1. o.src \in Hosts /\ o.dst \in Hosts /\ o.ttl \in Byte /\ o.options \in Options /\ o.proto \in Byte
  BY DEF IsPeerPacket
<1>2. o.flags \in Nat /\ o.flags <= 7
  BY DEF IsPeerPacket
<1>3. o.fragoff \in Offsets
  BY DEF IsPeerPacket
<1>4. Hosts \subseteq Bytes(4)
  BY PathAssumption
<1> QED BY <1>1, <1>2, <1>3, <1>4, OffsetsAre

LEMMA PeerIp ==
  ASSUME NEW o, IsPeerPacket(o), NEW len \in Nat
  PROVE  IsIp(PeerHeader(o, len)) /\ Fields(PeerHeader(o, len)) = Given(o)
<1> DEFINE fresh == IP!IPHeader(0, 2)
           m == MarkedHeader(fresh, o.ttl, o.flags, o.fragoff)
           p == IP!SetOptions(m, o.options)
           n == IP!IP_HEADER_BASE_LENGTH + Len(o.options) + len
           t == IP!SetTotalLength(p, n)
           r == Addressed(t, o.proto, o.src, o.dst)
<1>1. PeerHeader(o, len) = r
  BY DEF PeerHeader, Addressed, MarkedHeader
<1>2. Fresh(fresh)
  <2>1. 0 \in Byte /\ 2 \in Nat BY DEF Byte
  <2> QED BY <2>1, ConstructorIp
<1> HIDE DEF fresh
<1>3. o.src \in Bytes(4) /\ o.dst \in Bytes(4) /\ o.ttl \in Byte /\ o.proto \in Byte
  BY PeerGiven
<1>4. o.flags \in Nat /\ o.flags <= 7 /\ o.fragoff \in Nat /\ IsOffset(o.fragoff)
  BY PeerGiven
<1>5. o.options \in Options
  BY PeerGiven
<1>6. /\ Long(m) /\ Len(m) = 20 /\ m[1] = 69
      /\ m[7] = 32 * o.flags + o.fragoff \div 256 /\ m[8] = o.fragoff % 256 /\ m[9] = o.ttl
  BY <1>2, <1>3, <1>4, MarkedIp
<1> HIDE DEF m
<1>7. /\ Long(p) /\ Whole(p) /\ Len(p) = 20 + Len(o.options) /\ StandsIn(p, 20, o.options)
      /\ \A i \in 2 .. 10 : p[i] = m[i]
  <2>1. Long(m) /\ Len(m) = 20 /\ m[1] = 69 BY <1>6
  <2> QED BY <1>5, <2>1, OptionsIp
<1> HIDE DEF p
<1>8. o.options \in Seq(Byte) /\ Len(o.options) \in Nat
  BY <1>5 DEF Options
<1>9. n \in Nat
  BY <1>8 DEF IP!IP_HEADER_BASE_LENGTH
<1> HIDE DEF n
<1>10. /\ IsIp(t) /\ Len(t) = Len(p)
       /\ \A i \in 1 .. Len(p) : i \notin {3, 4, 11, 12} => t[i] = p[i]
  BY <1>7, <1>9, TotalIp
<1> HIDE DEF t
<1>11. Long(t) /\ Whole(t) /\ Len(t) = 20 + Len(o.options)
  BY <1>7, <1>10 DEF IsIp
<1>12. /\ IsIp(r) /\ Len(r) = Len(t) /\ r[10] = o.proto
       /\ StandsIn(r, 12, o.src) /\ StandsIn(r, 16, o.dst)
       /\ \A i \in 1 .. Len(t) : (i < 10 \/ i > 20) => r[i] = t[i]
  <2>1. Long(t) /\ Whole(t) BY <1>11
  <2> QED BY <1>3, <2>1, AddressedIp
<1> HIDE DEF r
<1>13. Marked(r, o.ttl, o.flags, o.fragoff, o.proto)
  <2>1. r[7] = t[7] /\ r[8] = t[8] /\ r[9] = t[9] BY <1>8, <1>11, <1>12
  <2>2. t[7] = p[7] /\ t[8] = p[8] /\ t[9] = p[9] BY <1>7, <1>8, <1>10
  <2>3. p[7] = m[7] /\ p[8] = m[8] /\ p[9] = m[9] BY <1>7
  <2> QED BY <1>6, <1>12, <2>1, <2>2, <2>3 DEF Marked
<1>14. StandsIn(r, 20, o.options)
  <2> SUFFICES ASSUME NEW i \in 1 .. Len(o.options) PROVE r[20 + i] = o.options[i]
    BY DEF StandsIn
  <2>1. 20 + i \in 1 .. Len(t) /\ 20 + i \in 1 .. Len(p) /\ 20 + i > 20
    BY <1>7, <1>8, <1>11
  <2>2. r[20 + i] = t[20 + i] BY <1>12, <2>1
  <2>3. t[20 + i] = p[20 + i] BY <1>8, <1>10, <2>1
  <2>4. p[20 + i] = o.options[i] BY <1>7 DEF StandsIn
  <2> QED BY <2>2, <2>3, <2>4
<1>15. Long(r) /\ Whole(r) /\ Len(r) = 20 + Len(o.options)
  BY <1>11, <1>12 DEF IsIp
<1>16. Fields(r) = [src |-> o.src, dst |-> o.dst, ttl |-> o.ttl, flags |-> o.flags,
                    fragoff |-> o.fragoff, options |-> o.options, proto |-> o.proto]
  BY <1>3, <1>4, <1>8, <1>12, <1>13, <1>14, <1>15, FieldsAt
<1>17. Given(o) = [src |-> o.src, dst |-> o.dst, ttl |-> o.ttl, flags |-> o.flags,
                   fragoff |-> o.fragoff, options |-> o.options, proto |-> o.proto]
  BY GivenIs
<1> QED BY <1>1, <1>12, <1>16, <1>17

-----------------------------------------------------------------------------
(***************************************************************************)
(* Packets of a few headers.                                               *)
(***************************************************************************)
LEMMA FlattenOne ==
  ASSUME NEW S, NEW a \in Seq(S)
  PROVE  FlattenSeq(<<a>>) = a
<1> DEFINE s == <<a>>
           step(h) == [i \in 1 .. Len(s) |-> IF i = 1 THEN s[i] ELSE h[i - 1] \o s[i]]
           f == CHOOSE h : h = step(h)
<1>1. FlattenSeq(s) = f[1]
  BY DEF FlattenSeq
<1>2. s = step(s)
  OBVIOUS
<1>3. f = step(f)
  BY <1>2
<1> HIDE DEF f
<1>4. f[1] = a
  BY <1>3
<1> QED BY <1>1, <1>4

LEMMA FlattenTwo ==
  ASSUME NEW S, NEW a \in Seq(S), NEW b \in Seq(S)
  PROVE  FlattenSeq(<<a, b>>) = a \o b
<1> DEFINE s == <<a, b>>
           step(h) == [i \in 1 .. Len(s) |-> IF i = 1 THEN s[i] ELSE h[i - 1] \o s[i]]
           f == CHOOSE h : h = step(h)
           g == <<a, a \o b>>
<1>1. FlattenSeq(s) = f[2]
  BY DEF FlattenSeq
<1>2. g = step(g)
  OBVIOUS
<1>3. f = step(f)
  BY <1>2
<1> HIDE DEF f
<1>4. f[1] = a
  BY <1>3
<1>5. f[2] = f[1] \o b
  <2>1. \A i \in 1 .. Len(s) : f[i] = IF i = 1 THEN s[i] ELSE f[i - 1] \o s[i]
    BY <1>3
  <2>2. 2 \in 1 .. Len(s) /\ s[2] = b /\ 2 # 1 /\ 2 - 1 = 1
    OBVIOUS
  <2> HIDE DEF s
  <2> QED BY <2>1, <2>2
<1> QED BY <1>1, <1>4, <1>5

Joined(a, b) == a \o b

LEMMA FlattenThree ==
  ASSUME NEW S, NEW a \in Seq(S), NEW b \in Seq(S), NEW c \in Seq(S)
  PROVE  FlattenSeq(<<a, b, c>>) = Joined(Joined(a, b), c)
<1> DEFINE s == <<a, b, c>>
           step(h) == [i \in 1 .. Len(s) |-> IF i = 1 THEN s[i] ELSE h[i - 1] \o s[i]]
           f == CHOOSE h : h = step(h)
           g == <<a, a \o b, (a \o b) \o c>>
<1>1. FlattenSeq(s) = f[3]
  BY DEF FlattenSeq
<1>2. g = step(g)
  <2>1. Len(s) = 3 /\ Len(g) = 3 /\ 1 .. 3 = {1, 2, 3}
    OBVIOUS
  <2>2. /\ g[1] = s[1] /\ g[2] = g[2 - 1] \o s[2] /\ g[3] = g[3 - 1] \o s[3]
    OBVIOUS
  <2>3. g = [i \in 1 .. 3 |-> g[i]]
    OBVIOUS
  <2> HIDE DEF g, s
  <2>4. \A i \in 1 .. 3 : g[i] = IF i = 1 THEN s[i] ELSE g[i - 1] \o s[i]
    BY <2>1, <2>2
  <2> QED BY <2>1, <2>3, <2>4
<1>3. f = step(f)
  BY <1>2
<1> HIDE DEF f
<1>4. f[1] = a
  BY <1>3
<1>5. f[2] = f[1] \o b
  <2>1. \A i \in 1 .. Len(s) : f[i] = IF i = 1 THEN s[i] ELSE f[i - 1] \o s[i]
    BY <1>3
  <2>2. 2 \in 1 .. Len(s) /\ s[2] = b /\ 2 # 1 /\ 2 - 1 = 1
    OBVIOUS
  <2> HIDE DEF s
  <2> QED BY <2>1, <2>2
<1>6. f[3] = f[2] \o c
  <2>1. \A i \in 1 .. Len(s) : f[i] = IF i = 1 THEN s[i] ELSE f[i - 1] \o s[i]
    BY <1>3
  <2>2. 3 \in 1 .. Len(s) /\ s[3] = c /\ 3 # 1 /\ 3 - 1 = 2
    OBVIOUS
  <2> HIDE DEF s
  <2> QED BY <2>1, <2>2
<1> QED BY <1>1, <1>4, <1>5, <1>6 DEF Joined

LEMMA FlattenNone == FlattenSeq(<<>>) = <<>>
  BY DEF FlattenSeq

None(b) == [headers |-> <<>>, payload |-> b]
One(t, d, b) == [headers |-> <<Header(t, d)>>, payload |-> b]
Two(t, d, u, e, b) == [headers |-> <<Header(t, d), Header(u, e)>>, payload |-> b]

LEMMA FindInOne ==
  ASSUME NEW t, NEW d, NEW b
  PROVE  FindHeader(One(t, d, b), t) = d
<1> DEFINE s == <<Header(t, d)>>
<1>1. \A I : I = {1} => I # {} /\ Min(I) = 1
  BY DEF Min
<1>2. {i \in 1 .. Len(s) : s[i].tag = t} = {1}
  BY DEF Header
<1> QED BY <1>1, <1>2 DEF FindHeader, One, SelectInSeq, Header

LEMMA FindInTwo ==
  ASSUME NEW t, NEW d, NEW u, NEW e, NEW b, t # u
  PROVE  /\ FindHeader(Two(t, d, u, e, b), t) = d
         /\ FindHeader(Two(t, d, u, e, b), u) = e
<1> DEFINE s == <<Header(t, d), Header(u, e)>>
<1>1. \A I, n : n \in Nat /\ I = {n} => I # {} /\ Min(I) = n
  BY DEF Min
<1>2. {i \in 1 .. Len(s) : s[i].tag = t} = {1} /\ {i \in 1 .. Len(s) : s[i].tag = u} = {2}
  BY DEF Header
<1> QED BY <1>1, <1>2 DEF FindHeader, Two, SelectInSeq, Header

-----------------------------------------------------------------------------
(***************************************************************************)
(* What is read from a FIFO is what was written.                           *)
(***************************************************************************)
Tags == {"EthernetHeader", "IPHeader", "UDPHeader", "TCPHeader", "ICMPHeader"}
Symbol == Nat \cup Tags

LEMMA Assoc ==
  ASSUME NEW S, NEW a \in Seq(S), NEW b \in Seq(S), NEW c \in Seq(S)
  PROVE  (a \o b) \o c = a \o (b \o c)
  OBVIOUS

LEMMA AppendOne ==
  ASSUME NEW x, NEW y
  PROVE  Append(<<x>>, y) = <<x, y>>
<1> DEFINE s == Append(<<x>>, y)
<1>1. <<x>> \in Seq({x, y}) /\ Len(<<x>>) = 1 /\ <<x>>[1] = x
  OBVIOUS
<1>2. s \in Seq({x, y}) /\ Len(s) = 2 /\ s[1] = x /\ s[2] = y
  BY <1>1
<1> HIDE DEF s
<1>3. <<x, y>> \in Seq({x, y}) /\ Len(<<x, y>>) = 2 /\ <<x, y>>[1] = x /\ <<x, y>>[2] = y
  OBVIOUS
<1>4. \A i \in 1 .. 2 : s[i] = <<x, y>>[i]
  BY <1>2, <1>3
<1>5. s = <<x, y>>
  BY <1>2, <1>3, <1>4
<1> QED BY <1>5 DEF s

LEMMA BytesAreSymbols == \A b \in Seq(Byte) : b \in Seq(Symbol) /\ Len(b) \in Symbol
<1>1. Byte \subseteq Symbol
  BY DEF Byte, Symbol
<1> SUFFICES ASSUME NEW b \in Seq(Byte) PROVE b \in Seq(Symbol) /\ Len(b) \in Symbol
  OBVIOUS
<1>2. b \in Seq(Symbol)
  BY <1>1
<1>3. Len(b) \in Symbol
  BY DEF Symbol
<1> QED BY <1>2, <1>3

LEMMA SameIn ==
  ASSUME NEW S, NEW a \in Seq(S), NEW b \in Seq(S), NEW n \in Nat, Len(a) = n, Len(b) = n,
         \A i \in 1 .. n : a[i] = b[i]
  PROVE  a = b
  OBVIOUS

LEMMA BufferBackIn ==
  ASSUME NEW S, NEW b \in Seq(S), Len(b) \in S, NEW rest \in Seq(S)
  PROVE  /\ UnserializeBuffer(SerializeBuffer(b) \o rest) = Got(b, rest)
         /\ SerializeBuffer(b) \in Seq(S)
<1> DEFINE s == (<<Len(b)>> \o b) \o rest
<1>1. b \in Seq(S) /\ Len(b) \in S
  OBVIOUS
<1>2. <<Len(b)>> \in Seq(S) /\ <<Len(b)>> \o b \in Seq(S) /\ s \in Seq(S)
  BY <1>1
<1>3. Len(s) = 1 + Len(b) + Len(rest) /\ s[1] = Len(b)
  BY <1>1
<1>4. \A i \in 1 .. Len(b) : s[1 + i] = b[i]
  BY <1>1
<1>5. \A i \in 1 .. Len(rest) : s[1 + Len(b) + i] = rest[i]
  BY <1>1
<1> HIDE DEF s
<1>6. SubSeq(s, 2, Len(b) + 1) = b
  <2>1. SubSeq(s, 2, Len(b) + 1) \in Seq(S) /\ Len(SubSeq(s, 2, Len(b) + 1)) = Len(b)
    BY <1>1, <1>2, <1>3
  <2>2. \A i \in 1 .. Len(b) : SubSeq(s, 2, Len(b) + 1)[i] = b[i]
    BY <1>1, <1>2, <1>3, <1>4
  <2>3. Len(b) \in Nat OBVIOUS
  <2> QED BY <2>1, <2>2, <2>3, SameIn
<1>7. SubSeq(s, Len(b) + 2, Len(s)) = rest
  <2>1. SubSeq(s, Len(b) + 2, Len(s)) \in Seq(S) /\ Len(SubSeq(s, Len(b) + 2, Len(s))) = Len(rest)
    BY <1>1, <1>2, <1>3
  <2>2. \A i \in 1 .. Len(rest) : SubSeq(s, Len(b) + 2, Len(s))[i] = rest[i]
    BY <1>1, <1>2, <1>3, <1>5
  <2>3. Len(rest) \in Nat OBVIOUS
  <2> DEFINE z == SubSeq(s, Len(b) + 2, Len(s))
  <2>4. z \in Seq(S) /\ Len(z) = Len(rest) /\ \A i \in 1 .. Len(rest) : z[i] = rest[i] BY <2>1, <2>2
  <2> HIDE DEF z
  <2>5. z = rest BY <2>3, <2>4, SameIn
  <2> QED BY <2>5 DEF z
<1>8. UnserializeBuffer(s) = Got(b, rest)
  BY <1>3, <1>6, <1>7 DEF UnserializeBuffer
<1> QED BY <1>2, <1>8 DEF SerializeBuffer, s

LEMMA BufferBack ==
  ASSUME NEW b \in Seq(Byte), NEW rest \in Seq(Symbol)
  PROVE  /\ UnserializeBuffer(SerializeBuffer(b) \o rest) = Got(b, rest)
         /\ SerializeBuffer(b) \in Seq(Symbol)
<1>1. b \in Seq(Symbol) /\ Len(b) \in Symbol
  BY BytesAreSymbols
<1> QED BY <1>1, BufferBackIn

LEMMA HeaderBack ==
  ASSUME NEW t \in Tags, NEW d \in Seq(Byte), NEW rest \in Seq(Symbol)
  PROVE  /\ UnserializeHeader(SerializeHeader(Header(t, d)) \o rest) = Got(Header(t, d), rest)
         /\ SerializeHeader(Header(t, d)) \in Seq(Symbol)
<1> DEFINE w == SerializeBuffer(d)
           s == (<<t>> \o w) \o rest
<1>1. w \in Seq(Symbol) /\ UnserializeBuffer(w \o rest) = Got(d, rest)
  BY BufferBack
<1> HIDE DEF w
<1>2. t \in Symbol
  BY DEF Symbol
<1>3. s = <<t>> \o (w \o rest) /\ w \o rest \in Seq(Symbol) /\ <<t>> \o w \in Seq(Symbol)
  BY <1>1, <1>2
<1>4. s[1] = t /\ Tail(s) = w \o rest
  <2> DEFINE v == w \o rest
  <2>1. v \in Seq(Symbol) BY <1>3
  <2>2. s = <<t>> \o v BY <1>3
  <2> HIDE DEF v, s
  <2>3. s[1] = t /\ Tail(s) = v BY <1>2, <2>1, <2>2
  <2> QED BY <2>3 DEF v
<1> HIDE DEF s
<1>5. UnserializeHeader(s) = Got(Header(t, d), rest)
  <2>1. UnserializeBuffer(Tail(s)) = Got(d, rest) BY <1>1, <1>4
  <2>2. Got(d, rest).value = d /\ Got(d, rest).rest = rest BY DEF Got
  <2> QED BY <1>4, <2>1, <2>2 DEF UnserializeHeader
<1>6. SerializeHeader(Header(t, d)) = <<t>> \o w
  BY DEF SerializeHeader, Header, w
<1> QED BY <1>3, <1>5, <1>6 DEF s

\* The row of headers, each read off what the one before it left.
NextHeader(got) ==
  LET h == UnserializeHeader(got.rest) IN Got(Append(got.value, h.value), h.rest)

Reads(f, s, n) ==
  /\ f[0] = Got(<<>>, Tail(s))
  /\ \A i \in 1 .. n : f[i] = NextHeader(f[i - 1])

LEMMA UnserializeReads ==
  ASSUME NEW s, NEW n \in Nat, s[1] = n, NEW g, Reads(g, s, n), g = [i \in 0 .. n |-> g[i]]
  PROVE  \E f : /\ Reads(f, s, n)
                /\ Unserialize(s) = [headers |-> f[n].value,
                                     payload |-> UnserializeBuffer(f[n].rest).value]
<1> DEFINE step(h) == [i \in 0 .. s[1] |->
                        IF i = 0 THEN Got(<<>>, Tail(s))
                        ELSE LET x == UnserializeHeader(h[i - 1].rest)
                             IN  Got(Append(h[i - 1].value, x.value), x.rest)]
           read == CHOOSE h : h = step(h)
<1>1. Unserialize(s) = [headers |-> read[n].value, payload |-> UnserializeBuffer(read[n].rest).value]
  BY DEF Unserialize
<1>2. ASSUME NEW h
      PROVE  step(h) = [i \in 0 .. n |-> IF i = 0 THEN Got(<<>>, Tail(s)) ELSE NextHeader(h[i - 1])]
  BY DEF NextHeader
<1> HIDE DEF step
<1>3. g = step(g)
  <2>1. \A i \in 0 .. n : g[i] = IF i = 0 THEN Got(<<>>, Tail(s)) ELSE NextHeader(g[i - 1])
    <3> SUFFICES ASSUME NEW i \in 0 .. n
                 PROVE  g[i] = IF i = 0 THEN Got(<<>>, Tail(s)) ELSE NextHeader(g[i - 1])
      OBVIOUS
    <3>1. CASE i = 0
      BY <3>1 DEF Reads
    <3>2. CASE i # 0
      <4>1. i \in 1 .. n BY <3>2
      <4>2. g[i] = NextHeader(g[i - 1]) BY <4>1 DEF Reads
      <4> QED BY <3>2, <4>2
    <3> QED BY <3>1, <3>2
  <2> QED BY <1>2, <2>1
<1>4. read = step(read)
  BY <1>3
<1> HIDE DEF read
<1>5. \A i \in 0 .. n : read[i] = IF i = 0 THEN Got(<<>>, Tail(s)) ELSE NextHeader(read[i - 1])
  <2>1. read = [i \in 0 .. n |-> IF i = 0 THEN Got(<<>>, Tail(s)) ELSE NextHeader(read[i - 1])]
    BY <1>2, <1>4
  <2> QED BY <2>1
<1>6. Reads(read, s, n)
  BY <1>5 DEF Reads
<1> QED BY <1>1, <1>6

LEMMA NextIs ==
  ASSUME NEW t \in Tags, NEW d \in Seq(Byte), NEW rest \in Seq(Symbol), NEW value
  PROVE  NextHeader(Got(value, SerializeHeader(Header(t, d)) \o rest)) =
           Got(Append(value, Header(t, d)), rest)
<1>1. UnserializeHeader(SerializeHeader(Header(t, d)) \o rest) = Got(Header(t, d), rest)
  BY HeaderBack
<1> QED BY <1>1 DEF NextHeader, Got

\* What follows the row.
Ending(b) == SerializeBuffer(b) \o <<0>>

LEMMA EndingIs ==
  ASSUME NEW b \in Seq(Byte)
  PROVE  Ending(b) \in Seq(Symbol) /\ UnserializeBuffer(Ending(b)).value = b
<1>1. <<0>> \in Seq(Symbol)
  BY DEF Symbol
<1>2. SerializeBuffer(b) \in Seq(Symbol) /\ UnserializeBuffer(SerializeBuffer(b) \o <<0>>) = Got(b, <<0>>)
  BY <1>1, BufferBack
<1> QED BY <1>1, <1>2 DEF Ending, Got

\* A row of n headers in w.
LEMMA SerializeIs ==
  ASSUME NEW p, NEW n \in Nat, Len(p.headers) = n, NEW w \in Seq(Symbol), p.payload \in Seq(Byte),
         FlattenSeq([i \in DOMAIN p.headers |-> SerializeHeader(p.headers[i])]) = w
  PROVE  Serialize(p)[1] = n /\ Tail(Serialize(p)) = w \o Ending(p.payload)
<1> DEFINE b == SerializeBuffer(p.payload)
           v == w \o Ending(p.payload)
<1>1. <<0>> \in Seq(Symbol) /\ <<n>> \in Seq(Symbol)
  BY DEF Symbol
<1>2. b \in Seq(Symbol)
  BY <1>1, BufferBack
<1>3. Serialize(p) = ((<<n>> \o w) \o b) \o <<0>>
  BY DEF Serialize
<1>4. Ending(p.payload) = b \o <<0>>
  BY DEF Ending
<1> HIDE DEF b
<1>5. ((<<n>> \o w) \o b) \o <<0>> = <<n>> \o (w \o (b \o <<0>>))
  <2>1. (<<n>> \o w) \o b = <<n>> \o (w \o b) BY <1>1, <1>2, Assoc
  <2>2. w \o b \in Seq(Symbol) BY <1>2
  <2>3. (<<n>> \o (w \o b)) \o <<0>> = <<n>> \o ((w \o b) \o <<0>>) BY <1>1, <2>2, Assoc
  <2>4. (w \o b) \o <<0>> = w \o (b \o <<0>>) BY <1>1, <1>2, Assoc
  <2> QED BY <2>1, <2>3, <2>4
<1>6. v \in Seq(Symbol)
  BY EndingIs
<1>7. Serialize(p) = <<n>> \o v
  BY <1>3, <1>4, <1>5
<1> HIDE DEF v
<1>8. Serialize(p)[1] = n /\ Tail(Serialize(p)) = v
  BY <1>1, <1>6, <1>7
<1> QED BY <1>8 DEF v

LEMMA BackNone ==
  ASSUME NEW b \in Seq(Byte)
  PROVE  Unserialize(Serialize(None(b))) = None(b)
<1> DEFINE p == None(b)
           s == Serialize(p)
           g == [i \in 0 .. 0 |-> Got(<<>>, Tail(s))]
<1>1. p.headers = <<>> /\ p.payload = b
  BY DEF None
<1>2. FlattenSeq([i \in DOMAIN p.headers |-> SerializeHeader(p.headers[i])]) = <<>>
  <2>1. [i \in DOMAIN p.headers |-> SerializeHeader(p.headers[i])] = <<>>
    BY <1>1
  <2> QED BY <2>1, FlattenNone
<1>3. s[1] = 0 /\ Tail(s) = <<>> \o Ending(b)
  <2>1. <<>> \in Seq(Symbol) /\ Len(p.headers) = 0 BY <1>1
  <2> HIDE DEF p
  <2> QED BY <1>1, <1>2, <2>1, SerializeIs
<1>4. Tail(s) = Ending(b)
  BY <1>3, EndingIs
<1> HIDE DEF s
<1>5. Reads(g, s, 0) /\ g = [i \in 0 .. 0 |-> g[i]]
  BY DEF Reads
<1>6. PICK f : /\ Reads(f, s, 0)
               /\ Unserialize(s) = [headers |-> f[0].value, payload |-> UnserializeBuffer(f[0].rest).value]
  <2> HIDE DEF g
  <2>1. PICK n \in Nat : n = 0 OBVIOUS
  <2> QED BY <1>3, <1>5, <2>1, UnserializeReads
<1>7. f[0] = Got(<<>>, Ending(b))
  BY <1>4, <1>6 DEF Reads
<1>8. f[0].value = <<>> /\ UnserializeBuffer(f[0].rest).value = b
  BY <1>7, EndingIs DEF Got
<1> QED BY <1>6, <1>8 DEF None, s

LEMMA BackOne ==
  ASSUME NEW t \in Tags, NEW d \in Seq(Byte), NEW b \in Seq(Byte)
  PROVE  Unserialize(Serialize(One(t, d, b))) = One(t, d, b)
<1> DEFINE p == One(t, d, b)
           s == Serialize(p)
           w == SerializeHeader(Header(t, d))
           g == [i \in 0 .. 1 |-> IF i = 0 THEN Got(<<>>, Tail(s)) ELSE NextHeader(Got(<<>>, Tail(s)))]
<1>0. w \in Seq(Symbol)
  <2>1. <<>> \in Seq(Symbol) OBVIOUS
  <2> QED BY <2>1, HeaderBack
<1>1. p.headers = <<Header(t, d)>> /\ p.payload = b
  BY DEF One
<1>2. FlattenSeq([i \in DOMAIN p.headers |-> SerializeHeader(p.headers[i])]) = w
  <2>1. [i \in DOMAIN p.headers |-> SerializeHeader(p.headers[i])] = <<w>>
    BY <1>1
  <2> HIDE DEF w
  <2> QED BY <1>0, <2>1, FlattenOne
<1>3. PICK n \in Nat : n = 1
  OBVIOUS
<1>4. s[1] = n /\ Tail(s) = w \o Ending(b)
  <2>1. Len(p.headers) = n BY <1>1, <1>3
  <2> HIDE DEF p, w
  <2> QED BY <1>0, <1>1, <1>2, <2>1, SerializeIs
<1> HIDE DEF s
<1>5. Reads(g, s, n) /\ g = [i \in 0 .. n |-> g[i]]
  BY <1>3 DEF Reads
<1>6. PICK f : /\ Reads(f, s, n)
               /\ Unserialize(s) = [headers |-> f[n].value, payload |-> UnserializeBuffer(f[n].rest).value]
  <2> HIDE DEF g
  <2> QED BY <1>4, <1>5, UnserializeReads
<1>7. f[0] = Got(<<>>, w \o Ending(b)) /\ f[1] = NextHeader(f[0])
  <2>1. 1 \in 1 .. n /\ 1 - 1 = 0 BY <1>3
  <2> QED BY <1>4, <1>6, <2>1 DEF Reads
<1>8. f[1] = Got(<<Header(t, d)>>, Ending(b))
  <2>1. Ending(b) \in Seq(Symbol) BY EndingIs
  <2>2. NextHeader(Got(<<>>, w \o Ending(b))) = Got(Append(<<>>, Header(t, d)), Ending(b))
    BY <2>1, NextIs
  <2>3. Append(<<>>, Header(t, d)) = <<Header(t, d)>>
    OBVIOUS
  <2> QED BY <1>7, <2>2, <2>3
<1>9. f[1].value = <<Header(t, d)>> /\ UnserializeBuffer(f[1].rest).value = b
  BY <1>8, EndingIs DEF Got
<1> QED BY <1>3, <1>6, <1>9 DEF One, s

LEMMA BackTwo ==
  ASSUME NEW t \in Tags, NEW d \in Seq(Byte), NEW u \in Tags, NEW e \in Seq(Byte), NEW b \in Seq(Byte)
  PROVE  Unserialize(Serialize(Two(t, d, u, e, b))) = Two(t, d, u, e, b)
<1> DEFINE p == Two(t, d, u, e, b)
           s == Serialize(p)
           v == SerializeHeader(Header(t, d))
           w == SerializeHeader(Header(u, e))
           g0 == Got(<<>>, Tail(s))
           g1 == NextHeader(g0)
           g == [i \in 0 .. 2 |-> IF i = 0 THEN g0 ELSE IF i = 1 THEN g1 ELSE NextHeader(g1)]
<1>0. v \in Seq(Symbol) /\ w \in Seq(Symbol)
  <2>1. <<>> \in Seq(Symbol) OBVIOUS
  <2> QED BY <2>1, HeaderBack
<1>1. p.headers = <<Header(t, d), Header(u, e)>> /\ p.payload = b
  BY DEF Two
<1>2. FlattenSeq([i \in DOMAIN p.headers |-> SerializeHeader(p.headers[i])]) = v \o w
  <2>1. [i \in DOMAIN p.headers |-> SerializeHeader(p.headers[i])] = <<v, w>>
    BY <1>1
  <2> HIDE DEF v, w
  <2> QED BY <1>0, <2>1, FlattenTwo
<1>3. PICK n \in Nat : n = 2
  OBVIOUS
<1>4. s[1] = n /\ Tail(s) = (v \o w) \o Ending(b)
  <2>1. Len(p.headers) = n BY <1>1, <1>3
  <2> HIDE DEF v, w
  <2>2. v \o w \in Seq(Symbol) BY <1>0
  <2> HIDE DEF p
  <2> QED BY <1>1, <1>2, <2>1, <2>2, SerializeIs
<1>a. Ending(b) \in Seq(Symbol) /\ UnserializeBuffer(Ending(b)).value = b
  BY EndingIs
<1>b. Tail(s) = v \o (w \o Ending(b)) /\ w \o Ending(b) \in Seq(Symbol)
  <2> HIDE DEF v, w, s
  <2>1. w \o Ending(b) \in Seq(Symbol) BY <1>0, <1>a
  <2>2. (v \o w) \o Ending(b) = v \o (w \o Ending(b)) BY <1>0, <1>a, Assoc
  <2> QED BY <1>4, <2>1, <2>2
<1> HIDE DEF s
<1>5. Reads(g, s, n) /\ g = [i \in 0 .. n |-> g[i]]
  <2> HIDE DEF g0, g1
  <2>1. g[0] = g0 /\ g[1] = g1 /\ g[2] = NextHeader(g1) OBVIOUS
  <2>2. g = [i \in 0 .. n |-> g[i]] BY <1>3
  <2> HIDE DEF g
  <2>3. 1 .. n = {1, 2} BY <1>3
  <2>4. \A i \in 1 .. n : g[i] = NextHeader(g[i - 1]) 
    <3>1. g[1] = NextHeader(g[0]) BY <2>1 DEF g1
    <3>2. g[2] = NextHeader(g[1]) BY <2>1
    <3>3. 1 - 1 = 0 /\ 2 - 1 = 1 OBVIOUS
    <3> QED BY <2>3, <3>1, <3>2, <3>3
  <2> QED BY <2>1, <2>2, <2>4 DEF Reads, g0
<1>6. PICK f : /\ Reads(f, s, n)
               /\ Unserialize(s) = [headers |-> f[n].value, payload |-> UnserializeBuffer(f[n].rest).value]
  <2> HIDE DEF g
  <2> QED BY <1>4, <1>5, UnserializeReads
<1>7. f[0] = Got(<<>>, v \o (w \o Ending(b))) /\ f[1] = NextHeader(f[0]) /\ f[2] = NextHeader(f[1])
  <2>1. 1 \in 1 .. n /\ 2 \in 1 .. n /\ 1 - 1 = 0 /\ 2 - 1 = 1 BY <1>3
  <2> QED BY <1>b, <1>6, <2>1 DEF Reads
<1>8. f[1] = Got(<<Header(t, d)>>, w \o Ending(b))
  <2> DEFINE x == w \o Ending(b)
  <2>1. x \in Seq(Symbol) BY <1>b
  <2>a. f[1] = NextHeader(Got(<<>>, v \o x)) BY <1>7
  <2> HIDE DEF x
  <2>2. NextHeader(Got(<<>>, v \o x)) = Got(Append(<<>>, Header(t, d)), x)
    BY <2>1, NextIs
  <2>3. Append(<<>>, Header(t, d)) = <<Header(t, d)>>
    OBVIOUS
  <2>4. f[1] = Got(<<Header(t, d)>>, x)
    BY <2>a, <2>2, <2>3
  <2> QED BY <2>4 DEF x
<1>9. f[2] = Got(<<Header(t, d), Header(u, e)>>, Ending(b))
  <2>1. NextHeader(Got(<<Header(t, d)>>, w \o Ending(b))) =
          Got(Append(<<Header(t, d)>>, Header(u, e)), Ending(b))
    BY <1>a, NextIs
  <2>2. Append(<<Header(t, d)>>, Header(u, e)) = <<Header(t, d), Header(u, e)>>
    BY AppendOne
  <2> QED BY <1>7, <1>8, <2>1, <2>2
<1>10. f[2].value = <<Header(t, d), Header(u, e)>> /\ UnserializeBuffer(f[2].rest).value = b
  BY <1>9, <1>a DEF Got
<1> QED BY <1>3, <1>6, <1>10 DEF Two, s

-----------------------------------------------------------------------------
(***************************************************************************)
(* The headers of the transport modules are bytes, whatever they hold.     *)
(***************************************************************************)
LEMMA GetDataBytes ==
  ASSUME NEW b \in Seq(Byte), NEW size \in Int, NEW offset \in Nat
  PROVE  GetData(b, size, offset) \in Seq(Byte)
<1>1. Smaller(offset + size, Len(b)) \in Int /\ Smaller(offset + size, Len(b)) <= Len(b)
  BY DEF Smaller
<1> QED BY <1>1 DEF GetData

LEMMA ComplementIs ==
  ASSUME NEW b \in Seq(Byte)
  PROVE  Complement(OnesComplementSum(b)) \in Int
<1>1. \A n \in Nat : Complement(n) \in Int
  BY SMT DEF Complement
<1> QED BY <1>1, SumIsWord

LEMMA IpReads ==
  ASSUME NEW h, Long(h)
  PROVE  /\ IP!GetSourceIP(h) \in Seq(Byte) /\ IP!GetDestIP(h) \in Seq(Byte)
         /\ IP!GetProtocol(h) \in Int /\ IP!GetTotalLength(h) \in Int
         /\ IP!GetHeaderLength(h) \in Int
<1>1. h \in Seq(Byte) /\ Len(h) \in Nat /\ Len(h) >= 20
  BY DEF Long
<1>2. 4 \in Int /\ 12 \in Nat /\ 16 \in Nat
  OBVIOUS
<1>3. IP!GetSourceIP(h) \in Seq(Byte) /\ IP!GetDestIP(h) \in Seq(Byte)
  BY <1>1, <1>2, IpBuffer, GetDataBytes DEF IP!GetSourceIP, IP!GetDestIP
<1>4. h[1] \in Byte /\ h[3] \in Byte /\ h[4] \in Byte /\ h[10] \in Byte
  BY <1>1
<1>5. h[1] \in Nat /\ h[3] \in Nat /\ h[4] \in Nat /\ h[10] \in Nat
  BY <1>4, ByteIs
<1>6. IP!GetTotalLength(h) \in Int
  BY <1>5, TotalLengthAt
<1> QED BY <1>3, <1>5, <1>6 DEF IP!GetProtocol, IP!GetHeaderLength

LEMMA UdpBuffer ==
  /\ \A b, data, offset : UDP!SetData(b, data, offset) = SetData(b, data, offset)
  /\ \A b, size, offset : UDP!GetData(b, size, offset) = GetData(b, size, offset)
  /\ \A b : UDP!OnesComplementSum(b) = OnesComplementSum(b)
  /\ \A n : UDP!htons(n) = htons(n)
  /\ \A b : UDP!ntohs(b) = ntohs(b)
  /\ \A n : UDP!Complement(n) = Complement(n)
  /\ \A p, t : UDP!FindHeader(p, t) = FindHeader(p, t)
  /\ \A h : UDP!IP!GetSourceIP(h) = IP!GetSourceIP(h) /\ UDP!IP!GetDestIP(h) = IP!GetDestIP(h)
  /\ \A h : UDP!IP!GetProtocol(h) = IP!GetProtocol(h)
<1>1. ASSUME NEW b, NEW data, NEW offset
      PROVE  UDP!SetData(b, data, offset) = SetData(b, data, offset)
  BY DEF UDP!SetData, SetData, UDP!Zeros, Zeros, UDP!Smaller, Smaller
<1>2. ASSUME NEW b, NEW size, NEW offset
      PROVE  UDP!GetData(b, size, offset) = GetData(b, size, offset)
  BY DEF UDP!GetData, GetData, UDP!Smaller, Smaller
<1>3. ASSUME NEW b
      PROVE  UDP!OnesComplementSum(b) = OnesComplementSum(b)
  BY DEF UDP!OnesComplementSum, OnesComplementSum, UDP!SumOfWords, SumOfWords, UDP!Words, Words,
         UDP!Word, Word, UDP!Folded, Folded, UDP!FoldCarry, FoldCarry
<1>4. \A n : UDP!htons(n) = htons(n)
  BY DEF UDP!htons, htons
<1>5. \A b : UDP!ntohs(b) = ntohs(b)
  BY DEF UDP!ntohs, ntohs
<1>6. \A n : UDP!Complement(n) = Complement(n)
  BY DEF UDP!Complement, Complement
<1>7. ASSUME NEW p, NEW t
      PROVE  UDP!FindHeader(p, t) = FindHeader(p, t)
  BY DEF UDP!FindHeader, FindHeader, UDP!SelectInSeq, SelectInSeq, UDP!Min, Min
<1>8. ASSUME NEW h
      PROVE  UDP!IP!GetSourceIP(h) = IP!GetSourceIP(h) /\ UDP!IP!GetDestIP(h) = IP!GetDestIP(h)
  BY DEF UDP!IP!GetSourceIP, IP!GetSourceIP, UDP!IP!GetDestIP, IP!GetDestIP,
         UDP!IP!GetData, IP!GetData, UDP!IP!Smaller, IP!Smaller
<1>9. \A h : UDP!IP!GetProtocol(h) = IP!GetProtocol(h)
  BY DEF UDP!IP!GetProtocol, IP!GetProtocol
<1> QED BY <1>1, <1>2, <1>3, <1>4, <1>5, <1>6, <1>7, <1>8, <1>9

\* A packet whose IP header and payload are bytes.
Readable(p) == Long(FindHeader(p, "IPHeader")) /\ p.payload \in Seq(Byte)

LEMMA UdpSum ==
  ASSUME NEW h \in Seq(Byte), Len(h) >= 8, NEW p, Readable(p)
  PROVE  UDP!ComputeChecksum(h, p) \in Int
<1> DEFINE iph == FindHeader(p, "IPHeader")
           len == UDP!GetLength(h)
           pseudo == ((IP!GetSourceIP(iph) \o IP!GetDestIP(iph))
                        \o htons(IP!GetProtocol(iph))) \o htons(len)
           headers == pseudo \o GetData(h, 8, 0)
           data == GetData(p.payload, len - 8, 0)
<1>1. UDP!UDP_HEADER_LENGTH = 8
  BY DEF UDP!UDP_HEADER_LENGTH
<1>2. UDP!ComputeChecksum(h, p) = Complement(OnesComplementSum(headers \o data))
  BY <1>1, UdpBuffer DEF UDP!ComputeChecksum
<1>3. p.payload \in Seq(Byte)
  BY DEF Readable
<1>4. /\ IP!GetSourceIP(iph) \in Seq(Byte) /\ IP!GetDestIP(iph) \in Seq(Byte)
      /\ IP!GetProtocol(iph) \in Int
  BY IpReads DEF Readable
<1> HIDE DEF iph
<1>5. len \in Int
  <2>1. PICK n \in Nat : n = 2 OBVIOUS
  <2>2. PICK o \in Nat : o = 4 OBVIOUS
  <2>3. o + n <= Len(h) BY <2>1, <2>2
  <2>4. \A i \in 1 .. n : GetData(h, n, o)[i] = h[o + i] BY <2>3, GetDataIs
  <2>5. GetData(h, n, o)[1] = h[5] /\ GetData(h, n, o)[2] = h[6]
    <3>1. 1 \in 1 .. n /\ 2 \in 1 .. n /\ o + 1 = 5 /\ o + 2 = 6 BY <2>1, <2>2
    <3> QED BY <2>4, <3>1
  <2>6. h[5] \in Nat /\ h[6] \in Nat
    <3>1. h[5] \in Byte /\ h[6] \in Byte OBVIOUS
    <3> QED BY <3>1, ByteIs
  <2>7. len = 256 * GetData(h, n, o)[1] + GetData(h, n, o)[2]
    BY <2>1, <2>2, UdpBuffer DEF UDP!GetLength, ntohs
  <2> HIDE DEF len
  <2> QED BY <2>5, <2>6, <2>7
<1> HIDE DEF len
<1>6. htons(IP!GetProtocol(iph)) \in Seq(Byte) /\ htons(len) \in Seq(Byte)
  BY <1>4, <1>5, HtonsIs
<1>7. pseudo \in Seq(Byte)
  BY <1>4, <1>6
<1> HIDE DEF pseudo
<1>8. GetData(h, 8, 0) \in Seq(Byte) /\ data \in Seq(Byte)
  <2>1. 8 \in Int /\ 0 \in Nat /\ len - 8 \in Int BY <1>5
  <2> QED BY <1>3, <2>1, GetDataBytes
<1> HIDE DEF data
<1>9. headers \o data \in Seq(Byte)
  BY <1>7, <1>8
<1> QED BY <1>2, <1>9, ComplementIs

\* A header of at least size bytes after something is set.
LEMMA SetDataBytes ==
  ASSUME NEW b \in Seq(Byte), NEW data \in Seq(Byte), NEW offset \in Nat
  PROVE  /\ SetData(b, data, offset) \in Seq(Byte)
         /\ Len(SetData(b, data, offset)) >= Len(b)
         /\ Len(SetData(b, data, offset)) >= offset + Len(data)
<1>1. /\ SetData(b, data, offset) \in Seq(Byte)
      /\ Len(SetData(b, data, offset)) =
           IF offset + Len(data) > Len(b) THEN offset + Len(data) ELSE Len(b)
  BY SetDataIs
<1> QED BY <1>1

LEMMA SetWordBytes ==
  ASSUME NEW b \in Seq(Byte), NEW n \in Int, NEW offset \in Nat
  PROVE  /\ SetData(b, htons(n), offset) \in Seq(Byte)
         /\ Len(SetData(b, htons(n), offset)) >= Len(b)
         /\ Len(SetData(b, htons(n), offset)) >= offset + 2
<1> DEFINE w == htons(n)
<1>1. w \in Seq(Byte) /\ Len(w) = 2
  BY HtonsIs
<1> HIDE DEF w
<1>2. /\ SetData(b, w, offset) \in Seq(Byte)
      /\ Len(SetData(b, w, offset)) >= Len(b)
      /\ Len(SetData(b, w, offset)) >= offset + Len(w)
  BY <1>1, SetDataBytes
<1>3. Len(SetData(b, w, offset)) >= offset + 2
  BY <1>1, <1>2
<1> QED BY <1>2, <1>3 DEF w

LEMMA UdpRecompute ==
  ASSUME NEW h \in Seq(Byte), NEW p, Readable(p)
  PROVE  UDP!RecomputeChecksum(h, p) \in Seq(Byte)
<1> DEFINE cleared == SetData(h, htons(0), 6)
           n == UDP!ComputeChecksum(cleared, p)
<1>1. PICK o \in Nat : o = 6
  OBVIOUS
<1>2. PICK z \in Int : z = 0
  OBVIOUS
<1>3. cleared \in Seq(Byte) /\ Len(cleared) >= 8
  <2>1. SetData(h, htons(z), o) \in Seq(Byte) /\ Len(SetData(h, htons(z), o)) >= o + 2
    BY SetWordBytes
  <2>2. cleared = SetData(h, htons(z), o) BY <1>1, <1>2
  <2> HIDE DEF cleared
  <2> QED BY <1>1, <2>1, <2>2
<1> HIDE DEF cleared
<1>4. n \in Int
  BY <1>3, UdpSum
<1> HIDE DEF n
<1>5. htons(n) \in Seq(Byte)
  BY <1>4, HtonsIs
<1>6. SetData(cleared, htons(n), 6) \in Seq(Byte)
  <2>1. SetData(cleared, htons(n), o) \in Seq(Byte) BY <1>3, <1>5, SetDataBytes
  <2> QED BY <1>1, <2>1
<1>7. UDP!RecomputeChecksum(h, p) = cleared \/ UDP!RecomputeChecksum(h, p) = SetData(cleared, htons(n), 6)
  BY UdpBuffer DEF UDP!RecomputeChecksum, UDP!SetChecksum, cleared, n
<1> QED BY <1>3, <1>6, <1>7

LEMMA UdpSet ==
  ASSUME NEW h \in Seq(Byte), NEW n \in Int, NEW p, Readable(p)
  PROVE  /\ UDP!SetSourcePort(h, n, p) \in Seq(Byte) /\ UDP!SetDestPort(h, n, p) \in Seq(Byte)
         /\ UDP!SetLength(h, n, p) \in Seq(Byte)
<1>1. htons(n) \in Seq(Byte)
  BY HtonsIs
<1>2. ASSUME NEW offset \in Nat
      PROVE  UDP!RecomputeChecksum(UDP!SetData(h, UDP!htons(n), offset), p) \in Seq(Byte)
  <2>1. SetData(h, htons(n), offset) \in Seq(Byte) BY <1>1, SetDataBytes
  <2>2. UDP!SetData(h, UDP!htons(n), offset) = SetData(h, htons(n), offset) BY UdpBuffer
  <2> QED BY <2>1, <2>2, UdpRecompute
<1>3. 0 \in Nat /\ 2 \in Nat /\ 4 \in Nat
  OBVIOUS
<1> QED BY <1>2, <1>3 DEF UDP!SetSourcePort, UDP!SetDestPort, UDP!SetLength

LEMMA IcmpBuffer ==
  /\ \A b, data, offset : ICMP!SetData(b, data, offset) = SetData(b, data, offset)
  /\ \A b, size, offset : ICMP!GetData(b, size, offset) = GetData(b, size, offset)
  /\ \A b : ICMP!OnesComplementSum(b) = OnesComplementSum(b)
  /\ \A n : ICMP!htons(n) = htons(n)
  /\ \A n : ICMP!Complement(n) = Complement(n)
<1>1. ASSUME NEW b, NEW data, NEW offset
      PROVE  ICMP!SetData(b, data, offset) = SetData(b, data, offset)
  BY DEF ICMP!SetData, SetData, ICMP!Zeros, Zeros, ICMP!Smaller, Smaller
<1>2. ASSUME NEW b, NEW size, NEW offset
      PROVE  ICMP!GetData(b, size, offset) = GetData(b, size, offset)
  BY DEF ICMP!GetData, GetData, ICMP!Smaller, Smaller
<1>3. ASSUME NEW b
      PROVE  ICMP!OnesComplementSum(b) = OnesComplementSum(b)
  BY DEF ICMP!OnesComplementSum, OnesComplementSum, ICMP!SumOfWords, SumOfWords, ICMP!Words, Words,
         ICMP!Word, Word, ICMP!Folded, Folded, ICMP!FoldCarry, FoldCarry
<1>4. \A n : ICMP!htons(n) = htons(n)
  BY DEF ICMP!htons, htons
<1>5. \A n : ICMP!Complement(n) = Complement(n)
  BY DEF ICMP!Complement, Complement
<1> QED BY <1>1, <1>2, <1>3, <1>4, <1>5

LEMMA IcmpSum ==
  ASSUME NEW h \in Seq(Byte), NEW p, p.payload \in Seq(Byte)
  PROVE  ICMP!ComputeChecksum(h, p) \in Int
<1> DEFINE x == SetData(GetData(h, 8, 0), p.payload, 16)
<1>1. ICMP!ComputeChecksum(h, p) = Complement(OnesComplementSum(x))
  <2>1. ICMP!ICMP_HEADER_LENGTH = 8 /\ 2 * 8 = 16 BY DEF ICMP!ICMP_HEADER_LENGTH
  <2> QED BY <2>1, IcmpBuffer DEF ICMP!ComputeChecksum
<1>2. 8 \in Int /\ 0 \in Nat /\ 16 \in Nat
  OBVIOUS
<1>3. GetData(h, 8, 0) \in Seq(Byte)
  BY <1>2, GetDataBytes
<1>4. x \in Seq(Byte)
  BY <1>2, <1>3, SetDataBytes
<1> HIDE DEF x
<1> QED BY <1>1, <1>4, ComplementIs

LEMMA IcmpPut ==
  ASSUME NEW h \in Seq(Byte), NEW bytes \in Seq(Byte), NEW offset \in Nat,
         NEW p, p.payload \in Seq(Byte)
  PROVE  ICMP!Put(h, bytes, offset, p) \in Seq(Byte)
<1> DEFINE s == SetData(h, bytes, offset)
           cleared == SetData(s, htons(0), 2)
           n == ICMP!ComputeChecksum(cleared, p)
<1>1. s \in Seq(Byte)
  BY SetDataBytes
<1>2. ICMP!Put(h, bytes, offset, p) = SetData(cleared, htons(n), 2)
  BY IcmpBuffer DEF ICMP!Put, ICMP!RecomputeChecksum, ICMP!SetChecksum
<1> HIDE DEF s
<1>3. 0 \in Int /\ 2 \in Nat
  OBVIOUS
<1>4. htons(0) \in Seq(Byte)
  BY <1>3, HtonsIs
<1>5. cleared \in Seq(Byte)
  BY <1>1, <1>3, <1>4, SetDataBytes
<1> HIDE DEF cleared
<1>6. n \in Int
  BY <1>5, IcmpSum
<1> HIDE DEF n
<1>7. htons(n) \in Seq(Byte)
  BY <1>6, HtonsIs
<1>8. SetData(cleared, htons(n), 2) \in Seq(Byte)
  BY <1>3, <1>5, <1>7, SetDataBytes
<1> QED BY <1>2, <1>8

LEMMA TcpBuffer ==
  /\ \A b, data, offset : TCP!SetData(b, data, offset) = SetData(b, data, offset)
  /\ \A b, size, offset : TCP!GetData(b, size, offset) = GetData(b, size, offset)
  /\ \A b : TCP!OnesComplementSum(b) = OnesComplementSum(b)
  /\ \A n : TCP!htons(n) = htons(n)
  /\ \A b : TCP!ntohs(b) = ntohs(b)
  /\ \A n : TCP!Complement(n) = Complement(n)
  /\ \A p, t : TCP!FindHeader(p, t) = FindHeader(p, t)
  /\ \A h : TCP!IP!GetSourceIP(h) = IP!GetSourceIP(h) /\ TCP!IP!GetDestIP(h) = IP!GetDestIP(h)
  /\ \A h : TCP!IP!GetProtocol(h) = IP!GetProtocol(h)
  /\ \A h : TCP!SegmentLength(h) = IP!GetTotalLength(h) - 4 * IP!GetHeaderLength(h)
<1>1. ASSUME NEW b, NEW data, NEW offset
      PROVE  TCP!SetData(b, data, offset) = SetData(b, data, offset)
  BY DEF TCP!SetData, SetData, TCP!Zeros, Zeros, TCP!Smaller, Smaller
<1>2. ASSUME NEW b, NEW size, NEW offset
      PROVE  TCP!GetData(b, size, offset) = GetData(b, size, offset)
  BY DEF TCP!GetData, GetData, TCP!Smaller, Smaller
<1>3. ASSUME NEW b
      PROVE  TCP!OnesComplementSum(b) = OnesComplementSum(b)
  BY DEF TCP!OnesComplementSum, OnesComplementSum, TCP!SumOfWords, SumOfWords, TCP!Words, Words,
         TCP!Word, Word, TCP!Folded, Folded, TCP!FoldCarry, FoldCarry
<1>4. \A n : TCP!htons(n) = htons(n)
  BY DEF TCP!htons, htons
<1>5. \A b : TCP!ntohs(b) = ntohs(b)
  BY DEF TCP!ntohs, ntohs
<1>6. \A n : TCP!Complement(n) = Complement(n)
  BY DEF TCP!Complement, Complement
<1>7. ASSUME NEW p, NEW t
      PROVE  TCP!FindHeader(p, t) = FindHeader(p, t)
  BY DEF TCP!FindHeader, FindHeader, TCP!SelectInSeq, SelectInSeq, TCP!Min, Min
<1>8. ASSUME NEW h
      PROVE  TCP!IP!GetSourceIP(h) = IP!GetSourceIP(h) /\ TCP!IP!GetDestIP(h) = IP!GetDestIP(h)
  BY DEF TCP!IP!GetSourceIP, IP!GetSourceIP, TCP!IP!GetDestIP, IP!GetDestIP,
         TCP!IP!GetData, IP!GetData, TCP!IP!Smaller, IP!Smaller
<1>9. \A h : TCP!IP!GetProtocol(h) = IP!GetProtocol(h)
  BY DEF TCP!IP!GetProtocol, IP!GetProtocol
<1>10. ASSUME NEW h
       PROVE  TCP!SegmentLength(h) = IP!GetTotalLength(h) - 4 * IP!GetHeaderLength(h)
  BY DEF TCP!SegmentLength, TCP!IP!GetTotalLength, IP!GetTotalLength, TCP!IP!GetHeaderLength,
         IP!GetHeaderLength, TCP!IP!GetData, IP!GetData, TCP!IP!Smaller, IP!Smaller,
         TCP!IP!ntohs, IP!ntohs
<1> QED BY <1>1, <1>2, <1>3, <1>4, <1>5, <1>6, <1>7, <1>8, <1>9, <1>10

LEMMA TcpSum ==
  ASSUME NEW h \in Seq(Byte), Len(h) >= 20, NEW p, Readable(p)
  PROVE  TCP!ComputeChecksum(h, p) \in Int
<1> DEFINE iph == FindHeader(p, "IPHeader")
           len == IP!GetTotalLength(iph) - 4 * IP!GetHeaderLength(iph)
           hlen == 4 * TCP!GetHeaderLen(h)
           pseudo == ((IP!GetSourceIP(iph) \o IP!GetDestIP(iph))
                        \o htons(IP!GetProtocol(iph))) \o htons(len)
           header == GetData(h, hlen, 0)
           headers == SetData(pseudo, header, 12)
           data == GetData(p.payload, len - hlen, 0)
           x == SetData(headers, data, 12 + hlen)
<1>1. TCP!ComputeChecksum(h, p) = Complement(OnesComplementSum(x))
  BY TcpBuffer DEF TCP!ComputeChecksum
<1>2. p.payload \in Seq(Byte)
  BY DEF Readable
<1>3. /\ IP!GetSourceIP(iph) \in Seq(Byte) /\ IP!GetDestIP(iph) \in Seq(Byte)
      /\ IP!GetProtocol(iph) \in Int /\ IP!GetTotalLength(iph) \in Int
      /\ IP!GetHeaderLength(iph) \in Int
  BY IpReads DEF Readable
<1> HIDE DEF iph
<1>4. len \in Int
  BY <1>3
<1> HIDE DEF len
<1>5. hlen \in Nat
  <2>1. h[13] \in Byte OBVIOUS
  <2>2. h[13] \in Nat BY <2>1, ByteIs
  <2> QED BY <2>2 DEF TCP!GetHeaderLen
<1> HIDE DEF hlen
<1>6. htons(IP!GetProtocol(iph)) \in Seq(Byte) /\ htons(len) \in Seq(Byte)
  BY <1>3, <1>4, HtonsIs
<1>7. pseudo \in Seq(Byte)
  BY <1>3, <1>6
<1> HIDE DEF pseudo
<1>8. 0 \in Nat /\ 12 \in Nat /\ 12 + hlen \in Nat /\ len - hlen \in Int /\ hlen \in Int
  BY <1>4, <1>5
<1>9. header \in Seq(Byte) /\ data \in Seq(Byte)
  BY <1>2, <1>8, GetDataBytes
<1> HIDE DEF header, data
<1>10. headers \in Seq(Byte)
  BY <1>7, <1>8, <1>9, SetDataBytes
<1> HIDE DEF headers
<1>11. x \in Seq(Byte)
  BY <1>8, <1>9, <1>10, SetDataBytes
<1> HIDE DEF x
<1> QED BY <1>1, <1>11, ComplementIs

LEMMA TcpPut ==
  ASSUME NEW h \in Seq(Byte), NEW bytes \in Seq(Byte), NEW offset \in Nat, NEW p, Readable(p)
  PROVE  TCP!Put(h, bytes, offset, p) \in Seq(Byte) /\ Len(TCP!Put(h, bytes, offset, p)) >= 20
<1> DEFINE s == SetData(h, bytes, offset)
           whole == IF Len(s) < 20 THEN SetData(s, htons(0), 18) ELSE s
           cleared == SetData(whole, htons(0), 16)
           n == TCP!ComputeChecksum(cleared, p)
           r == SetData(cleared, htons(n), 16)
<1>1. s \in Seq(Byte)
  BY SetDataBytes
<1>2. TCP!Put(h, bytes, offset, p) = r
  BY TcpBuffer DEF TCP!Put, TCP!RecomputeChecksum, TCP!SetChecksum, TCP!TCP_HEADER_BASE_LENGTH
<1> HIDE DEF s
<1>3. 0 \in Int /\ 16 \in Nat
  OBVIOUS
<1>4. htons(0) \in Seq(Byte)
  BY <1>3, HtonsIs
<1>5. whole \in Seq(Byte) /\ Len(whole) >= 20
  <2>1. PICK o \in Nat : o = 18 OBVIOUS
  <2>2. PICK z \in Int : z = 0 OBVIOUS
  <2> DEFINE y == SetData(s, htons(0), 18)
  <2>3. SetData(s, htons(z), o) \in Seq(Byte) /\ Len(SetData(s, htons(z), o)) >= o + 2
    BY <1>1, SetWordBytes
  <2>4. y = SetData(s, htons(z), o) BY <2>1, <2>2
  <2> HIDE DEF y
  <2>5. y \in Seq(Byte) /\ Len(y) >= 20
    BY <2>1, <2>3, <2>4
  <2>6. whole = IF Len(s) < 20 THEN y ELSE s
    BY DEF y
  <2> HIDE DEF whole
  <2> QED BY <1>1, <2>5, <2>6
<1> HIDE DEF whole
<1>6. cleared \in Seq(Byte) /\ Len(cleared) >= Len(whole)
  BY <1>3, <1>4, <1>5, SetDataBytes
<1> HIDE DEF cleared
<1>7. Len(cleared) >= 20
  BY <1>5, <1>6
<1>8. n \in Int
  BY <1>6, <1>7, TcpSum
<1> HIDE DEF n
<1>9. htons(n) \in Seq(Byte)
  BY <1>8, HtonsIs
<1>10. r \in Seq(Byte) /\ Len(r) >= Len(cleared)
  BY <1>3, <1>6, <1>9, SetDataBytes
<1> HIDE DEF r
<1> QED BY <1>2, <1>6, <1>7, <1>10

-----------------------------------------------------------------------------
(***************************************************************************)
(* The packets that start.                                                 *)
(***************************************************************************)
LEMMA ConcatOne ==
  ASSUME NEW x, NEW y
  PROVE  <<x>> \o <<y>> = <<x, y>>
<1> DEFINE s == <<x>> \o <<y>>
<1>1. /\ <<x>> \in Seq({x, y}) /\ Len(<<x>>) = 1 /\ <<x>>[1] = x
      /\ <<y>> \in Seq({x, y}) /\ Len(<<y>>) = 1 /\ <<y>>[1] = y
  OBVIOUS
<1>2. s \in Seq({x, y}) /\ Len(s) = 2 /\ s[1] = x /\ s[2] = y
  BY <1>1
<1> HIDE DEF s
<1>3. <<x, y>> \in Seq({x, y}) /\ Len(<<x, y>>) = 2 /\ <<x, y>>[1] = x /\ <<x, y>>[2] = y
  OBVIOUS
<1>4. \A i \in 1 .. 2 : s[i] = <<x, y>>[i]
  BY <1>2, <1>3
<1>5. s = <<x, y>>
  BY <1>2, <1>3, <1>4
<1> QED BY <1>5 DEF s

LEMMA Pushes ==
  ASSUME NEW b, NEW t, NEW d, NEW u, NEW e
  PROVE  /\ NewPacket(b) = None(b)
         /\ PushFrontHeader(None(b), t, d) = One(t, d, b)
         /\ PushFrontHeader(One(t, d, b), u, e) = Two(u, e, t, d, b)
         /\ PushBackHeader(One(t, d, b), u, e) = Two(t, d, u, e, b)
<1>1. NewPacket(b) = None(b)
  BY DEF NewPacket, None
<1>2. PushFrontHeader(None(b), t, d) = One(t, d, b)
  BY DEF PushFrontHeader, None, One
<1>3. PushFrontHeader(One(t, d, b), u, e) = Two(u, e, t, d, b)
  BY ConcatOne DEF PushFrontHeader, One, Two
<1>4. PushBackHeader(One(t, d, b), u, e) = Two(t, d, u, e, b)
  BY AppendOne DEF PushBackHeader, One, Two
<1> QED BY <1>1, <1>2, <1>3, <1>4

LEMMA DatagramIs ==
  ASSUME NEW g, Fresh(g), NEW o, o.src \in Bytes(4), o.dst \in Bytes(4),
         o.body.srcport \in Int, o.body.destport \in Int, o.body.data \in Seq(Byte)
  PROVE  \E x \in Seq(Byte) :
           Datagram(g, o) = Two("IPHeader", DatagramHeader(g, o.src, o.dst, 28 + Len(o.body.data)),
                                "UDPHeader", x, o.body.data)
<1> DEFINE data == o.body.data
           len == UDP!UDP_HEADER_LENGTH + Len(data)
           h == IP!SetTotalLength(Addressed(g, IP!IP_PROTO_UDP, o.src, o.dst), len + IP!IP_HEADER_BASE_LENGTH)
           p == PushFrontHeader(NewPacket(data), "IPHeader", h)
           x1 == UDP!SetSourcePort(<<>>, o.body.srcport, p)
           x2 == UDP!SetDestPort(x1, o.body.destport, p)
           x == UDP!SetLength(x2, len, p)
<1>1. Datagram(g, o) = PushBackHeader(p, "UDPHeader", x)
  BY DEF Datagram, Addressed
<1>2. len \in Int /\ len + IP!IP_HEADER_BASE_LENGTH = 28 + Len(data) /\ 28 + Len(data) \in Nat
  BY DEF UDP!UDP_HEADER_LENGTH, IP!IP_HEADER_BASE_LENGTH
<1>3. h = DatagramHeader(g, o.src, o.dst, 28 + Len(data))
  BY <1>2 DEF DatagramHeader
<1> HIDE DEF len
<1>4. Long(h)
  <2>1. IsIp(DatagramHeader(g, o.src, o.dst, 28 + Len(data)))
    <3>1. PICK n \in Nat : n = 28 + Len(data) BY <1>2
    <3>2. IsIp(DatagramHeader(g, o.src, o.dst, n)) BY DatagramIp
    <3> QED BY <3>1, <3>2
  <2> QED BY <1>3, <2>1 DEF IsIp
<1> HIDE DEF h
<1>5. p = One("IPHeader", h, data)
  BY Pushes
<1>6. Readable(p)
  <2>1. FindHeader(One("IPHeader", h, data), "IPHeader") = h BY FindInOne
  <2>2. One("IPHeader", h, data).payload = data BY DEF One
  <2> QED BY <1>4, <1>5, <2>1, <2>2 DEF Readable
<1> HIDE DEF p
<1>7. x1 \in Seq(Byte)
  <2>1. <<>> \in Seq(Byte) OBVIOUS
  <2> QED BY <1>6, <2>1, UdpSet
<1> HIDE DEF x1
<1>8. x2 \in Seq(Byte)
  BY <1>6, <1>7, UdpSet
<1> HIDE DEF x2
<1>9. x \in Seq(Byte)
  BY <1>2, <1>6, <1>8, UdpSet
<1> HIDE DEF x
<1>10. Datagram(g, o) = Two("IPHeader", h, "UDPHeader", x, data)
  BY <1>1, <1>5, Pushes
<1> QED BY <1>3, <1>9, <1>10

LEMMA MessageIs ==
  ASSUME NEW body, IsMessage(body), NEW p, p.payload \in Seq(Byte)
  PROVE  Message(body, p) \in Seq(Byte)
<1> DEFINE a == ICMP!Put(<<>>, <<body.type>>, 0, p)
           b == ICMP!Put(a, body.identifier, 4, p)
<1>1. Message(body, p) = ICMP!Put(b, body.seqnumber, 6, p)
  BY DEF Message, ICMP!SetType, ICMP!SetIdentifier, ICMP!SetSequenceNumber
<1>2. body.type \in Byte /\ body.identifier \in Seq(Byte) /\ body.seqnumber \in Seq(Byte)
  BY DEF IsMessage, Bytes
<1>3. <<>> \in Seq(Byte) /\ <<body.type>> \in Seq(Byte) /\ 0 \in Nat /\ 4 \in Nat /\ 6 \in Nat
  BY <1>2
<1>4. a \in Seq(Byte)
  BY <1>3, IcmpPut
<1> HIDE DEF a
<1>5. b \in Seq(Byte)
  BY <1>2, <1>3, <1>4, IcmpPut
<1> HIDE DEF b
<1> QED BY <1>1, <1>2, <1>3, <1>5, IcmpPut

LEMMA ByteParts ==
  ASSUME NEW a \in Nat, a <= 15, NEW b \in Nat, b <= 15, NEW c \in Nat, c <= 3,
         NEW d \in Nat, d <= 63
  PROVE  a + 16 * b \in Byte /\ 64 * c + d \in Byte
<1>1. a + 16 * b \in Nat /\ a + 16 * b <= 255
  OBVIOUS
<1>2. 64 * c + d \in Nat /\ 64 * c + d <= 255
  OBVIOUS
<1> QED BY <1>1, <1>2 DEF Byte

LEMMA ByteOf ==
  ASSUME NEW h \in Seq(Byte), Len(h) >= 20, NEW n \in Int
  PROVE  /\ (h[13] % 16) + 16 * (n % 16) \in Byte
         /\ 64 * (h[14] \div 64) + (n % 64) \in Byte
<1>1. h[13] \in Byte /\ h[14] \in Byte
  OBVIOUS
<1>2. h[13] \in Nat /\ h[14] \in Nat /\ h[14] <= 255
  BY <1>1, ByteIs
<1> DEFINE a == h[13] % 16
           b == n % 16
           c == h[14] \div 64
           d == n % 64
<1>3. a \in Nat /\ a <= 15
  BY <1>2
<1>4. b \in Nat /\ b <= 15
  OBVIOUS
<1>5. c \in Nat /\ c <= 3
  BY <1>2
<1>6. d \in Nat /\ d <= 63
  OBVIOUS
<1> HIDE DEF a, b, c, d
<1>7. a + 16 * b \in Byte /\ 64 * c + d \in Byte
  BY <1>3, <1>4, <1>5, <1>6, ByteParts
<1> QED BY <1>7 DEF a, b, c, d

LEMMA PortsAre == \A n \in Word16 : n \in Int
<1>1. \A k \in Nat : \A n \in 0 .. k : n \in Int
  OBVIOUS
<1>2. PICK k \in Nat : k = 65535
  OBVIOUS
<1>3. Word16 = 0 .. k
  BY <1>2 DEF Word16
<1> QED BY <1>1, <1>3

LEMMA SegmentIs ==
  ASSUME NEW body, IsSegment(body), NEW p, Readable(p)
  PROVE  Segment(body, p) \in Seq(Byte)
<1> DEFINE hlen == (TCP!TCP_HEADER_BASE_LENGTH + Len(body.options)) \div 4
           a == TCP!Put(<<>>, TCP!htons(body.srcport), 0, p)
           b == TCP!Put(a, TCP!htons(body.destport), 2, p)
           c == SetData(b, body.options, 20)
           u == (c[13] % 16) + 16 * (hlen % 16)
           d == TCP!Put(c, <<u>>, 12, p)
           e == TCP!Put(d, body.seq, 4, p)
           f == TCP!Put(e, body.ack, 8, p)
           v == 64 * (f[14] \div 64) + (body.flags % 64)
           g == TCP!Put(f, <<v>>, 13, p)
           r == TCP!Put(g, TCP!htons(body.win), 14, p)
<1>1. Segment(body, p) = r
  <2>1. TCP!SetOptions(b, body.options) = c
    BY TcpBuffer DEF TCP!SetOptions, TCP!TCP_HEADER_BASE_LENGTH
  <2> QED BY <2>1 DEF Segment, TCP!SetSourcePort, TCP!SetDestPort, TCP!SetHeaderLen,
                      TCP!SetSeqNum, TCP!SetAckNum, TCP!SetFlags, TCP!SetWinSize
<1>2. body.srcport \in Word16 /\ body.destport \in Word16 /\ body.win \in Word16
  BY DEF IsSegment
<1>3. /\ body.seq \in Seq(Byte) /\ body.ack \in Seq(Byte)
      /\ body.options \in Seq(Byte) /\ body.flags \in Int
  <2>1. body.seq \in Bytes(4) /\ body.ack \in Bytes(4) /\ body.options \in Options
    BY DEF IsSegment
  <2>2. body.flags \in Int
    BY DEF IsSegment
  <2> QED BY <2>1, <2>2 DEF Bytes, Options
<1>4. \A n \in Word16 : n \in Int
  BY PortsAre
<1>5. TCP!htons(body.srcport) \in Seq(Byte) /\ TCP!htons(body.destport) \in Seq(Byte)
      /\ TCP!htons(body.win) \in Seq(Byte)
  BY <1>2, <1>4, TcpBuffer, HtonsIs, ZenonT(60)
<1>6. /\ <<>> \in Seq(Byte) /\ 0 \in Nat /\ 2 \in Nat /\ 20 \in Nat /\ 12 \in Nat /\ 4 \in Nat
      /\ 8 \in Nat /\ 13 \in Nat /\ 14 \in Nat
  OBVIOUS
<1>7. hlen \in Int
  BY <1>3 DEF TCP!TCP_HEADER_BASE_LENGTH
<1> HIDE DEF hlen
<1>8. a \in Seq(Byte)
  BY <1>5, <1>6, TcpPut
<1> HIDE DEF a
<1>9. b \in Seq(Byte) /\ Len(b) >= 20
  BY <1>5, <1>6, <1>8, TcpPut
<1> HIDE DEF b
<1>10. c \in Seq(Byte) /\ Len(c) >= Len(b)
  BY <1>3, <1>6, <1>9, SetDataBytes
<1> HIDE DEF c
<1>11. Len(c) >= 20
  BY <1>9, <1>10
<1>12. u \in Byte
  BY <1>7, <1>10, <1>11, ByteOf
<1> HIDE DEF u
<1>13. <<u>> \in Seq(Byte)
  BY <1>12
<1>14. d \in Seq(Byte)
  BY <1>6, <1>10, <1>13, TcpPut
<1> HIDE DEF d
<1>15. e \in Seq(Byte)
  BY <1>3, <1>6, <1>14, TcpPut
<1> HIDE DEF e
<1>16. f \in Seq(Byte) /\ Len(f) >= 20
  BY <1>3, <1>6, <1>15, TcpPut
<1> HIDE DEF f
<1>17. v \in Byte
  BY <1>3, <1>16, ByteOf
<1> HIDE DEF v
<1>18. <<v>> \in Seq(Byte)
  BY <1>17
<1>19. g \in Seq(Byte)
  BY <1>6, <1>16, <1>18, TcpPut
<1> HIDE DEF g
<1>20. r \in Seq(Byte)
  BY <1>5, <1>6, <1>19, TcpPut
<1> QED BY <1>1, <1>20

-----------------------------------------------------------------------------
\* A packet with this header of IP, and behind it none or one of a protocol.
Protocols == {"UDPHeader", "TCPHeader", "ICMPHeader"}

Bears(p, h) ==
  \/ \E b \in Seq(Byte) : p = One("IPHeader", h, b)
  \/ \E t \in Protocols, x, b \in Seq(Byte) : p = Two("IPHeader", h, t, x, b)

\* A packet that says what its sender meant.
Carries(p, o) == \E h : IsIp(h) /\ Fields(h) = Given(o) /\ Bears(p, h)

LEMMA ReadableOne ==
  ASSUME NEW h, Long(h), NEW b \in Seq(Byte)
  PROVE  Readable(One("IPHeader", h, b)) /\ One("IPHeader", h, b).payload = b
<1>1. FindHeader(One("IPHeader", h, b), "IPHeader") = h
  BY FindInOne
<1>2. One("IPHeader", h, b).payload = b
  BY DEF One
<1> QED BY <1>1, <1>2 DEF Readable

LEMMA PeerWith ==
  ASSUME NEW o, IsPeerPacket(o), NEW len \in Nat
  PROVE  LET p == PushFrontHeader(NewPacket(o.body.data), "IPHeader", PeerHeader(o, len))
         IN  /\ p = One("IPHeader", PeerHeader(o, len), o.body.data)
             /\ Readable(p) /\ p.payload \in Seq(Byte)
<1> DEFINE h == PeerHeader(o, len)
           b == o.body.data
           p == PushFrontHeader(NewPacket(b), "IPHeader", h)
<1>1. IsIp(h)
  BY PeerIp
<1>2. b \in Seq(Byte)
  BY DEF IsPeerPacket
<1> HIDE DEF h
<1>3. p = One("IPHeader", h, b)
  BY Pushes
<1>4. Long(h)
  BY <1>1 DEF IsIp
<1> HIDE DEF p
<1>5. Readable(One("IPHeader", h, b)) /\ One("IPHeader", h, b).payload = b
  BY <1>2, <1>4, ReadableOne
<1> QED BY <1>2, <1>3, <1>5 DEF p, h

LEMMA PeerPacketIs ==
  ASSUME NEW o, IsPeerPacket(o)
  PROVE  Carries(PeerPacket(o), o)
<1> DEFINE body == o.body
           data == body.data
           with(len) == PushFrontHeader(NewPacket(o.body.data), "IPHeader", PeerHeader(o, len))
           t == TCP!TCP_HEADER_BASE_LENGTH + Len(body.options) + Len(data)
           i == ICMP!ICMP_HEADER_LENGTH + Len(data)
           n == Len(data)
<1>1. data \in Seq(Byte) /\ n \in Nat
  BY DEF IsPeerPacket
<1>2. i \in Nat
  BY <1>1 DEF ICMP!ICMP_HEADER_LENGTH
<1>3. CASE o.proto = 6
  <2>1. IsSegment(body)
    BY <1>3 DEF IsPeerPacket, IP!IP_PROTO_TCP
  <2>2. t \in Nat
    <3>1. body.options \in Seq(Byte)
      BY <2>1 DEF IsSegment, Options
    <3>2. Len(body.options) \in Nat
      BY <3>1
    <3>3. t = 20 + Len(body.options) + n
      BY DEF TCP!TCP_HEADER_BASE_LENGTH
    <3> HIDE DEF t, n
    <3> QED BY <1>1, <3>2, <3>3
  <2> DEFINE p == with(t)
             x == Segment(body, p)
  <2>3. PeerPacket(o) = PushBackHeader(p, "TCPHeader", x)
    BY <1>3 DEF PeerPacket, IP!IP_PROTO_TCP, IP!IP_PROTO_ICMP
  <2> HIDE DEF t
  <2>4. p = One("IPHeader", PeerHeader(o, t), data) /\ Readable(p)
    BY <2>2, PeerWith
  <2> HIDE DEF p
  <2>5. x \in Seq(Byte)
    BY <2>1, <2>4, SegmentIs
  <2> HIDE DEF x
  <2>6. PeerPacket(o) = Two("IPHeader", PeerHeader(o, t), "TCPHeader", x, data)
    BY <2>3, <2>4, Pushes
  <2>7. IsIp(PeerHeader(o, t)) /\ Fields(PeerHeader(o, t)) = Given(o)
    BY <2>2, PeerIp
  <2> QED BY <1>1, <2>5, <2>6, <2>7 DEF Carries, Bears, Protocols
<1>4. CASE o.proto = 1
  <2>1. IsMessage(body)
    BY <1>4 DEF IsPeerPacket, IP!IP_PROTO_ICMP
  <2> DEFINE p == with(i)
             x == Message(body, p)
  <2>2. PeerPacket(o) = PushBackHeader(p, "ICMPHeader", x)
    BY <1>4 DEF PeerPacket, IP!IP_PROTO_TCP, IP!IP_PROTO_ICMP
  <2> HIDE DEF i
  <2>3. p = One("IPHeader", PeerHeader(o, i), data) /\ p.payload \in Seq(Byte)
    BY <1>2, PeerWith
  <2> HIDE DEF p
  <2>4. x \in Seq(Byte)
    BY <2>1, <2>3, MessageIs
  <2> HIDE DEF x
  <2>5. PeerPacket(o) = Two("IPHeader", PeerHeader(o, i), "ICMPHeader", x, data)
    BY <2>2, <2>3, Pushes
  <2>6. IsIp(PeerHeader(o, i)) /\ Fields(PeerHeader(o, i)) = Given(o)
    BY <1>2, PeerIp
  <2> QED BY <1>1, <2>4, <2>5, <2>6 DEF Carries, Bears, Protocols
<1>5. CASE o.proto # 6 /\ o.proto # 1
  <2>1. PeerPacket(o) = with(n)
    BY <1>5 DEF PeerPacket, IP!IP_PROTO_TCP, IP!IP_PROTO_ICMP
  <2> HIDE DEF n
  <2>2. with(n) = One("IPHeader", PeerHeader(o, n), data)
    BY <1>1, PeerWith
  <2>3. IsIp(PeerHeader(o, n)) /\ Fields(PeerHeader(o, n)) = Given(o)
    BY <1>1, PeerIp
  <2> QED BY <1>1, <2>1, <2>2, <2>3 DEF Carries, Bears
<1> QED BY <1>3, <1>4, <1>5

\* udp_module's datagram too.
LEMMA DatagramCarries ==
  ASSUME NEW g, Fresh(g), NEW o, o.src \in Bytes(4), o.dst \in Bytes(4),
         o.ttl = 64, o.flags = 2, o.fragoff = 0, o.options = <<>>, o.proto = 17,
         o.body.srcport \in Int, o.body.destport \in Int, o.body.data \in Seq(Byte)
  PROVE  Carries(Datagram(g, o), o)
<1>1. PICK n \in Nat : n = 28 + Len(o.body.data)
  OBVIOUS
<1> DEFINE h == DatagramHeader(g, o.src, o.dst, n)
<1>2. IsIp(h)
  BY DatagramIp
<1>3. Fields(h) = [src |-> o.src, dst |-> o.dst, ttl |-> 64, flags |-> 2, fragoff |-> 0,
                   options |-> <<>>, proto |-> 17]
  BY DatagramIp
<1>4. PICK x \in Seq(Byte) : Datagram(g, o) = Two("IPHeader", h, "UDPHeader", x, o.body.data)
  BY <1>1, DatagramIs
<1> HIDE DEF h
<1>5. Fields(h) = Given(o)
  BY <1>3, GivenIs
<1>6. Bears(Datagram(g, o), h)
  BY <1>4 DEF Bears, Protocols
<1> QED BY <1>2, <1>5, <1>6 DEF Carries

\* What goes into a FIFO comes out of it.
LEMMA BearsBack ==
  ASSUME NEW p, NEW h, Long(h), Bears(p, h)
  PROVE  Unserialize(Serialize(p)) = p
<1>1. h \in Seq(Byte)
  BY DEF Long
<1>2. "IPHeader" \in Tags /\ Protocols \subseteq Tags
  BY DEF Tags, Protocols
<1>3. CASE \E b \in Seq(Byte) : p = One("IPHeader", h, b)
  BY <1>1, <1>2, <1>3, BackOne
<1>4. CASE \E t \in Protocols, x, b \in Seq(Byte) : p = Two("IPHeader", h, t, x, b)
  BY <1>1, <1>2, <1>4, BackTwo
<1> QED BY <1>3, <1>4 DEF Bears

LEMMA CarriesBack ==
  ASSUME NEW p, NEW o, Carries(p, o)
  PROVE  Carries(Unserialize(Serialize(p)), o)
<1>1. PICK h : IsIp(h) /\ Fields(h) = Given(o) /\ Bears(p, h)
  BY DEF Carries
<1>2. Long(h)
  BY <1>1 DEF IsIp
<1>3. Unserialize(Serialize(p)) = p
  BY <1>1, <1>2, BearsBack
<1> QED BY <1>3

LEMMA BearsHeader ==
  ASSUME NEW p, NEW h, Bears(p, h)
  PROVE  FindHeader(p, "IPHeader") = h
<1>1. ASSUME NEW b \in Seq(Byte), p = One("IPHeader", h, b)
      PROVE  FindHeader(p, "IPHeader") = h
  BY <1>1, FindInOne
<1>2. ASSUME NEW t \in Protocols, NEW x \in Seq(Byte), NEW b \in Seq(Byte),
             p = Two("IPHeader", h, t, x, b)
      PROVE  FindHeader(p, "IPHeader") = h
  <2>1. t # "IPHeader"
    BY DEF Protocols
  <2> QED BY <1>2, <2>1, FindInTwo
<1> QED BY <1>1, <1>2 DEF Bears

-----------------------------------------------------------------------------
(***************************************************************************)
(* Across the link.                                                        *)
(***************************************************************************)
\* The frame f has h where the IP packet begins.
Frames(f, h) == f \in Seq(Byte) /\ Len(f) >= 14 + Len(h) /\ StandsIn(f, 14, h)

LEMMA FramesLonger ==
  ASSUME NEW f, NEW h \in Seq(Byte), Frames(f, h), NEW more \in Seq(Byte)
  PROVE  Frames(Joined(f, more), h)
<1>1. f \in Seq(Byte) /\ Len(f) \in Nat /\ Len(h) \in Nat /\ Len(f) >= 14 + Len(h)
      /\ StandsIn(f, 14, h)
  BY DEF Frames
<1> DEFINE g == f \o more
<1>2. g \in Seq(Byte) /\ Len(g) >= 14 + Len(h)
  BY <1>1
<1>3. \A i \in 1 .. Len(f) : g[i] = f[i]
  BY <1>1
<1> HIDE DEF g
<1>4. \A i \in 1 .. Len(h) : g[14 + i] = h[i]
  BY <1>1, <1>3 DEF StandsIn
<1> QED BY <1>2, <1>4 DEF Frames, StandsIn, g, Joined

LEMMA Behind ==
  ASSUME NEW e \in Seq(Byte), NEW h \in Seq(Byte), NEW n \in Nat, n = Len(e)
  PROVE  /\ Joined(e, h) \in Seq(Byte) /\ Len(Joined(e, h)) = n + Len(h)
         /\ StandsIn(Joined(e, h), n, h)
  BY DEF Joined, StandsIn

LEMMA FramesShortest ==
  ASSUME NEW e \in Seq(Byte), Len(e) = 14, NEW h \in Seq(Byte)
  PROVE  Frames(Joined(e, h), h)
<1> DEFINE g == Joined(e, h)
<1>1. PICK n \in Nat : n = 14
  OBVIOUS
<1>2. g \in Seq(Byte) /\ Len(g) = n + Len(h) /\ StandsIn(g, n, h)
  BY <1>1, Behind
<1> HIDE DEF g
<1>3. Len(h) \in Nat
  OBVIOUS
<1>4. g \in Seq(Byte) /\ Len(g) = 14 + Len(h) /\ StandsIn(g, 14, h)
  BY <1>1, <1>2
<1> QED BY <1>3, <1>4 DEF Frames, g

LEMMA PushThird ==
  ASSUME NEW t, NEW d, NEW u, NEW e, NEW v, NEW f, NEW b
  PROVE  PushFrontHeader(Two(u, e, v, f, b), t, d)
           = [headers |-> <<Header(t, d), Header(u, e), Header(v, f)>>, payload |-> b]
<1> DEFINE x == Header(t, d)
           y == Header(u, e)
           z == Header(v, f)
           s == <<x>> \o <<y, z>>
<1>1. PushFrontHeader(Two(u, e, v, f, b), t, d) = [headers |-> s, payload |-> b]
  BY DEF PushFrontHeader, Two
<1> HIDE DEF x, y, z
<1>2. /\ <<x>> \in Seq({x, y, z}) /\ Len(<<x>>) = 1 /\ <<x>>[1] = x
      /\ <<y, z>> \in Seq({x, y, z}) /\ Len(<<y, z>>) = 2
      /\ <<y, z>>[1] = y /\ <<y, z>>[2] = z
  OBVIOUS
<1>3. s \in Seq({x, y, z}) /\ Len(s) = 3 /\ s[1] = x /\ s[2] = y /\ s[3] = z
  BY <1>2
<1> HIDE DEF s
<1>4. /\ <<x, y, z>> \in Seq({x, y, z}) /\ Len(<<x, y, z>>) = 3
      /\ <<x, y, z>>[1] = x /\ <<x, y, z>>[2] = y /\ <<x, y, z>>[3] = z
  OBVIOUS
<1>5. \A i \in 1 .. 3 : s[i] = <<x, y, z>>[i]
  BY <1>3, <1>4
<1>6. s = <<x, y, z>>
  BY <1>3, <1>4, <1>5
<1> QED BY <1>1, <1>6 DEF x, y, z

LEMMA DupeTwo ==
  ASSUME NEW t, NEW d \in Seq(Byte), NEW u, NEW e \in Seq(Byte), NEW b
  PROVE  DupeRaw(Two(t, d, u, e, b)) = Joined(Joined(d, e), b)
<1> DEFINE p == Two(t, d, u, e, b)
           s == [i \in DOMAIN p.headers |-> p.headers[i].data]
<1>1. p.payload = b /\ p.headers = <<Header(t, d), Header(u, e)>>
  BY DEF Two
<1>2. Header(t, d).data = d /\ Header(u, e).data = e
  BY DEF Header
<1>3. s = <<d, e>>
  BY <1>1, <1>2
<1>4. FlattenSeq(<<d, e>>) = d \o e
  BY FlattenTwo
<1> QED BY <1>1, <1>3, <1>4 DEF DupeRaw, Joined

LEMMA DupeThree ==
  ASSUME NEW t, NEW d \in Seq(Byte), NEW u, NEW e \in Seq(Byte), NEW v, NEW f \in Seq(Byte), NEW b
  PROVE  DupeRaw([headers |-> <<Header(t, d), Header(u, e), Header(v, f)>>, payload |-> b])
           = Joined(Joined(Joined(d, e), f), b)
<1> DEFINE p == [headers |-> <<Header(t, d), Header(u, e), Header(v, f)>>, payload |-> b]
           s == [i \in DOMAIN p.headers |-> p.headers[i].data]
<1>1. p.payload = b /\ p.headers = <<Header(t, d), Header(u, e), Header(v, f)>>
  OBVIOUS
<1>2. Header(t, d).data = d /\ Header(u, e).data = e /\ Header(v, f).data = f
  BY DEF Header
<1>3. s = <<d, e, f>>
  BY <1>1, <1>2
<1>4. FlattenSeq(<<d, e, f>>) = Joined(Joined(d, e), f)
  BY FlattenThree
<1> QED BY <1>1, <1>3, <1>4 DEF DupeRaw, Joined

\* The driver's frame has the header of IP behind the one of Ethernet.
LEMMA RawFrames ==
  ASSUME NEW p, NEW h \in Seq(Byte), Bears(p, h), NEW e \in Seq(Byte), Len(e) = 14
  PROVE  Frames(DupeRaw(PushFrontHeader(p, "EthernetHeader", e)), h)
<1> DEFINE eh == Joined(e, h)
<1>2. Frames(eh, h)
  BY FramesShortest
<1>3. ASSUME NEW b \in Seq(Byte), p = One("IPHeader", h, b)
      PROVE  Frames(DupeRaw(PushFrontHeader(p, "EthernetHeader", e)), h)
  <2>1. PushFrontHeader(p, "EthernetHeader", e) = Two("EthernetHeader", e, "IPHeader", h, b)
    BY <1>3, Pushes
  <2>2. DupeRaw(Two("EthernetHeader", e, "IPHeader", h, b)) = Joined(eh, b)
    BY DupeTwo
  <2>3. Frames(Joined(eh, b), h)
    BY <1>2, FramesLonger
  <2> QED BY <2>1, <2>2, <2>3
<1>4. ASSUME NEW t \in Protocols, NEW x \in Seq(Byte), NEW b \in Seq(Byte),
             p = Two("IPHeader", h, t, x, b)
      PROVE  Frames(DupeRaw(PushFrontHeader(p, "EthernetHeader", e)), h)
  <2> DEFINE q == [headers |-> <<Header("EthernetHeader", e), Header("IPHeader", h), Header(t, x)>>,
                   payload |-> b]
  <2>1. PushFrontHeader(p, "EthernetHeader", e) = q
    BY <1>4, PushThird
  <2> DEFINE ehx == Joined(eh, x)
  <2>3. DupeRaw(q) = Joined(ehx, b)
    BY DupeThree
  <2> HIDE DEF q
  <2>4. Frames(ehx, h)
    BY <1>2, FramesLonger
  <2>5. Frames(Joined(ehx, b), h)
    BY <2>4, FramesLonger
  <2> QED BY <2>1, <2>3, <2>5
<1> QED BY <1>3, <1>4 DEF Bears

LEMMA EthernetHeaderIs ==
  ASSUME NEW src \in Bytes(6), NEW dst \in Bytes(6)
  PROVE  EthernetHeader(src, dst) \in Seq(Byte) /\ Len(EthernetHeader(src, dst)) = 14
<1> DEFINE a == SetData(<<>>, src, 6)
           b == SetData(a, dst, 0)
           c == SetData(b, htons(2048), 12)
<1>1. EthernetHeader(src, dst) = c
  BY DEF EthernetHeader, EthernetAddrLength
<1>2. src \in Seq(Byte) /\ Len(src) = 6 /\ dst \in Seq(Byte) /\ Len(dst) = 6
  BY DEF Bytes
<1>3. a \in Seq(Byte) /\ Len(a) = 12
  <2>1. <<>> \in Seq(Byte) /\ Len(<<>>) = 0 /\ 6 \in Nat OBVIOUS
  <2>2. Laid(a, <<>>, src, 6) BY <1>2, <2>1, SetDataLaid
  <2> HIDE DEF a
  <2> QED BY <1>2, <2>1, <2>2 DEF Laid
<1> HIDE DEF a
<1>4. b \in Seq(Byte) /\ Len(b) = 12
  <2>1. 0 \in Nat OBVIOUS
  <2>2. Laid(b, a, dst, 0) BY <1>2, <1>3, <2>1, SetDataLaid
  <2> HIDE DEF b
  <2> QED BY <1>2, <1>3, <2>2 DEF Laid
<1> HIDE DEF b
<1>5. c \in Seq(Byte) /\ Len(c) = 14
  <2>1. PICK n \in Nat : n = 2048 OBVIOUS
  <2>2. htons(n) \in Seq(Byte) /\ Len(htons(n)) = 2
    <3>1. n \in Int OBVIOUS
    <3> QED BY <3>1, HtonsIs
  <2> DEFINE w == htons(n)
  <2>3. c = SetData(b, w, 12) BY <2>1
  <2> HIDE DEF c, w
  <2>4. 12 \in Nat OBVIOUS
  <2>5. w \in Seq(Byte) /\ Len(w) = 2 BY <2>2 DEF w
  <2>6. Laid(c, b, w, 12) BY <1>4, <2>3, <2>4, <2>5, SetDataLaid
  <2> QED BY <1>4, <2>5, <2>6 DEF Laid
<1> QED BY <1>1, <1>5

LEMMA PaddedFrames ==
  ASSUME NEW f, NEW h \in Seq(Byte), Frames(f, h)
  PROVE  Frames(Padded(f), h)
<1>1. f \in Seq(Byte) /\ Len(f) \in Nat
  BY DEF Frames
<1>2. CASE Len(f) < MinFrame
  <2> DEFINE n == MinFrame - Len(f)
  <2>1. MinFrame \in Int
    BY PathAssumption DEF PathAssumption
  <2>2. n \in Nat
    BY <1>1, <1>2, <2>1
  <2>3. Padded(f) = Joined(f, Zeros(n))
    BY <1>2 DEF Padded, Joined
  <2> HIDE DEF n
  <2>4. Zeros(n) \in Seq(Byte)
    <3>1. 0 \in Byte BY DEF Byte
    <3> QED BY <2>2, <3>1 DEF Zeros
  <2> QED BY <2>3, <2>4, FramesLonger
<1>3. CASE ~ (Len(f) < MinFrame)
  BY <1>3 DEF Padded
<1> QED BY <1>2, <1>3

LEMMA WireBack ==
  ASSUME NEW f \in Seq(Byte)
  PROVE  NewPacket(UnserializeBuffer(SerializeBuffer(f)).value) = None(f)
<1> DEFINE r == <<>>
<1>1. r \in Seq(Symbol)
  OBVIOUS
<1>2. UnserializeBuffer(SerializeBuffer(f) \o r) = Got(f, r) /\ SerializeBuffer(f) \in Seq(Symbol)
  BY <1>1, BufferBack
<1>3. SerializeBuffer(f) \o r = SerializeBuffer(f)
  BY <1>2
<1>4. UnserializeBuffer(SerializeBuffer(f)).value = f
  BY <1>2, <1>3 DEF Got
<1> QED BY <1>4, Pushes

-----------------------------------------------------------------------------
(***************************************************************************)
(* What the link damages, and what ip_module makes of it.                  *)
(***************************************************************************)
\* Of the bytes of h, all but j stand in f behind n.
AllBut(j, f, n, h) == \A i \in 1 .. Len(h) : i # j => f[n + i] = h[i]

Nearly(f, h) == \E j \in 2 .. Len(h) : AllBut(j, f, 14, h)

LEMMA FramesNearly ==
  ASSUME NEW f, NEW h, Long(h), Frames(f, h)
  PROVE  Nearly(f, h)
<1>1. Len(h) \in Nat /\ Len(h) >= 20
  BY DEF Long
<1>2. 2 \in 2 .. Len(h)
  BY <1>1
<1>3. AllBut(2, f, 14, h)
  BY DEF Frames, StandsIn, AllBut
<1> QED BY <1>2, <1>3 DEF Nearly

LEMMA DamagedNearly ==
  ASSUME NEW f, NEW h, Long(h), Frames(f, h), NEW i \in 1 .. Len(f), i # 15, NEW x \in Byte
  PROVE  /\ [f EXCEPT ![i] = x] \in Seq(Byte) /\ Len([f EXCEPT ![i] = x]) = Len(f)
         /\ Nearly([f EXCEPT ![i] = x], h)
<1> DEFINE g == [f EXCEPT ![i] = x]
           j == IF i - 14 \in 2 .. Len(h) THEN i - 14 ELSE 2
<1>1. f \in Seq(Byte) /\ Len(f) \in Nat /\ Len(f) >= 14 + Len(h) /\ StandsIn(f, 14, h)
  BY DEF Frames
<1>2. Len(h) \in Nat /\ Len(h) >= 20
  BY DEF Long
<1>3. g \in Seq(Byte) /\ Len(g) = Len(f) /\ \A k \in 1 .. Len(f) : k # i => g[k] = f[k]
  BY <1>1
<1> HIDE DEF g
<1>4. i \in Int
  BY <1>1
<1>5. j \in 2 .. Len(h) /\ \A k \in 1 .. Len(h) : k # j => 14 + k # i
  BY <1>2, <1>4
<1> HIDE DEF j
<1>6. \A k \in 1 .. Len(h) : 14 + k \in 1 .. Len(f)
  BY <1>1, <1>2
<1>7. \A k \in 1 .. Len(h) : k # j => g[14 + k] = h[k]
  BY <1>1, <1>3, <1>5, <1>6 DEF StandsIn
<1> QED BY <1>3, <1>5, <1>7 DEF Nearly, AllBut, g

LEMMA VerifiesSame ==
  ASSUME NEW a \in Seq(Byte), NEW b \in Seq(Byte), Verifies(a), Verifies(b)
  PROVE  OnesComplementSum(a) = OnesComplementSum(b)
<1>1. \A x, y \in Nat : Complement(x) = 0 /\ Complement(y) = 0 => x = y
  BY SMT DEF Complement
<1>2. OnesComplementSum(a) \in Nat /\ OnesComplementSum(b) \in Nat
  BY SumIsWord
<1> QED BY <1>1, <1>2 DEF Verifies

\* What ip_module takes for the header.
HeaderOf(f) ==
  LET rest == AfterFront(f, 14) IN ExtractFront(rest, IP!EstimateIPHeaderLength(rest))

LEMMA CutIs ==
  ASSUME NEW b \in Seq(Byte), NEW n \in Nat, n <= Len(b)
  PROVE  /\ ExtractFront(b, n) \in Seq(Byte) /\ Len(ExtractFront(b, n)) = n
         /\ \A i \in 1 .. n : ExtractFront(b, n)[i] = b[i]
         /\ AfterFront(b, n) \in Seq(Byte) /\ Len(AfterFront(b, n)) = Len(b) - n
         /\ \A i \in 1 .. Len(b) - n : AfterFront(b, n)[i] = b[n + i]
<1>0. Len(b) \in Nat
  OBVIOUS
<1>1. Smaller(n, Len(b)) = n
  BY DEF Smaller
<1>2. ExtractFront(b, n) = SubSeq(b, 1, n)
  BY <1>1 DEF ExtractFront
<1>3. /\ SubSeq(b, 1, n) \in Seq(Byte) /\ Len(SubSeq(b, 1, n)) = n
      /\ \A i \in 1 .. n : SubSeq(b, 1, n)[i] = b[i]
  BY <1>0
<1>4. AfterFront(b, n) = SubSeq(b, n + 1, Len(b))
  BY DEF AfterFront
<1>5. /\ SubSeq(b, n + 1, Len(b)) \in Seq(Byte) /\ Len(SubSeq(b, n + 1, Len(b))) = Len(b) - n
      /\ \A i \in 1 .. Len(b) - n : SubSeq(b, n + 1, Len(b))[i] = b[n + i]
  BY <1>0
<1> QED BY <1>2, <1>3, <1>4, <1>5

LEMMA HeaderOfNearly ==
  ASSUME NEW f \in Seq(Byte), NEW h, IsIp(h), Len(f) >= 14 + Len(h), Nearly(f, h)
  PROVE  /\ HeaderOf(f) \in Seq(Byte)
         /\ IP!IsChecksumCorrect(HeaderOf(f)) => HeaderOf(f) = h
<1> DEFINE rest == AfterFront(f, 14)
           g == ExtractFront(rest, IP!EstimateIPHeaderLength(rest))
           m == Len(h)
<1>1. h \in Seq(Byte) /\ m \in Nat /\ m >= 20 /\ m <= 60
  BY DEF IsIp, Long
<1>2. PICK j \in 2 .. m : AllBut(j, f, 14, h)
  BY DEF Nearly
<1>3. rest \in Seq(Byte) /\ Len(rest) = Len(f) - 14 /\ \A i \in 1 .. Len(f) - 14 : rest[i] = f[14 + i]
  <2>1. PICK n \in Nat : n = 14 OBVIOUS
  <2>2. Len(f) \in Nat /\ n <= Len(f) BY <1>1, <2>1
  <2>3. /\ AfterFront(f, n) \in Seq(Byte) /\ Len(AfterFront(f, n)) = Len(f) - n
        /\ \A i \in 1 .. Len(f) - n : AfterFront(f, n)[i] = f[n + i]
    BY <2>2, CutIs
  <2> QED BY <2>1, <2>3
<1> HIDE DEF rest
<1>4. \A i \in 1 .. m : i # j => rest[i] = h[i]
  <2>1. Len(f) \in Nat OBVIOUS
  <2>2. \A i \in 1 .. m : i \in 1 .. Len(f) - 14 BY <1>1, <2>1
  <2> QED BY <1>2, <1>3, <2>2 DEF AllBut
<1>5. IP!EstimateIPHeaderLength(rest) = m
  <2>1. rest[1] = h[1] BY <1>1, <1>2, <1>4
  <2>2. h[1] % 16 = m \div 4 /\ m % 4 = 0 BY DEF IsIp, Whole
  <2>3. 4 * (m \div 4) = m BY <1>1, <2>2
  <2> QED BY <2>1, <2>2, <2>3 DEF IP!EstimateIPHeaderLength, IP!GetHeaderLength
<1>6. g = ExtractFront(rest, m)
  BY <1>5
<1>7. g \in Seq(Byte) /\ Len(g) = m /\ \A i \in 1 .. m : g[i] = rest[i]
  <2>1. m <= Len(rest)
    <3>1. Len(f) \in Nat OBVIOUS
    <3> QED BY <1>1, <1>3, <3>1
  <2>2. rest \in Seq(Byte) /\ m \in Nat
    BY <1>1, <1>3
  <2>3. /\ ExtractFront(rest, m) \in Seq(Byte) /\ Len(ExtractFront(rest, m)) = m
        /\ \A i \in 1 .. m : ExtractFront(rest, m)[i] = rest[i]
    BY <2>1, <2>2, CutIs
  <2> QED BY <1>6, <2>3
<1>8. HeaderOf(f) = g
  BY DEF HeaderOf, rest
<1> HIDE DEF g
<1>9. \A i \in 1 .. m : i # j => g[i] = h[i]
  BY <1>4, <1>7
<1>10. ASSUME IP!IsChecksumCorrect(g)
       PROVE  g = h
  <2>1. 4 * IP!GetHeaderLength(g) = Len(g)
    <3>1. g[1] = h[1] BY <1>1, <1>2, <1>9
    <3>2. h[1] % 16 = m \div 4 /\ m % 4 = 0 BY DEF IsIp, Whole
    <3>3. 4 * (m \div 4) = m BY <1>1, <3>2
    <3> QED BY <1>7, <3>1, <3>2, <3>3 DEF IP!GetHeaderLength
  <2>2. GetData(g, Len(g), 0) = g
    BY <1>7, GetAll
  <2>3. Complement(OnesComplementSum(g)) = 0
    BY <1>10, <2>1, <2>2, IpBuffer DEF IP!IsChecksumCorrect, IP!ComputeChecksum
  <2>4. Verifies(g) /\ Verifies(h)
    BY <2>3 DEF Verifies, IsIp
  <2>5. OnesComplementSum(g) = OnesComplementSum(h)
    BY <1>1, <1>7, <2>4, VerifiesSame
  <2>6. Short(g)
    BY <1>1, <1>7 DEF Short
  <2>7. g[j] = h[j]
    <3>1. j \in 1 .. Len(g) BY <1>1, <1>2, <1>7
    <3>2. \A i \in 1 .. Len(g) : i # j => g[i] = h[i] BY <1>7, <1>9
    <3> SUFFICES ASSUME g[j] # h[j] PROVE FALSE
      OBVIOUS
    <3>3. OnesComplementSum(g) # OnesComplementSum(h)
      BY <1>1, <1>7, <2>6, <3>1, <3>2, DamageShows
    <3> QED BY <2>5, <3>3
  <2>8. \A i \in 1 .. m : g[i] = h[i]
    BY <1>9, <2>7
  <2> QED BY <1>1, <1>7, <2>8, Same
<1> QED BY <1>7, <1>8, <1>10

-----------------------------------------------------------------------------
(***************************************************************************)
(* The invariant: what a packet of the sender's is on every stretch of its *)
(* way.                                                                    *)
(***************************************************************************)
\* On the link, after n damages.
Crosses(f, h, n) ==
  /\ f \in Seq(Byte) /\ Len(f) >= 14 + Len(h)
  /\ n = 0 => StandsIn(f, 14, h)
  /\ n <= 1 => Nearly(f, h)

OnTheWire(b, p, o, n) ==
  \E h, f : /\ IsIp(h) /\ Fields(h) = Given(o) /\ b = o.dst
            /\ p = None(f) /\ Crosses(f, h, n)

PassedUp(b, p, o) ==
  /\ Fields(FindHeader(p, "IPHeader")) = Given(o)
  /\ o.dst = b /\ o.ttl # 0 /\ o.flags % 2 = 0 /\ o.fragoff = 0

Way(a, b, p, m, o, n) ==
  /\ n \in Nat /\ n <= MaxNoise
  /\ a = "idle" => n = 0
  /\ a = "ip_module" /\ m = "sender" => n = 0 /\ b \in Hosts /\ Carries(p, o)
  /\ a = "wire" /\ m = "sender" => OnTheWire(b, p, o, n)
  /\ a = "ip_mux" /\ m = "sender" /\ n <= 1 => PassedUp(b, p, o)

PathInv == Way(at, host, packet, made, origin, noise)

LEMMA StartWay ==
  ASSUME NEW b \in Hosts, NEW p, NEW o, Carries(p, o), PathInv, Start("ip_module", b, p, o)
  PROVE  PathInv'
<1>1. /\ at = "idle" /\ at' = "ip_module" /\ host' = b /\ packet' = Unserialize(Serialize(p))
      /\ made' = "sender" /\ origin' = o /\ noise' = noise
  BY DEF Start, GoTo
<1>2. noise = 0 /\ noise \in Nat /\ noise <= MaxNoise
  BY <1>1 DEF PathInv, Way
<1>3. Carries(Unserialize(Serialize(p)), o)
  BY CarriesBack
<1>4. Way(at', host', packet', made', origin', noise')
  BY <1>1, <1>2, <1>3 DEF Way
<1> QED BY <1>4 DEF PathInv

LEMMA WritePath ==
  ASSUME PathInv, WriteDatagram
  PROVE  PathInv'
<1>1. PICK src \in Hosts, srcport \in Ports, destport \in Ports, data \in Payloads, g \in Garbage :
        \E dst \in Hosts \ {src} :
          LET o == [src |-> src, dst |-> dst, ttl |-> 64, flags |-> 2, fragoff |-> 0,
                    options |-> <<>>, proto |-> IP!IP_PROTO_UDP,
                    body |-> [srcport |-> srcport, destport |-> destport, data |-> data]]
          IN  Start("ip_module", src, Datagram(IP!IPHeader(g, 1), o), o)
  BY DEF WriteDatagram
<1>2. PICK dst \in Hosts \ {src} :
          LET o == [src |-> src, dst |-> dst, ttl |-> 64, flags |-> 2, fragoff |-> 0,
                    options |-> <<>>, proto |-> IP!IP_PROTO_UDP,
                    body |-> [srcport |-> srcport, destport |-> destport, data |-> data]]
          IN  Start("ip_module", src, Datagram(IP!IPHeader(g, 1), o), o)
  BY <1>1
<1> DEFINE o == [src |-> src, dst |-> dst, ttl |-> 64, flags |-> 2, fragoff |-> 0,
                 options |-> <<>>, proto |-> IP!IP_PROTO_UDP,
                 body |-> [srcport |-> srcport, destport |-> destport, data |-> data]]
           iph0 == IP!IPHeader(g, 1)
<1>3. Start("ip_module", src, Datagram(iph0, o), o)
  BY <1>2
<1>4. Fresh(iph0)
  <2>1. g \in Byte BY PathAssumption DEF PathAssumption
  <2>2. 1 \in Nat OBVIOUS
  <2> QED BY <2>1, <2>2, ConstructorIp
<1> HIDE DEF iph0
<1>5. /\ o.src = src /\ o.dst = dst
      /\ o.ttl = 64 /\ o.flags = 2 /\ o.fragoff = 0 /\ o.options = <<>> /\ o.proto = 17
      /\ o.body.srcport = srcport /\ o.body.destport = destport /\ o.body.data = data
  BY DEF IP!IP_PROTO_UDP
<1> HIDE DEF o
<1>6. src \in Bytes(4) /\ dst \in Bytes(4)
  BY PathAssumption DEF PathAssumption
<1>7. srcport \in Int /\ destport \in Int
  <2>1. \A n \in Word16 : n \in Int BY PortsAre
  <2>2. srcport \in Word16 /\ destport \in Word16 BY PathAssumption DEF PathAssumption
  <2> QED BY <2>1, <2>2
<1>8. data \in Seq(Byte)
  BY PathAssumption DEF PathAssumption
<1>9. Carries(Datagram(iph0, o), o)
  BY <1>4, <1>5, <1>6, <1>7, <1>8, DatagramCarries
<1> QED BY <1>3, <1>9, StartWay

LEMMA PeerPath ==
  ASSUME PathInv, PeerSends
  PROVE  PathInv'
<1>1. PICK o \in PeerPackets : Start("ip_module", o.src, PeerPacket(o), o)
  BY DEF PeerSends
<1>2. IsPeerPacket(o)
  BY PathAssumption DEF PathAssumption
<1>3. o.src \in Hosts
  BY <1>2, PeerGiven
<1>4. Carries(PeerPacket(o), o)
  BY <1>2, PeerPacketIs
<1> QED BY <1>1, <1>3, <1>4, StartWay

LEMMA EndPath ==
  ASSUME PathInv, End
  PROVE  PathInv'
<1>1. at' = "idle" /\ noise' = 0
  BY DEF End, GoTo
<1>2. 0 <= MaxNoise
  BY PathAssumption DEF PathAssumption
<1>3. Way(at', host', packet', made', origin', noise')
  BY <1>1, <1>2 DEF Way
<1> QED BY <1>3 DEF PathInv

\* Steps that leave the sender's packet alone, or are about another one.
LEMMA OtherPath ==
  ASSUME PathInv, noise' = noise, at' \notin {"idle", "wire", "ip_mux"},
         at' = "ip_module" => made' # "sender"
  PROVE  PathInv'
<1>1. noise \in Nat /\ noise <= MaxNoise
  BY DEF PathInv, Way
<1>2. Way(at', host', packet', made', origin', noise')
  BY <1>1 DEF Way
<1> QED BY <1>2 DEF PathInv

LEMMA ErrorPath ==
  ASSUME PathInv, NEW type, NEW code, NEW p, SendError(type, code, p)
  PROVE  PathInv'
<1>1. at' = "ip_module" /\ made' = "error" /\ noise' = noise
  BY DEF SendError, GoTo
<1> QED BY <1>1, OtherPath

LEMMA SendPath ==
  ASSUME PathInv, SendPacket
  PROVE  PathInv'
<1> DEFINE dst == IP!GetDestIP(FindHeader(packet, "IPHeader"))
           eh == EthernetHeader(MyEthernetAddr[host], MyEthernetAddr[dst])
           raw == DupeRaw(PushFrontHeader(packet, "EthernetHeader", eh))
<1>1. at = "ip_module"
  BY DEF SendPacket
<1>2. \/ /\ dst \in Hosts
          /\ \E frame \in {raw, Padded(raw)} : Transmit(frame, dst)
          /\ made' = made /\ origin' = origin /\ noise' = noise
       \/ End
  BY DEF SendPacket
<1>3. CASE /\ dst \in Hosts
           /\ \E frame \in {raw, Padded(raw)} : Transmit(frame, dst)
           /\ made' = made /\ origin' = origin /\ noise' = noise
  <2>1. PICK frame \in {raw, Padded(raw)} : Transmit(frame, dst)
    BY <1>3
  <2>2. made' = made /\ origin' = origin /\ noise' = noise
    BY <1>3
  <2>3. at' = "wire" /\ host' = dst /\ packet' = NewPacket(UnserializeBuffer(SerializeBuffer(frame)).value)
    BY <2>1 DEF Transmit
  <2>4. noise \in Nat /\ noise <= MaxNoise
    BY DEF PathInv, Way
  <2>5. ASSUME made = "sender"
        PROVE  OnTheWire(host', packet', origin', noise')
    <3>1. noise = 0 /\ host \in Hosts /\ Carries(packet, origin)
      BY <1>1, <2>5 DEF PathInv, Way
    <3>2. PICK h : IsIp(h) /\ Fields(h) = Given(origin) /\ Bears(packet, h)
      BY <3>1 DEF Carries
    <3>3. Long(h) /\ h \in Seq(Byte)
      BY <3>2 DEF IsIp, Long
    <3>4. FindHeader(packet, "IPHeader") = h
      BY <3>2, BearsHeader
    <3>5. dst = origin.dst
      BY <3>2, <3>4, GivenIs DEF Fields
    <3>6. MyEthernetAddr[host] \in Bytes(6) /\ MyEthernetAddr[dst] \in Bytes(6)
      BY <1>3, <3>1, PathAssumption DEF PathAssumption, EthernetAddrLength
    <3>7. eh \in Seq(Byte) /\ Len(eh) = 14
      BY <3>6, EthernetHeaderIs
    <3> HIDE DEF eh, dst
    <3>8. Frames(raw, h)
      BY <3>2, <3>3, <3>7, RawFrames
    <3> HIDE DEF raw
    <3>9. Frames(frame, h)
      BY <2>1, <3>3, <3>8, PaddedFrames
    <3>10. Nearly(frame, h)
      BY <3>3, <3>9, FramesNearly
    <3>11. Crosses(frame, h, noise)
      BY <3>9, <3>10 DEF Crosses, Frames
    <3>12. packet' = None(frame)
      <4>1. frame \in Seq(Byte) BY <3>9 DEF Frames
      <4> QED BY <2>3, <4>1, WireBack
    <3>13. OnTheWire(dst, None(frame), origin, noise)
      BY <3>2, <3>5, <3>11 DEF OnTheWire
    <3> QED BY <2>2, <2>3, <3>12, <3>13
  <2>6. Way(at', host', packet', made', origin', noise')
    BY <2>2, <2>3, <2>4, <2>5 DEF Way
  <2> QED BY <2>6 DEF PathInv
<1>4. CASE End
  BY <1>4, EndPath
<1> QED BY <1>2, <1>3, <1>4

LEMMA WrapsToByte == \A n \in Nat : n % 256 \in Byte
  BY DEF Byte

LEMMA DamagePath ==
  ASSUME PathInv, Damage
  PROVE  PathInv'
<1>1. /\ at = "wire" /\ noise < MaxNoise /\ noise' = noise + 1
      /\ at' = at /\ host' = host /\ made' = made /\ origin' = origin
  BY DEF Damage
<1>2. noise \in Nat /\ MaxNoise \in Nat
  BY PathAssumption DEF PathInv, Way, PathAssumption
<1>3. noise' \in Nat /\ noise' <= MaxNoise
  BY <1>1, <1>2
<1>4. ASSUME made = "sender"
      PROVE  OnTheWire(host', packet', origin', noise')
  <2>1. OnTheWire(host, packet, origin, noise)
    BY <1>1, <1>4 DEF PathInv, Way
  <2>2. PICK h, f : /\ IsIp(h) /\ Fields(h) = Given(origin) /\ host = origin.dst
                    /\ packet = None(f) /\ Crosses(f, h, noise)
    BY <2>1 DEF OnTheWire
  <2>3. packet.payload = f /\ f \in Seq(Byte) /\ Len(f) >= 14 + Len(h) /\ Len(f) \in Nat
    BY <2>2 DEF None, Crosses
  <2>4. PICK i \in Damageable(packet.payload) \cap DOMAIN packet.payload, d \in Damages :
               packet' = [packet EXCEPT !.payload[i] = (@ + d) % 256]
    BY DEF Damage
  <2>5. i \in 1 .. Len(f)
    BY <2>3, <2>4
  <2>6. i # 15
    BY <2>4 DEF Damageable, ETHERNET_HEADER_LEN
  <2> DEFINE x == (f[i] + d) % 256
             e == [f EXCEPT ![i] = x]
  <2>7. x \in Byte
    <3>1. d \in Nat
      BY PathAssumption DEF PathAssumption
    <3>2. f[i] \in Byte
      BY <2>3, <2>5
    <3>3. f[i] + d \in Nat
      BY <3>1, <3>2, ByteIs
    <3> QED BY <3>3, WrapsToByte
  <2>8. packet' = None(e)
    BY <2>2, <2>4 DEF None
  <2> HIDE DEF x
  <2>9. e \in Seq(Byte) /\ Len(e) = Len(f)
    BY <2>3, <2>5, <2>7
  <2>10. ASSUME noise = 0
         PROVE  Nearly(e, h)
    <3>1. Frames(f, h)
      BY <2>2, <2>10 DEF Frames, Crosses
    <3>2. Long(h)
      BY <2>2 DEF IsIp
    <3> QED BY <2>5, <2>6, <2>7, <3>1, <3>2, DamagedNearly
  <2> HIDE DEF e
  <2>11. Crosses(e, h, noise')
    <3>1. noise' # 0 /\ (noise' <= 1 => noise = 0)
      BY <1>1, <1>2
    <3> QED BY <2>3, <2>9, <2>10, <3>1 DEF Crosses
  <2>12. \A n : Crosses(e, h, n) => OnTheWire(host, None(e), origin, n)
    BY <2>2 DEF OnTheWire
  <2> QED BY <1>1, <2>8, <2>11, <2>12
<1>5. Way(at', host', packet', made', origin', noise')
  BY <1>1, <1>3, <1>4 DEF Way
<1> QED BY <1>5 DEF PathInv

\* What ip_module reads of a frame.
Read(f) ==
  LET rest == AfterFront(f, 14)
  IN  Two("EthernetHeader", ExtractFront(f, 14), "IPHeader", HeaderOf(f),
          AfterFront(rest, IP!EstimateIPHeaderLength(rest)))

LEMMA ReadIs ==
  ASSUME NEW f
  PROVE  LET whole == ExtractHeaderFromPayload(None(f), "EthernetHeader", ETHERNET_HEADER_LEN)
         IN  ExtractHeaderFromPayload(whole, "IPHeader", IP!EstimateIPHeaderLength(whole.payload))
               = Read(f)
<1> DEFINE eh == ExtractFront(f, 14)
           rest == AfterFront(f, 14)
           whole == ExtractHeaderFromPayload(None(f), "EthernetHeader", ETHERNET_HEADER_LEN)
           n == IP!EstimateIPHeaderLength(rest)
<1>1. whole = One("EthernetHeader", eh, rest)
  <2>1. Append(<<>>, Header("EthernetHeader", eh)) = <<Header("EthernetHeader", eh)>>
    OBVIOUS
  <2> QED BY <2>1 DEF ExtractHeaderFromPayload, None, One, ETHERNET_HEADER_LEN
<1> HIDE DEF whole
<1>2. whole.payload = rest
  BY <1>1 DEF One
<1> DEFINE h == ExtractFront(rest, n)
           b == AfterFront(rest, n)
<1>3. ExtractHeaderFromPayload(One("EthernetHeader", eh, rest), "IPHeader", n)
        = Two("EthernetHeader", eh, "IPHeader", h, b)
  <2> HIDE DEF eh, rest, n
  <2>1. Append(<<Header("EthernetHeader", eh)>>, Header("IPHeader", h))
          = <<Header("EthernetHeader", eh), Header("IPHeader", h)>>
    BY AppendOne
  <2> QED BY <2>1 DEF ExtractHeaderFromPayload, One, Two
<1>4. ExtractHeaderFromPayload(whole, "IPHeader", IP!EstimateIPHeaderLength(whole.payload))
        = Two("EthernetHeader", eh, "IPHeader", h, b)
  BY <1>1, <1>2, <1>3
<1> QED BY <1>4 DEF whole, Read, HeaderOf

LEMMA PiecesAreBytes ==
  ASSUME NEW b \in Seq(Byte)
  PROVE  /\ \A n \in Int : ExtractFront(b, n) \in Seq(Byte)
         /\ \A n \in Nat : AfterFront(b, n) \in Seq(Byte)
<1>1. ASSUME NEW n \in Int
      PROVE  ExtractFront(b, n) \in Seq(Byte)
  <2>1. Len(b) \in Nat
    OBVIOUS
  <2> DEFINE m == Smaller(n, Len(b))
  <2>2. m \in Int /\ m <= Len(b)
    BY <2>1 DEF Smaller
  <2>3. ExtractFront(b, n) = SubSeq(b, 1, m)
    BY DEF ExtractFront
  <2> HIDE DEF m
  <2>4. \A i \in 1 .. m : b[i] \in Byte
    BY <2>1, <2>2
  <2>5. SubSeq(b, 1, m) \in Seq(Byte)
    BY <2>2, <2>4
  <2> QED BY <2>3, <2>5
<1>2. ASSUME NEW n \in Nat
      PROVE  AfterFront(b, n) \in Seq(Byte)
  <2>1. Len(b) \in Nat
    OBVIOUS
  <2>2. \A i \in n + 1 .. Len(b) : b[i] \in Byte
    BY <2>1
  <2>3. SubSeq(b, n + 1, Len(b)) \in Seq(Byte)
    BY <2>1, <2>2
  <2> QED BY <2>3 DEF AfterFront
<1> QED BY <1>1, <1>2

\* The length that a first byte tells.
LEMMA EstimateIs ==
  ASSUME NEW b \in Seq(Byte), Len(b) >= 1
  PROVE  IP!EstimateIPHeaderLength(b) \in Nat
<1>1. b[1] \in Byte
  OBVIOUS
<1>2. b[1] \in Nat
  BY <1>1, ByteIs
<1> QED BY <1>2 DEF IP!EstimateIPHeaderLength, IP!GetHeaderLength

LEMMA ReadBack ==
  ASSUME NEW f \in Seq(Byte), Len(f) >= 34
  PROVE  /\ Unserialize(Serialize(Read(f))) = Read(f)
         /\ FindHeader(Read(f), "IPHeader") = HeaderOf(f)
<1> DEFINE eh == ExtractFront(f, 14)
           rest == AfterFront(f, 14)
           n == IP!EstimateIPHeaderLength(rest)
           h == HeaderOf(f)
           b == AfterFront(rest, n)
<1>1. Read(f) = Two("EthernetHeader", eh, "IPHeader", h, b)
  BY DEF Read
<1>2. h = ExtractFront(rest, n)
  BY DEF HeaderOf
<1>3. eh \in Seq(Byte) /\ rest \in Seq(Byte)
  <2>1. 14 \in Int /\ 14 \in Nat
    OBVIOUS
  <2> QED BY <2>1, PiecesAreBytes
<1>4. Len(rest) >= 1
  <2>1. PICK k \in Nat : k = 14 OBVIOUS
  <2>2. Len(f) \in Nat /\ k <= Len(f) BY <2>1
  <2>3. Len(AfterFront(f, k)) = Len(f) - k BY <2>2, CutIs
  <2> HIDE DEF rest
  <2>4. Len(rest) = Len(f) - k BY <2>1, <2>3 DEF rest
  <2> QED BY <2>1, <2>2, <2>4
<1> HIDE DEF eh, rest
<1>5. n \in Nat
  BY <1>3, <1>4, EstimateIs
<1> HIDE DEF n
<1>6. ExtractFront(rest, n) \in Seq(Byte) /\ b \in Seq(Byte)
  <2>1. n \in Int /\ n \in Nat BY <1>5
  <2> QED BY <1>3, <2>1, PiecesAreBytes
<1> HIDE DEF b
<1>7. h \in Seq(Byte)
  BY <1>2, <1>6
<1> HIDE DEF h
<1>8. "EthernetHeader" \in Tags /\ "IPHeader" \in Tags
  BY DEF Tags
<1>9. Unserialize(Serialize(Two("EthernetHeader", eh, "IPHeader", h, b)))
        = Two("EthernetHeader", eh, "IPHeader", h, b)
  BY <1>3, <1>6, <1>7, <1>8, BackTwo
<1>10. FindHeader(Two("EthernetHeader", eh, "IPHeader", h, b), "IPHeader") = h
  BY FindInTwo
<1> QED BY <1>1, <1>9, <1>10 DEF h

\* ip_module passes up what the sender meant, or nothing.
LEMMA UpPath ==
  ASSUME PathInv, FromEthernet
  PROVE  PathInv'
<1> DEFINE whole == ExtractHeaderFromPayload(packet, "EthernetHeader", ETHERNET_HEADER_LEN)
           p == ExtractHeaderFromPayload(whole, "IPHeader", IP!EstimateIPHeaderLength(whole.payload))
           iph == FindHeader(p, "IPHeader")
           isFragment == IP!GetFlags(iph) % 2 = IP!IP_HEADER_FLAG_MOREFRAG
                           \/ IP!GetFragOffset(iph) # 0
<1>1. at = "wire"
  BY DEF FromEthernet
<1>2. \/ End
      \/ \E type, code : SendError(type, code, p)
      \/ /\ IP!GetDestIP(iph) = host /\ IP!IsChecksumCorrect(iph) /\ IP!GetTTL(iph) # 0
         /\ ~ isFragment /\ Pass("ip_mux", p)
  BY DEF FromEthernet
<1>3. CASE End
  BY <1>3, EndPath
<1>4. CASE \E type, code : SendError(type, code, p)
  BY <1>4, ErrorPath
<1>5. CASE /\ IP!GetDestIP(iph) = host /\ IP!IsChecksumCorrect(iph) /\ IP!GetTTL(iph) # 0
           /\ ~ isFragment /\ Pass("ip_mux", p)
  <2>1. /\ at' = "ip_mux" /\ host' = host /\ packet' = Unserialize(Serialize(p))
        /\ made' = made /\ origin' = origin /\ noise' = noise
    BY <1>5 DEF Pass, GoTo
  <2>2. noise \in Nat /\ noise <= MaxNoise
    BY DEF PathInv, Way
  <2>3. ASSUME made = "sender", noise <= 1
        PROVE  PassedUp(host', packet', origin')
    <3>1. OnTheWire(host, packet, origin, noise)
      BY <1>1, <2>3 DEF PathInv, Way
    <3>2. PICK h, f : /\ IsIp(h) /\ Fields(h) = Given(origin) /\ host = origin.dst
                      /\ packet = None(f) /\ Crosses(f, h, noise)
      BY <3>1 DEF OnTheWire
    <3>3. f \in Seq(Byte) /\ Len(f) >= 14 + Len(h) /\ Nearly(f, h)
      BY <2>3, <3>2 DEF Crosses
    <3>4. Len(f) >= 34
      <4>1. Len(h) \in Nat /\ Len(h) >= 20 BY <3>2 DEF IsIp, Long
      <4>2. Len(f) \in Nat BY <3>3
      <4> QED BY <3>3, <4>1, <4>2
    <3>5. p = Read(f)
      BY <3>2, ReadIs
    <3> HIDE DEF p
    <3>6. packet' = Read(f) /\ iph = HeaderOf(f)
      BY <2>1, <3>3, <3>4, <3>5, ReadBack
    <3>7. HeaderOf(f) = h
      BY <1>5, <3>2, <3>3, <3>6, HeaderOfNearly
    <3>8. FindHeader(packet', "IPHeader") = h /\ iph = h
      BY <3>3, <3>4, <3>6, <3>7, ReadBack
    <3> HIDE DEF iph
    <3>9. /\ origin.ttl = IP!GetTTL(h) /\ origin.flags = IP!GetFlags(h)
          /\ origin.fragoff = IP!GetFragOffset(h)
      BY <3>2, GivenIs DEF Fields
    <3>10. IP!GetFlags(h) \in Nat
      <4>1. h \in Seq(Byte) /\ Len(h) \in Nat /\ Len(h) >= 20 BY <3>2 DEF IsIp, Long
      <4>2. 7 \in 1 .. Len(h) BY <4>1
      <4>3. h[7] \in Byte BY <4>1, <4>2
      <4>4. h[7] \in Nat BY <4>3, ByteIs
      <4> QED BY <4>4 DEF IP!GetFlags
    <3>11. origin.ttl # 0 /\ origin.fragoff = 0 /\ IP!GetFlags(h) % 2 # 1
      BY <1>5, <3>8, <3>9 DEF IP!IP_HEADER_FLAG_MOREFRAG
    <3>12. origin.flags % 2 = 0
      BY <3>9, <3>10, <3>11
    <3> QED BY <2>1, <3>2, <3>8, <3>11, <3>12 DEF PassedUp
  <2>4. Way(at', host', packet', made', origin', noise')
    BY <2>1, <2>2, <2>3 DEF Way
  <2> QED BY <2>4 DEF PathInv
<1> QED BY <1>2, <1>3, <1>4, <1>5

LEMMA RestPath ==
  ASSUME PathInv, FromIp \/ HandleDatagram \/ PrintSegment \/ HandleMessage
                    \/ ProcessICMPMessage \/ ProcessUDPMessage \/ Printed
  PROVE  PathInv'
<1>1. CASE FromIp
  <2>1. \/ \E module \in {"udp_module", "tcp_module", "icmp_module"} : Pass(module, packet)
        \/ \E type, code : SendError(type, code, packet)
    BY <1>1 DEF FromIp
  <2>2. ASSUME NEW module \in {"udp_module", "tcp_module", "icmp_module"}, Pass(module, packet)
        PROVE  PathInv'
    <3>1. at' = module /\ noise' = noise
      BY <2>2 DEF Pass, GoTo
    <3>2. at' \notin {"idle", "wire", "ip_mux", "ip_module"}
      BY <2>2, <3>1
    <3> QED BY <3>1, <3>2, OtherPath
  <2> QED BY <2>1, <2>2, ErrorPath
<1>2. CASE HandleDatagram
  <2>1. \/ \E p, ok, request : Upcall(p, ok, request)
        \/ \E p, type, code : SendError(type, code, p)
    BY <1>2 DEF HandleDatagram
  <2>2. ASSUME NEW p, NEW ok, NEW request, Upcall(p, ok, request)
        PROVE  PathInv'
    <3>1. at' = "sock" /\ noise' = noise
      BY <2>2 DEF Upcall
    <3> QED BY <3>1, OtherPath
  <2> QED BY <2>1, <2>2, ErrorPath
<1>3. CASE PrintSegment
  <2>1. at' = "printed" /\ noise' = noise
    BY <1>3 DEF PrintSegment
  <2> QED BY <2>1, OtherPath
<1>4. CASE HandleMessage
  <2>1. /\ noise' = noise
        /\ (at' = "ip_module" /\ made' = "reply") \/ at' = "sock"
    BY <1>4 DEF HandleMessage, Upcall, GoTo
  <2> QED BY <2>1, OtherPath
<1>5. CASE ProcessICMPMessage \/ ProcessUDPMessage \/ Printed
  <2>1. End
    BY <1>5 DEF ProcessICMPMessage, ProcessUDPMessage, Printed
  <2> QED BY <2>1, EndPath
<1> QED BY <1>1, <1>2, <1>3, <1>4, <1>5

LEMMA PathInit ==
  ASSUME Init
  PROVE  PathInv
<1>1. at = "idle" /\ noise = 0
  BY DEF Init
<1>2. 0 <= MaxNoise
  BY PathAssumption DEF PathAssumption
<1> QED BY <1>1, <1>2 DEF PathInv, Way

LEMMA PathNext ==
  ASSUME PathInv, [Next]_vars
  PROVE  PathInv'
<1>1. CASE Next
  BY <1>1, WritePath, PeerPath, DamagePath, SendPath, UpPath, RestPath DEF Next, Travel
<1>2. CASE UNCHANGED vars
  BY <1>2 DEF vars, PathInv
<1> QED BY <1>1, <1>2

LEMMA PathHolds == Spec => []PathInv
<1>1. Init => PathInv
  BY PathInit
<1>2. PathInv /\ [Next]_vars => PathInv'
  BY PathNext
<1> QED BY <1>1, <1>2, PTL DEF Spec

\* ip_module.cc:137-185, ip.cc:84-376: as long as the link damages no more than
\* a byte of it on its way, a packet that ip_module passes up is whole and
\* alive, and says field by field what its sender meant: for all hosts,
\* addresses, fields, options and data, with and without padding.
THEOREM WhatIsPassedUpWasSent ==
  ASSUME MaxNoise <= 1
  PROVE  Spec => []PassedUpAsSent
<1>1. PathInv => PassedUpAsSent
  <2> SUFFICES ASSUME PathInv, at = "ip_mux", made = "sender"
               PROVE  /\ Fields(FindHeader(packet, "IPHeader")) = Given(origin)
                      /\ origin.dst = host
                      /\ origin.ttl # 0
                      /\ origin.flags % 2 = 0 /\ origin.fragoff = 0
    BY DEF PassedUpAsSent
  <2>1. noise <= 1
    <3>1. noise \in Nat /\ noise <= MaxNoise /\ MaxNoise \in Nat
      BY PathAssumption DEF PathInv, Way, PathAssumption
    <3> QED BY <3>1
  <2>2. PassedUp(host, packet, origin)
    BY <2>1 DEF PathInv, Way
  <2> QED BY <2>2 DEF PassedUp
<1> QED BY <1>1, PathHolds, PTL
=============================================================================

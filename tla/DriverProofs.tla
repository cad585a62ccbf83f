---------------------------- MODULE DriverProofs -----------------------------
(***************************************************************************)
(* LegacyDriver, for rings and sockets of any size and any packets: the    *)
(* types, that sends never overlap, that one packet at most is left behind *)
(* in the output queue, and that it implements DriverService: whatever     *)
(* packets come and whenever the handler interrupts the main loop, nothing *)
(* is repeated, made up or overtaken.                                      *)
(***************************************************************************)
EXTENDS LegacyDriver, SequenceTheorems, TLAPS

(***************************************************************************)
(* The ring.                                                               *)
(***************************************************************************)
\* raw_ethernet_packet_buffer.cc:20-32: the index after i.
LEMMA SuccessorIs ==
  ASSUME NEW b, NEW i \in 0 .. b.bufsize - 1, b.bufsize \in Nat, b.bufsize > 1
  PROVE  Successor(b, i) = IF i + 1 = b.bufsize THEN 0 ELSE i + 1
<1> DEFINE n == b.bufsize
<1>1. n \in Nat /\ n > 1 /\ i \in Nat /\ i < n
  BY SMT
<1> HIDE DEF n
<1>2. CASE i + 1 < n
  BY <1>1, <1>2, SMT DEF Successor, n
<1>3. CASE i + 1 = n
  <2>1. n % n = 0
    BY <1>1, SMT
  <2> QED
    BY <1>3, <2>1 DEF Successor, n
<1> QED
  BY <1>1, <1>2, <1>3, SMT DEF n

\* The slots between curout and curin, around the end of the ring.
InUse(b, i) ==
  IF b.curout <= b.curin THEN b.curout <= i /\ i < b.curin
                         ELSE b.curout <= i \/ i < b.curin

\* What is in use holds a packet.
RingOK(b, size) ==
  /\ BufferOK(b, size)
  /\ DOMAIN b = {"bufsize", "packet", "curin", "curout"}
  /\ \A i \in 0 .. size - 1 : InUse(b, i) => b.packet[i] \in Packets

Size(n) == n \in Nat \ {0, 1}

LEMMA NewRing ==
  ASSUME NEW n, Size(n)
  PROVE  RingOK(NewBuffer(n), n) /\ Pending(NewBuffer(n)) = 0
BY DEF Size, RingOK, BufferOK, NewBuffer, InUse, Pending

\* The indices of a ring.
LEMMA RingIndices ==
  ASSUME NEW n, Size(n), NEW b, RingOK(b, n)
  PROVE  /\ n \in Nat /\ n > 1 /\ b.bufsize = n
         /\ b.curin \in Int /\ 0 <= b.curin /\ b.curin < n
         /\ b.curout \in Int /\ 0 <= b.curout /\ b.curout < n
BY DEF Size, RingOK, BufferOK

\* What a push changes when the ring is not full.
LEMMA PushIs ==
  ASSUME NEW n, Size(n), NEW b, RingOK(b, n), NEW p, ~ IsFull(b)
  PROVE  LET c == PushPacket(b, p) IN
         /\ c.bufsize = n /\ c.curout = b.curout
         /\ c.curin = IF b.curin + 1 = n THEN 0 ELSE b.curin + 1
         /\ c.curin # b.curout
         /\ c.packet = [b.packet EXCEPT ![b.curin] = p]
         /\ DOMAIN c = {"bufsize", "packet", "curin", "curout"}
<1> DEFINE c == PushPacket(b, p)
<1>1. Successor(b, b.curin) = IF b.curin + 1 = n THEN 0 ELSE b.curin + 1
  BY RingIndices, SuccessorIs
<1>2. c = [b EXCEPT !.packet = [@ EXCEPT ![b.curin] = p], !.curin = Successor(b, @)]
  BY DEF PushPacket, Push
<1>3. /\ c.bufsize = n /\ c.curout = b.curout
      /\ c.curin = IF b.curin + 1 = n THEN 0 ELSE b.curin + 1
      /\ c.packet = [b.packet EXCEPT ![b.curin] = p]
      /\ DOMAIN c = {"bufsize", "packet", "curin", "curout"}
  BY <1>1, <1>2, RingIndices DEF RingOK
<1>4. c.curin # b.curout
  BY <1>1, <1>3 DEF IsFull
<1> QED
  BY <1>3, <1>4

\* What a pull changes.
LEMMA PullIs ==
  ASSUME NEW n, Size(n), NEW b, RingOK(b, n)
  PROVE  LET c == PullPacket(b) IN
         /\ c.bufsize = n /\ c.curin = b.curin
         /\ c.curout = IF b.curout + 1 = n THEN 0 ELSE b.curout + 1
         /\ c.packet = [b.packet EXCEPT ![b.curout] = NoPacket]
         /\ DOMAIN c = {"bufsize", "packet", "curin", "curout"}
<1>1. Successor(b, b.curout) = IF b.curout + 1 = n THEN 0 ELSE b.curout + 1
  BY RingIndices, SuccessorIs
<1> QED
  BY <1>1, RingIndices DEF PullPacket, RingOK

\* A push keeps the ring whole, and adds one packet at most.
LEMMA PushKeeps ==
  ASSUME NEW n, Size(n), NEW b, RingOK(b, n), NEW p \in Packets
  PROVE  /\ RingOK(PushPacket(b, p), n)
         /\ Pending(PushPacket(b, p)) <= Pending(b) + 1
<1>1. Pending(b) \in Int
  BY RingIndices DEF Pending
<1>2. CASE IsFull(b)
  BY <1>1, <1>2 DEF PushPacket
<1>3. CASE ~ IsFull(b)
  <2> DEFINE c == PushPacket(b, p)
  <2>1. /\ c.bufsize = n /\ c.curout = b.curout /\ c.curin # b.curout
        /\ c.curin = IF b.curin + 1 = n THEN 0 ELSE b.curin + 1
        /\ c.packet = [b.packet EXCEPT ![b.curin] = p]
        /\ DOMAIN c = {"bufsize", "packet", "curin", "curout"}
    BY <1>3, PushIs
  <2> HIDE DEF c
  <2>2. BufferOK(c, n)
    BY <2>1, RingIndices DEF RingOK, BufferOK
  <2>3. ASSUME NEW i \in 0 .. n - 1, InUse(c, i)
        PROVE  c.packet[i] \in Packets
    <3>1. CASE i = b.curin
      BY <2>1, <3>1, RingIndices DEF RingOK, BufferOK
    <3>2. CASE i # b.curin
      <4>1. InUse(b, i)
        BY <2>1, <2>3, <3>2, RingIndices DEF InUse
      <4> QED
        BY <2>1, <3>2, <4>1, RingIndices DEF RingOK, BufferOK
    <3> QED
      BY <3>1, <3>2
  <2>4. Pending(c) = Pending(b) + 1
    BY <2>1, RingIndices DEF Pending
  <2> QED
    BY <1>1, <2>1, <2>2, <2>3, <2>4 DEF RingOK, c
<1> QED
  BY <1>2, <1>3

\* A pull of a ring that is not empty takes a packet, and one only.
LEMMA PullKeeps ==
  ASSUME NEW n, Size(n), NEW b, RingOK(b, n), ~ IsEmpty(b)
  PROVE  /\ RingOK(PullPacket(b), n)
         /\ NextPacket(b) \in Packets
         /\ Pending(PullPacket(b)) = Pending(b) - 1
<1> DEFINE c == PullPacket(b)
<1>1. /\ c.bufsize = n /\ c.curin = b.curin /\ b.curin # b.curout
      /\ c.curout = IF b.curout + 1 = n THEN 0 ELSE b.curout + 1
      /\ c.packet = [b.packet EXCEPT ![b.curout] = NoPacket]
      /\ DOMAIN c = {"bufsize", "packet", "curin", "curout"}
  BY PullIs DEF IsEmpty
<1> HIDE DEF c
<1>2. NextPacket(b) \in Packets
  BY <1>1, RingIndices DEF NextPacket, RingOK, InUse
<1>3. BufferOK(c, n)
  BY <1>1, RingIndices DEF RingOK, BufferOK
<1>4. ASSUME NEW i \in 0 .. n - 1, InUse(c, i)
      PROVE  c.packet[i] \in Packets
  <2>1. i # b.curout /\ InUse(b, i)
    BY <1>1, <1>4, RingIndices DEF InUse
  <2> QED
    BY <1>1, <2>1, RingIndices DEF RingOK, BufferOK
<1>5. Pending(c) = Pending(b) - 1
  BY <1>1, RingIndices DEF Pending
<1> QED
  BY <1>1, <1>2, <1>3, <1>4, <1>5 DEF RingOK, c

\* raw_ethernet_packet_buffer.cc:53-56: Numitems never says that there are
\* packets when there are none, and 0 of one packet at most.
LEMMA NumitemsIsOffByOne ==
  ASSUME NEW n, Size(n), NEW b, RingOK(b, n)
  PROVE  /\ Numitems(b) > 0 => ~ IsEmpty(b)
         /\ ~ (Numitems(b) > 0) => Pending(b) <= 1
         /\ Pending(b) \in Nat
BY RingIndices DEF Numitems, IsEmpty, Pending

(***************************************************************************)
(* The invariant. The signal is blocked exactly while the main loop is in  *)
(* its critical section, where no handler runs; who is about to write has a*)
(* packet, and nobody else has; and what the main loop is about to read is *)
(* there.                                                                  *)
(***************************************************************************)
Control ==
  /\ pc \in {"top", "select", "in", "write"}
  /\ watched \in BOOLEAN /\ masked \in BOOLEAN /\ pending \in BOOLEAN
  /\ handler \in {"off", "select", "flag", "write"}
  /\ reader \in {"capture", "signal"}

Pipes ==
  /\ fromReader \in Seq(Packets) /\ toWriter \in Seq(Packets)
  /\ muxin \in Seq(Packets) /\ muxout \in Seq(Packets)
  /\ flags \in 0 .. FlagRoom
  /\ onLink \in Packets \cup {NoPacket}

Rings ==
  /\ RingOK(input_queue, input_queue_size)
  /\ RingOK(output_queue, output_queue_size)
  /\ Pending(output_queue) <= 1

Sends ==
  /\ masked <=> pc \in {"in", "write"}
  /\ masked => handler = "off"
  /\ pc = "in" => muxin # <<>>
  /\ handler = "flag" => flags > 0
  /\ IF pc = "write" \/ handler = "write" THEN outgoing \in Packets ELSE outgoing = NoPacket

IInv == Control /\ Pipes /\ Rings /\ Sends

LEMMA Sizes == Size(input_queue_size) /\ Size(output_queue_size) /\ FlagRoom \in Nat \ {0}
BY LegacyDriverAssumption DEF Size

LEMMA InitInv == Init => IInv
<1> SUFFICES ASSUME Init PROVE IInv
  OBVIOUS
<1>1. Control
  BY DEF Init, Control
<1>2. Pipes
  BY Sizes DEF Init, Pipes
<1>3. Rings
  BY Sizes, NewRing DEF Init, Rings
<1>4. Sends
  BY DEF Init, Sends
<1> QED
  BY <1>1, <1>2, <1>3, <1>4 DEF IInv

(***************************************************************************)
(* The main loop.                                                          *)
(***************************************************************************)
LEMMA PrepareKeeps ==
  ASSUME IInv, Prepare PROVE IInv'
<1> USE DEF IInv, Prepare, handlerVars, deviceVars
<1>1. Control'
  BY DEF Control
<1>2. Pipes'
  BY DEF Pipes
<1>3. Rings'
  BY DEF Rings
<1>4. Sends'
  BY DEF Sends
<1> QED
  BY <1>1, <1>2, <1>3, <1>4

LEMMA CriticalSectionKeeps ==
  ASSUME IInv, CriticalSection PROVE IInv'
<1> USE DEF IInv
<1>1. /\ pc = "select" /\ handler = "off" /\ watched' = FALSE
      /\ UNCHANGED <<outgoing, output_queue, handler, pending, reader, fromReader, toWriter,
                     flags, onLink, muxin>>
  BY DEF CriticalSection, handlerVars, deviceVars
<1>2. masked' = ("muxin" \in Ready) /\ pc' = (IF "muxin" \in Ready THEN "in" ELSE "top")
  BY Zenon DEF CriticalSection
<1>3. masked' \in BOOLEAN
  BY SMT DEF CriticalSection
<1>4. (masked' /\ pc' = "in" /\ muxin # <<>>) \/ (~ masked' /\ pc' = "top")
  <2>1. CASE "muxin" \in Ready
    <3>1. masked'
      BY <1>2, <2>1, Zenon
    <3>2. pc' = "in" /\ muxin # <<>>
      BY <1>2, <2>1 DEF Ready
    <3> QED
      BY <3>1, <3>2
  <2>2. CASE "muxin" \notin Ready
    <3>1. ~ masked'
      BY <1>2, <2>2, Zenon
    <3>2. pc' = "top"
      BY <1>2, <2>2
    <3> QED
      BY <3>1, <3>2
  <2> QED
    BY <2>1, <2>2
<1>5. Control'
  BY <1>1, <1>3, <1>4 DEF Control
<1>6. Sends'
  BY <1>1, <1>4 DEF Sends
<1>7. Pipes' /\ Rings'
  <2>1. SUFFICES muxout' \in Seq(Packets) /\ RingOK(input_queue', input_queue_size)
    BY <1>1 DEF Pipes, Rings
  <2>2. CASE "muxout" \in Ready /\ ~ IsEmpty(input_queue)
    <3>1. muxout' = Append(muxout, NextPacket(input_queue)) /\ input_queue' = PullPacket(input_queue)
      BY <2>2 DEF CriticalSection
    <3>2. NextPacket(input_queue) \in Packets /\ RingOK(PullPacket(input_queue), input_queue_size)
      BY <2>2, Sizes, PullKeeps DEF Rings
    <3> QED
      BY <3>1, <3>2 DEF Pipes
  <2>3. CASE ~ ("muxout" \in Ready /\ ~ IsEmpty(input_queue))
    <3>1. muxout' = muxout /\ input_queue' = input_queue
      BY <2>3 DEF CriticalSection
    <3> QED
      BY <3>1 DEF Pipes, Rings
  <2> QED
    BY <2>2, <2>3
<1> QED
  BY <1>5, <1>6, <1>7

LEMMA InputFromMuxKeeps ==
  ASSUME IInv, InputFromMux PROVE IInv'
<1> USE DEF IInv
<1> DEFINE queue == PushPacket(output_queue, Head(muxin))
<1>1. /\ pc = "in" /\ handler = "off"
      /\ muxin' = Tail(muxin)
      /\ UNCHANGED <<watched, input_queue, handler, pending, reader, fromReader, toWriter,
                     flags, onLink, muxout>>
      /\ IF StartsSend(queue)
           THEN /\ output_queue' = PullPacket(queue)
                /\ outgoing' = NextPacket(queue)
                /\ pc' = "write"
                /\ masked' = masked
           ELSE /\ output_queue' = queue
                /\ pc' = "top" /\ masked' = FALSE
                /\ outgoing' = outgoing
  BY DEF InputFromMux, handlerVars, deviceVars
<1>2. Head(muxin) \in Packets /\ Tail(muxin) \in Seq(Packets)
  BY <1>1 DEF Pipes, Sends
<1>3. RingOK(queue, output_queue_size) /\ Pending(queue) <= Pending(output_queue) + 1
  BY <1>2, Sizes, PushKeeps DEF Rings
<1>4. Pending(output_queue) \in Nat /\ Pending(queue) \in Nat
  BY <1>3, Sizes, NumitemsIsOffByOne DEF Rings
<1>5. Pending(queue) <= 2
  BY <1>3, <1>4 DEF Rings
<1> HIDE DEF queue
<1>6. Pipes'
  BY <1>1, <1>2 DEF Pipes
<1>7. CASE StartsSend(queue)
  <2>1. ~ IsEmpty(queue)
    BY <1>3, <1>7, Sizes, NumitemsIsOffByOne DEF StartsSend
  <2>2. /\ RingOK(PullPacket(queue), output_queue_size)
        /\ NextPacket(queue) \in Packets
        /\ Pending(PullPacket(queue)) = Pending(queue) - 1
    BY <1>3, <2>1, Sizes, PullKeeps
  <2>3. Pending(PullPacket(queue)) <= 1
    BY <1>4, <1>5, <2>2
  <2>4. Rings'
    BY <1>1, <1>7, <2>2, <2>3 DEF Rings
  <2>5. Sends'
    BY <1>1, <1>7, <2>2 DEF Sends
  <2>6. Control'
    BY <1>1, <1>7 DEF Control
  <2> QED
    BY <1>6, <2>4, <2>5, <2>6
<1>8. CASE ~ StartsSend(queue)
  <2>1. Pending(queue) <= 1
    BY <1>3, <1>8, Sizes, NumitemsIsOffByOne DEF StartsSend
  <2>2. Rings'
    BY <1>1, <1>3, <1>8, <2>1 DEF Rings
  <2>3. Sends'
    BY <1>1, <1>8 DEF Sends
  <2>4. Control'
    BY <1>1, <1>8 DEF Control
  <2> QED
    BY <1>6, <2>2, <2>3, <2>4
<1> QED
  BY <1>7, <1>8

LEMMA WriteNextPacketKeeps ==
  ASSUME IInv, WriteNextPacket PROVE IInv'
<1> USE DEF IInv
<1>1. /\ pc = "write" /\ handler = "off"
      /\ toWriter' = Append(toWriter, outgoing)
      /\ outgoing' = NoPacket /\ pc' = "top" /\ masked' = FALSE
      /\ UNCHANGED <<watched, input_queue, output_queue, handler, pending,
                     reader, fromReader, flags, onLink, muxin, muxout>>
  BY DEF WriteNextPacket, handlerVars
<1>2. outgoing \in Packets
  BY <1>1 DEF Sends
<1>3. Control'
  BY <1>1 DEF Control
<1>4. Pipes'
  BY <1>1, <1>2 DEF Pipes
<1>5. Rings'
  BY <1>1 DEF Rings
<1>6. Sends'
  BY <1>1 DEF Sends
<1> QED
  BY <1>3, <1>4, <1>5, <1>6

(***************************************************************************)
(* The handler.                                                            *)
(***************************************************************************)
LEMMA InterruptKeeps ==
  ASSUME IInv, Interrupt PROVE IInv'
<1> USE DEF IInv
<1>1. /\ ~ masked /\ handler = "off" /\ pending' = FALSE /\ handler' = "select"
      /\ UNCHANGED <<watched, masked, outgoing, input_queue, output_queue,
                     reader, fromReader, toWriter, flags, onLink, muxin, muxout>>
  BY DEF Interrupt, deviceVars
<1>2. pc' = pc \/ (pc = "select" /\ pc' = "top")
  BY DEF Interrupt
<1>3. Control'
  BY <1>1, <1>2 DEF Control
<1>4. Pipes'
  BY <1>1 DEF Pipes
<1>5. Rings'
  BY <1>1 DEF Rings
<1>6. Sends'
  BY <1>1, <1>2 DEF Sends
<1> QED
  BY <1>3, <1>4, <1>5, <1>6

LEMMA ReceiveKeeps ==
  ASSUME IInv, ReceiveNextPacket PROVE IInv'
<1> USE DEF IInv
<1>1. /\ handler = "select" /\ fromReader # <<>>
      /\ input_queue' = PushPacket(input_queue, Head(fromReader))
      /\ fromReader' = Tail(fromReader)
      /\ handler' = IF flags > 0 THEN "flag" ELSE "select"
      /\ UNCHANGED <<pc, watched, masked, outgoing, output_queue, pending, reader, toWriter,
                     flags, onLink, muxin, muxout>>
  BY DEF ReceiveNextPacket, mainVars
<1>2. Head(fromReader) \in Packets /\ Tail(fromReader) \in Seq(Packets)
  BY <1>1 DEF Pipes
<1>3. RingOK(input_queue', input_queue_size)
  BY <1>1, <1>2, Sizes, PushKeeps DEF Rings
<1>4. Control'
  BY <1>1 DEF Control
<1>5. Pipes'
  BY <1>1, <1>2 DEF Pipes
<1>6. Rings'
  BY <1>1, <1>3 DEF Rings
<1>7. Sends'
  BY <1>1 DEF Sends
<1> QED
  BY <1>4, <1>5, <1>6, <1>7

LEMMA DMAFinishedKeeps ==
  ASSUME IInv, DMAFinished PROVE IInv'
<1> USE DEF IInv
<1>1. /\ handler = "flag" \/ (handler = "select" /\ flags > 0)
      /\ flags' = flags - 1
      /\ IF IsEmpty(output_queue)
           THEN handler' = "select" /\ UNCHANGED <<output_queue, outgoing>>
           ELSE /\ handler' = "write"
                /\ outgoing' = NextPacket(output_queue)
                /\ output_queue' = PullPacket(output_queue)
      /\ UNCHANGED <<pc, watched, masked, input_queue, pending, reader, fromReader,
                     toWriter, onLink, muxin, muxout>>
  BY DEF DMAFinished
<1>2. flags' \in 0 .. FlagRoom
  BY <1>1, Sizes DEF Sends, Pipes
<1>3. Pipes'
  BY <1>1, <1>2 DEF Pipes
<1>4. CASE IsEmpty(output_queue)
  <2>1. Control'
    BY <1>1, <1>4 DEF Control
  <2>2. Rings'
    BY <1>1, <1>4 DEF Rings
  <2>3. Sends'
    BY <1>1, <1>4 DEF Sends
  <2> QED
    BY <1>3, <2>1, <2>2, <2>3
<1>5. CASE ~ IsEmpty(output_queue)
  <2>1. /\ RingOK(PullPacket(output_queue), output_queue_size)
        /\ NextPacket(output_queue) \in Packets
        /\ Pending(PullPacket(output_queue)) = Pending(output_queue) - 1
    BY <1>5, Sizes, PullKeeps DEF Rings
  <2>2. Pending(PullPacket(output_queue)) <= 1
    <3>1. Pending(output_queue) \in Nat
      BY Sizes, NumitemsIsOffByOne DEF Rings
    <3> QED
      BY <2>1, <3>1 DEF Rings
  <2>3. Control'
    BY <1>1, <1>5 DEF Control
  <2>4. Rings'
    BY <1>1, <1>5, <2>1, <2>2 DEF Rings
  <2>5. Sends'
    BY <1>1, <1>5, <2>1 DEF Sends
  <2> QED
    BY <1>3, <2>3, <2>4, <2>5
<1> QED
  BY <1>4, <1>5

LEMMA HandlerWritesKeeps ==
  ASSUME IInv, HandlerWrites PROVE IInv'
<1> USE DEF IInv
<1>1. /\ handler = "write" /\ handler' = "select"
      /\ toWriter' = Append(toWriter, outgoing)
      /\ outgoing' = NoPacket
      /\ UNCHANGED <<pc, watched, masked, input_queue, output_queue, pending,
                     reader, fromReader, flags, onLink, muxin, muxout>>
  BY DEF HandlerWrites
<1>2. outgoing \in Packets
  BY <1>1 DEF Sends
<1>3. Control'
  BY <1>1 DEF Control
<1>4. Pipes'
  BY <1>1, <1>2 DEF Pipes
<1>5. Rings'
  BY <1>1 DEF Rings
<1>6. Sends'
  BY <1>1 DEF Sends
<1> QED
  BY <1>3, <1>4, <1>5, <1>6

LEMMA HandlerReturnsKeeps ==
  ASSUME IInv, HandlerReturns PROVE IInv'
<1> USE DEF IInv
<1>1. /\ handler = "select" /\ handler' = "off"
      /\ UNCHANGED <<pc, watched, masked, outgoing, input_queue, output_queue, pending,
                     reader, fromReader, toWriter, flags, onLink, muxin, muxout>>
  BY DEF HandlerReturns, mainVars, deviceVars
<1>2. Control'
  BY <1>1 DEF Control
<1>3. Pipes'
  BY <1>1 DEF Pipes
<1>4. Rings'
  BY <1>1 DEF Rings
<1>5. Sends'
  BY <1>1 DEF Sends
<1> QED
  BY <1>2, <1>3, <1>4, <1>5

(***************************************************************************)
(* The other processes. They leave the rings and the loops alone, and take *)
(* nothing that the main loop is about to read.                            *)
(***************************************************************************)
LEMMA OthersKeep ==
  ASSUME IInv,
         UNCHANGED <<pc, watched, masked, outgoing, input_queue, output_queue, handler>>,
         pending' \in BOOLEAN, reader' \in {"capture", "signal"},
         Pipes', muxin # <<>> => muxin' # <<>>, flags > 0 => flags' > 0
  PROVE  IInv'
<1> USE DEF IInv
<1>1. Control'
  BY DEF Control
<1>2. Rings'
  BY DEF Rings
<1>3. Sends'
  BY DEF Sends
<1> QED
  BY <1>1, <1>2, <1>3

LEMMA ReaderKeeps ==
  ASSUME IInv, Reader PROVE IInv'
<1>1. CASE Signal
  <2>1. Pipes'
    BY <1>1 DEF Signal, IInv, Pipes
  <2> QED
    BY <1>1, <2>1, OthersKeep DEF Signal, mainVars
<1>2. ASSUME NEW p \in Captures, Capture(p) PROVE IInv'
  <2>1. Pipes'
    BY <1>2 DEF Capture, IInv, Pipes, Packets
  <2>2. pending' \in BOOLEAN
    BY <1>2 DEF Capture, IInv, Control, handlerVars
  <2> QED
    BY <1>2, <2>1, <2>2, OthersKeep DEF Capture, mainVars, handlerVars
<1> QED
  BY <1>1, <1>2 DEF Reader

LEMMA WriterKeeps ==
  ASSUME IInv, Writer PROVE IInv'
<1>1. CASE Launch
  <2>1. Pipes'
    BY <1>1, Sizes DEF Launch, IInv, Pipes
  <2>2. pending' \in BOOLEAN /\ reader' \in {"capture", "signal"}
    BY <1>1 DEF Launch, IInv, Control, handlerVars
  <2>3. flags > 0 => flags' > 0
    BY <1>1, Sizes DEF Launch, IInv, Pipes
  <2> QED
    BY <1>1, <2>1, <2>2, <2>3, OthersKeep DEF Launch, mainVars, handlerVars
<1>2. CASE Discard
  <2>1. Pipes'
    BY <1>2 DEF Discard, IInv, Pipes
  <2>2. pending' \in BOOLEAN /\ reader' \in {"capture", "signal"}
    BY <1>2 DEF Discard, IInv, Control, handlerVars
  <2> QED
    BY <1>2, <2>1, <2>2, OthersKeep DEF Discard, mainVars, handlerVars
<1> QED
  BY <1>1, <1>2 DEF Writer

LEMMA MuxKeeps ==
  ASSUME IInv, Mux PROVE IInv'
<1>1. CASE MuxReads
  <2>1. Pipes'
    BY <1>1 DEF MuxReads, IInv, Pipes, deviceVars
  <2>2. pending' \in BOOLEAN /\ reader' \in {"capture", "signal"}
    BY <1>1 DEF MuxReads, IInv, Control, handlerVars, deviceVars
  <2> QED
    BY <1>1, <2>1, <2>2, OthersKeep DEF MuxReads, mainVars, handlerVars, deviceVars
<1>2. ASSUME NEW p \in Writes, MuxWrites(p) PROVE IInv'
  <2>1. Pipes' /\ muxin' # <<>>
    BY <1>2 DEF MuxWrites, IInv, Pipes, Packets, deviceVars
  <2>2. pending' \in BOOLEAN /\ reader' \in {"capture", "signal"}
    BY <1>2 DEF MuxWrites, IInv, Control, handlerVars, deviceVars
  <2> QED
    BY <1>2, <2>1, <2>2, OthersKeep DEF MuxWrites, mainVars, handlerVars, deviceVars
<1> QED
  BY <1>1, <1>2 DEF Mux

LEMMA Inductive == IInv /\ [Next]_vars => IInv'
<1> SUFFICES ASSUME IInv, [Next]_vars PROVE IInv'
  OBVIOUS
<1>1. CASE Main
  BY <1>1, PrepareKeeps, CriticalSectionKeeps, InputFromMuxKeeps, WriteNextPacketKeeps DEF Main
<1>2. CASE Handler
  BY <1>2, InterruptKeeps, ReceiveKeeps, DMAFinishedKeeps, HandlerWritesKeeps,
     HandlerReturnsKeeps DEF Handler
<1>3. CASE UNCHANGED vars
  <2>1. Pipes' /\ pending' \in BOOLEAN /\ reader' \in {"capture", "signal"}
    BY <1>3 DEF vars, deviceVars, handlerVars, IInv, Pipes, Control
  <2> QED
    BY <1>3, <2>1, OthersKeep DEF vars, mainVars, handlerVars, deviceVars
<1> QED
  BY <1>1, <1>2, <1>3, ReaderKeeps, WriterKeeps, MuxKeeps DEF Next

LEMMA Invariant == Spec => []IInv
BY InitInv, Inductive, PTL DEF Spec

(***************************************************************************)
(* What follows.                                                           *)
(***************************************************************************)
\* The variables have their types; in particular no slot is read that holds
\* no packet (device_driver.cc:186, ethernet.cc:303).
THEOREM TypeCorrect == Spec => []TypeOK
<1>1. IInv => TypeOK
  BY DEF IInv, Control, Pipes, Rings, RingOK, Sends, TypeOK
<1> QED
  BY <1>1, Invariant, PTL

\* The assertion of EthernetInitiateSend (ethernet.cc:301) never fails.
THEOREM SendsApart == Spec => []SendsDoNotOverlap
<1>1. IInv => SendsDoNotOverlap
  BY DEF IInv, Control, Sends, SendsDoNotOverlap
<1> QED
  BY <1>1, Invariant, PTL

\* Although Numitems counts wrong (raw_ethernet_packet_buffer.cc:53-56), one
\* packet at most stays behind in the output queue.
THEOREM LagsByOne == Spec => []OutputLagsByOne
<1>1. IInv => OutputLagsByOne
  BY DEF IInv, Rings, OutputLagsByOne
<1> QED
  BY <1>1, Invariant, PTL

-----------------------------------------------------------------------------
(***************************************************************************)
(* What a ring holds, as a sequence.                                       *)
(***************************************************************************)
LEMMA SlotIsInUse ==
  ASSUME NEW n, Size(n), NEW b, RingOK(b, n), NEW i \in 1 .. Pending(b)
  PROVE  Slot(b, i) \in 0 .. n - 1 /\ InUse(b, Slot(b, i))
BY RingIndices DEF Slot, InUse, Pending

LEMMA ContentsAre ==
  ASSUME NEW n, Size(n), NEW b, RingOK(b, n)
  PROVE  /\ Pending(b) \in Nat
         /\ Contents(b) \in Seq(Packets)
         /\ Len(Contents(b)) = Pending(b)
         /\ \A i \in 1 .. Pending(b) : Contents(b)[i] = b.packet[Slot(b, i)]
<1>1. Pending(b) \in Nat
  BY NumitemsIsOffByOne
<1>2. \A i \in 1 .. Pending(b) : b.packet[Slot(b, i)] \in Packets
  BY SlotIsInUse DEF RingOK
<1>3. Contents(b) \in [1 .. Pending(b) -> Packets]
  BY <1>2 DEF Contents
<1>4. Contents(b) \in Seq(Packets)
  BY <1>1, <1>3, SeqDef
<1>5. Len(Contents(b)) = Pending(b)
  BY <1>1, <1>3, <1>4, LenProperties
<1> QED
  BY <1>1, <1>4, <1>5 DEF Contents

LEMMA EmptyContents ==
  ASSUME NEW n, Size(n), NEW b, RingOK(b, n), Pending(b) = 0
  PROVE  Contents(b) = <<>>
BY ContentsAre

LEMMA PushContents ==
  ASSUME NEW n, Size(n), NEW b, RingOK(b, n), NEW p \in Packets
  PROVE  Contents(PushPacket(b, p)) \in {Append(Contents(b), p), Contents(b)}
<1>1. CASE IsFull(b)
  BY <1>1 DEF PushPacket
<1>2. CASE ~ IsFull(b)
  <2> DEFINE c == PushPacket(b, p)
  <2>1. /\ c.bufsize = n /\ c.curout = b.curout /\ c.curin # b.curout
        /\ c.curin = IF b.curin + 1 = n THEN 0 ELSE b.curin + 1
        /\ c.packet = [b.packet EXCEPT ![b.curin] = p]
    BY <1>2, PushIs
  <2>2. RingOK(c, n)
    BY PushKeeps
  <2> HIDE DEF c
  <2>3. Pending(c) = Pending(b) + 1
    BY <2>1, RingIndices DEF Pending
  <2>4. /\ Append(Contents(b), p) \in Seq(Packets)
        /\ Len(Append(Contents(b), p)) = Pending(c)
        /\ \A i \in 1 .. Pending(b) : Append(Contents(b), p)[i] = b.packet[Slot(b, i)]
        /\ Append(Contents(b), p)[Pending(c)] = p
    BY <2>3, ContentsAre, AppendProperties
  <2>5. ASSUME NEW i \in 1 .. Pending(c)
        PROVE  Contents(c)[i] = Append(Contents(b), p)[i]
    <3>1. Contents(c)[i] = c.packet[Slot(c, i)] /\ Pending(b) \in Nat
      BY <2>2, ContentsAre
    <3>2. Slot(c, i) = Slot(b, i)
      BY <2>1, RingIndices DEF Slot
    <3>3. CASE i = Pending(c)
      <4>1. Slot(b, i) = b.curin
        BY <2>1, <2>3, <3>3, RingIndices DEF Slot, Pending
      <4>2. c.packet[b.curin] = p
        BY <2>1, RingIndices DEF RingOK, BufferOK
      <4> QED
        BY <2>4, <3>1, <3>2, <3>3, <4>1, <4>2
    <3>4. CASE i \in 1 .. Pending(b)
      <4>1. Slot(b, i) \in 0 .. n - 1 /\ Slot(b, i) # b.curin
        BY <3>4, SlotIsInUse, RingIndices DEF InUse
      <4>2. c.packet[Slot(b, i)] = b.packet[Slot(b, i)]
        BY <2>1, <4>1 DEF RingOK, BufferOK
      <4> QED
        BY <2>4, <3>1, <3>2, <3>4, <4>2
    <3>5. i = Pending(c) \/ i \in 1 .. Pending(b)
      BY <2>3, <3>1
    <3> QED
      BY <3>3, <3>4, <3>5
  <2>6. Contents(c) = Append(Contents(b), p)
    BY <2>2, <2>4, <2>5, ContentsAre, SeqEqual
  <2> QED
    BY <2>6 DEF c
<1> QED
  BY <1>1, <1>2

LEMMA PullContents ==
  ASSUME NEW n, Size(n), NEW b, RingOK(b, n), ~ IsEmpty(b)
  PROVE  /\ Contents(b) # <<>>
         /\ Head(Contents(b)) = NextPacket(b)
         /\ Contents(PullPacket(b)) = Tail(Contents(b))
<1> DEFINE c == PullPacket(b)
<1>1. /\ c.bufsize = n /\ c.curin = b.curin /\ b.curin # b.curout
      /\ c.curout = IF b.curout + 1 = n THEN 0 ELSE b.curout + 1
      /\ c.packet = [b.packet EXCEPT ![b.curout] = NoPacket]
  BY PullIs DEF IsEmpty
<1>2. RingOK(c, n) /\ Pending(c) = Pending(b) - 1
  BY PullKeeps
<1> HIDE DEF c
<1>3. Pending(b) \in Nat /\ Pending(b) > 0
  BY <1>1, RingIndices DEF Pending
<1>4. Contents(b) # <<>> /\ Head(Contents(b)) = NextPacket(b)
  <2>1. Slot(b, 1) = b.curout
    BY RingIndices DEF Slot
  <2> QED
    BY <1>3, <2>1, ContentsAre DEF NextPacket
<1>5. /\ Tail(Contents(b)) \in Seq(Packets)
      /\ Len(Tail(Contents(b))) = Pending(c)
      /\ \A i \in 1 .. Pending(c) : Tail(Contents(b))[i] = Contents(b)[i + 1]
  BY <1>2, <1>4, ContentsAre, HeadTailProperties
<1>6. ASSUME NEW i \in 1 .. Pending(c)
      PROVE  Contents(c)[i] = Tail(Contents(b))[i]
  <2>1. i + 1 \in 1 .. Pending(b)
    BY <1>2, <1>3
  <2>2. Slot(b, i + 1) \in 0 .. n - 1 /\ Slot(b, i + 1) # b.curout
    BY <1>1, <1>2, <1>3, RingIndices DEF Slot, Pending
  <2>3. Slot(c, i) = Slot(b, i + 1)
    BY <1>1, <1>2, <1>3, RingIndices DEF Slot, Pending
  <2>4. c.packet[Slot(b, i + 1)] = b.packet[Slot(b, i + 1)]
    BY <1>1, <2>2 DEF RingOK, BufferOK
  <2> QED
    BY <1>2, <1>5, <2>1, <2>3, <2>4, ContentsAre
<1>7. Contents(c) = Tail(Contents(b))
  BY <1>2, <1>5, <1>6, ContentsAre, SeqEqual
<1> QED
  BY <1>4, <1>7 DEF c

(***************************************************************************)
(* Sequences.                                                              *)
(***************************************************************************)
LEMMA HeadAndTail ==
  ASSUME NEW S, NEW s \in Seq(S), s # <<>>
  PROVE  s = <<Head(s)>> \o Tail(s)
<1>1. Head(s) \in S /\ Tail(s) \in Seq(S) /\ Len(Tail(s)) = Len(s) - 1
      /\ \A i \in 1 .. Len(Tail(s)) : Tail(s)[i] = s[i + 1]
  BY HeadTailProperties
<1>2. <<Head(s)>> \in Seq(S) /\ Len(<<Head(s)>>) = 1
  BY <1>1
<1>3. /\ <<Head(s)>> \o Tail(s) \in Seq(S)
      /\ Len(<<Head(s)>> \o Tail(s)) = Len(s)
      /\ \A i \in 1 .. Len(s) : (<<Head(s)>> \o Tail(s))[i] = s[i]
  BY <1>1, <1>2, ConcatProperties
<1> QED
  BY <1>3, SeqEqual

\* What goes from the head of one queue to the end of the one before it stays
\* where it is in both together.
LEMMA PassedOn ==
  ASSUME NEW S, NEW s \in Seq(S), NEW t \in Seq(S), t # <<>>
  PROVE  Append(s, Head(t)) \o Tail(t) = s \o t
<1>1. Head(t) \in S /\ Tail(t) \in Seq(S) /\ t = <<Head(t)>> \o Tail(t)
  BY HeadTailProperties, HeadAndTail
<1>2. Append(s, Head(t)) = s \o <<Head(t)>> /\ <<Head(t)>> \in Seq(S)
  BY <1>1, AppendIsConcat
<1> QED
  BY <1>1, <1>2, ConcatAssociative

LEMMA AppendedAtTheEnd ==
  ASSUME NEW S, NEW s \in Seq(S), NEW t \in Seq(S), NEW e \in S
  PROVE  s \o Append(t, e) = Append(s \o t, e)
<1>1. Append(t, e) = t \o <<e>> /\ <<e>> \in Seq(S) /\ s \o t \in Seq(S)
  BY AppendIsConcat, ConcatProperties
<1>2. Append(s \o t, e) = (s \o t) \o <<e>>
  BY <1>1, AppendIsConcat
<1> QED
  BY <1>1, <1>2, ConcatAssociative

\* The first of two queues that loses its head.
LEMMA TakenFromTheFront ==
  ASSUME NEW S, NEW s \in Seq(S), NEW t \in Seq(S), s # <<>>
  PROVE  /\ s \o t # <<>>
         /\ Head(s \o t) = Head(s)
         /\ Tail(s \o t) = Tail(s) \o t
<1>1. /\ s \o t \in Seq(S) /\ Len(s \o t) = Len(s) + Len(t)
      /\ \A i \in 1 .. Len(s) + Len(t) :
           (s \o t)[i] = IF i <= Len(s) THEN s[i] ELSE t[i - Len(s)]
  BY ConcatProperties
<1>2. Len(s) \in Nat /\ Len(s) > 0 /\ Len(t) \in Nat
  BY EmptySeq, LenProperties
<1>3. s \o t # <<>> /\ Head(s \o t) = Head(s)
  BY <1>1, <1>2
<1>4. /\ Tail(s) \in Seq(S) /\ Len(Tail(s)) = Len(s) - 1
      /\ \A i \in 1 .. Len(Tail(s)) : Tail(s)[i] = s[i + 1]
  BY HeadTailProperties
<1>5. /\ Tail(s \o t) \in Seq(S) /\ Len(Tail(s \o t)) = Len(s) + Len(t) - 1
      /\ \A i \in 1 .. Len(Tail(s \o t)) : Tail(s \o t)[i] = (s \o t)[i + 1]
  BY <1>1, <1>3, HeadTailProperties
<1>6. /\ Tail(s) \o t \in Seq(S) /\ Len(Tail(s) \o t) = Len(s) + Len(t) - 1
      /\ \A i \in 1 .. Len(Tail(s) \o t) :
           (Tail(s) \o t)[i] = IF i <= Len(s) - 1 THEN Tail(s)[i] ELSE t[i - (Len(s) - 1)]
  BY <1>2, <1>4, ConcatProperties
<1>7. ASSUME NEW i \in 1 .. Len(s) + Len(t) - 1
      PROVE  Tail(s \o t)[i] = (Tail(s) \o t)[i]
  <2>1. i + 1 \in 1 .. Len(s) + Len(t)
    BY <1>2
  <2>2. Tail(s \o t)[i] = IF i + 1 <= Len(s) THEN s[i + 1] ELSE t[i + 1 - Len(s)]
    BY <1>1, <1>5, <2>1
  <2>3. (Tail(s) \o t)[i] = IF i <= Len(s) - 1 THEN Tail(s)[i] ELSE t[i - (Len(s) - 1)]
    BY <1>6
  <2>4. i <= Len(s) - 1 => Tail(s)[i] = s[i + 1]
    BY <1>2, <1>4
  <2>5. i - (Len(s) - 1) = i + 1 - Len(s) /\ (i + 1 <= Len(s) <=> i <= Len(s) - 1)
    BY <1>2
  <2> QED
    BY <2>2, <2>3, <2>4, <2>5
<1>8. Tail(s \o t) = Tail(s) \o t
  BY <1>5, <1>6, <1>7, SeqEqual
<1> QED
  BY <1>3, <1>8

LEMMA RemoveAtIs ==
  ASSUME NEW q, NEW k
  PROVE  Service!RemoveAt(q, k) = SubSeq(q, 1, k - 1) \o SubSeq(q, k + 1, Len(q))
BY DEF Service!RemoveAt

\* Losing the first, and losing the head of the second.
LEMMA FirstRemoved ==
  ASSUME NEW S, NEW s \in Seq(S), s # <<>>
  PROVE  1 \in DOMAIN s /\ Service!RemoveAt(s, 1) = Tail(s)
<1>1. Len(s) \in Nat /\ Len(s) > 0 /\ DOMAIN s = 1 .. Len(s)
  BY EmptySeq, LenProperties
<1>2. Tail(s) = SubSeq(s, 2, Len(s)) /\ Tail(s) \in Seq(S)
  BY TailIsSubSeq, HeadTailProperties
<1>3. SubSeq(s, 1, 0) = <<>>
  BY SubSeqEmpty
<1>4. <<>> \o Tail(s) = Tail(s)
  BY <1>2, ConcatEmptySeq
<1> QED
  BY <1>1, <1>2, <1>3, <1>4 DEF Service!RemoveAt

LEMMA HeadOfSecondRemoved ==
  ASSUME NEW S, NEW s \in Seq(S), NEW t \in Seq(S), t # <<>>
  PROVE  /\ Len(s) + 1 \in DOMAIN (s \o t)
         /\ Service!RemoveAt(s \o t, Len(s) + 1) = s \o Tail(t)
<1>1. /\ s \o t \in Seq(S) /\ Len(s \o t) = Len(s) + Len(t)
      /\ \A i \in 1 .. Len(s) + Len(t) :
           (s \o t)[i] = IF i <= Len(s) THEN s[i] ELSE t[i - Len(s)]
  BY ConcatProperties
<1>2. Len(s) \in Nat /\ Len(t) \in Nat /\ Len(t) > 0
  BY EmptySeq, LenProperties
<1>3. Len(s) + 1 \in DOMAIN (s \o t)
  BY <1>1, <1>2, LenProperties
<1>4. SubSeq(s \o t, 1, Len(s)) = s
  <2>1. \A i \in 1 .. Len(s) : (s \o t)[i] \in S
    BY <1>1, <1>2, ElementOfSeq
  <2>2. /\ SubSeq(s \o t, 1, Len(s)) \in Seq(S)
        /\ Len(SubSeq(s \o t, 1, Len(s))) = Len(s)
        /\ \A i \in 1 .. Len(s) : SubSeq(s \o t, 1, Len(s))[i] = (s \o t)[i]
    BY <1>2, <2>1, SubSeqProperties
  <2> QED
    BY <1>1, <1>2, <2>2, SeqEqual
<1>5. SubSeq(s \o t, Len(s) + 2, Len(s) + Len(t)) = Tail(t)
  <2>1. CASE Len(t) = 1
    <3>1. Tail(t) \in Seq(S) /\ Len(Tail(t)) = 0
      BY <2>1, HeadTailProperties
    <3>2. Tail(t) = <<>>
      BY <3>1, EmptySeq
    <3> QED
      BY <1>2, <2>1, <3>2, SubSeqEmpty
  <2>2. CASE Len(t) # 1
    <3>1. SubSeq(s \o t, Len(s) + 2, Len(s) + Len(t)) = SubSeq(t, 2, Len(t))
      BY <1>2, <2>2, SubSeqOfConcat2
    <3> QED
      BY <3>1, TailIsSubSeq
  <2> QED
    BY <2>1, <2>2
<1> DEFINE q == s \o t
           k == Len(s) + 1
<1>6. k - 1 = Len(s) /\ k + 1 = Len(s) + 2 /\ Len(q) = Len(s) + Len(t)
  BY <1>1, <1>2
<1> HIDE DEF q, k
<1>7. Service!RemoveAt(q, k) = SubSeq(q, 1, k - 1) \o SubSeq(q, k + 1, Len(q))
  BY RemoveAtIs
<1>8. Service!RemoveAt(q, k) = SubSeq(q, 1, Len(s)) \o SubSeq(q, Len(s) + 2, Len(s) + Len(t))
  BY <1>6, <1>7
<1> QED
  BY <1>3, <1>4, <1>5, <1>8 DEF q, k

(***************************************************************************)
(* The mapping, in a state that satisfies the invariant and in the next.   *)
(***************************************************************************)
Up == Contents(input_queue) \o fromReader
Rest == Outgoing \o Contents(output_queue)

LEMMA Queues ==
  ASSUME IInv
  PROVE  /\ Contents(input_queue) \in Seq(Packets)
         /\ Contents(output_queue) \in Seq(Packets)
         /\ fromReader \in Seq(Packets) /\ toWriter \in Seq(Packets)
         /\ Outgoing \in Seq(Packets)
         /\ Up \in Seq(Packets) /\ Rest \in Seq(Packets)
<1>1. /\ Contents(input_queue) \in Seq(Packets)
      /\ Contents(output_queue) \in Seq(Packets)
  BY Sizes, ContentsAre DEF IInv, Rings
<1>2. fromReader \in Seq(Packets) /\ toWriter \in Seq(Packets)
  BY DEF IInv, Pipes
<1>3. Outgoing \in Seq(Packets)
  <2>1. outgoing \in Packets \cup {NoPacket}
    BY DEF IInv, Sends
  <2> QED
    BY <2>1 DEF Outgoing
<1>4. Up \in Seq(Packets) /\ Rest \in Seq(Packets)
  BY <1>1, <1>2, <1>3, ConcatProperties DEF Up, Rest
<1> QED
  BY <1>1, <1>2, <1>3, <1>4

Down == toWriter \o Outgoing \o Contents(output_queue)

LEMMA DownIs == ASSUME IInv PROVE Down = toWriter \o Rest /\ Down \in Seq(Packets)
<1>1. /\ toWriter \in Seq(Packets) /\ Outgoing \in Seq(Packets)
      /\ Contents(output_queue) \in Seq(Packets)
  BY Queues
<1>2. Down = toWriter \o Rest
  BY <1>1, ConcatAssociative DEF Down, Rest
<1> QED
  BY <1>2, Queues, ConcatProperties

LEMMA NextDownIs == ASSUME IInv' PROVE Down' = toWriter' \o Rest'
<1>1. Contents(output_queue') \in Seq(Packets)
  BY Sizes, ContentsAre DEF IInv, Rings
<1>2. toWriter' \in Seq(Packets)
  BY DEF IInv, Pipes
<1>3. Outgoing' \in Seq(Packets)
  <2>1. outgoing' \in Packets \cup {NoPacket}
    BY DEF IInv, Sends
  <2> QED
    BY <2>1 DEF Outgoing
<1> QED
  BY <1>1, <1>2, <1>3, ConcatAssociative DEF Down, Rest

\* The mapping leaves nothing of DriverService but these.
Same == UNCHANGED <<Up, Down, muxin, muxout, onLink>>
Step == Service!Next \/ Same

LEMMA NoPacketIsNoPacket == NoPacket \notin Packets
BY LegacyDriverAssumption DEF Packets

(***************************************************************************)
(* The main loop: Delivered, and Taken.                                    *)
(***************************************************************************)
LEMMA CriticalSectionImplements == ASSUME IInv, CriticalSection PROVE Step
<1>1. UNCHANGED <<outgoing, output_queue, fromReader, toWriter, muxin, onLink>>
  BY DEF CriticalSection, deviceVars
<1>2. Down' = Down
  BY <1>1 DEF Down, Outgoing
<1>3. CASE "muxout" \in Ready /\ ~ IsEmpty(input_queue)
  <2>1. muxout' = Append(muxout, NextPacket(input_queue)) /\ input_queue' = PullPacket(input_queue)
    BY <1>3 DEF CriticalSection
  <2>2. /\ Contents(input_queue) # <<>>
        /\ Head(Contents(input_queue)) = NextPacket(input_queue)
        /\ Contents(input_queue') = Tail(Contents(input_queue))
    BY <1>3, <2>1, Sizes, PullContents DEF IInv, Rings
  <2>3. /\ Up # <<>>
        /\ Head(Up) = NextPacket(input_queue)
        /\ Tail(Up) = Tail(Contents(input_queue)) \o fromReader
    BY <2>2, Queues, TakenFromTheFront DEF Up
  <2>4. Up' = Tail(Up)
    BY <1>1, <2>2, <2>3 DEF Up
  <2>5. Service!Delivered
    BY <1>1, <1>2, <2>1, <2>3, <2>4 DEF Service!Delivered, Up, Down
  <2> QED
    BY <2>5 DEF Step, Service!Next
<1>4. CASE ~ ("muxout" \in Ready /\ ~ IsEmpty(input_queue))
  <2>1. muxout' = muxout /\ input_queue' = input_queue
    BY <1>4 DEF CriticalSection
  <2>2. Up' = Up
    BY <1>1, <2>1 DEF Up
  <2> QED
    BY <1>1, <1>2, <2>1, <2>2 DEF Step, Same
<1> QED
  BY <1>3, <1>4

LEMMA InputFromMuxImplements == ASSUME IInv, IInv', InputFromMux PROVE Step
<1> DEFINE p == Head(muxin)
           queue == PushPacket(output_queue, p)
<1>1. /\ pc = "in"
      /\ muxin' = Tail(muxin)
      /\ UNCHANGED <<input_queue, fromReader, toWriter, onLink, muxout>>
      /\ IF StartsSend(queue)
           THEN output_queue' = PullPacket(queue) /\ outgoing' = NextPacket(queue)
           ELSE output_queue' = queue /\ outgoing' = outgoing
  BY DEF InputFromMux, deviceVars
<1>2. muxin # <<>> /\ p \in Packets /\ outgoing = NoPacket
  <2>1. muxin # <<>> /\ outgoing = NoPacket
    BY <1>1 DEF IInv, Sends, Control
  <2> QED
    BY <2>1 DEF IInv, Pipes
<1>3. RingOK(queue, output_queue_size)
  BY <1>2, Sizes, PushKeeps DEF IInv, Rings
<1>4. Contents(queue) \in {Append(Contents(output_queue), p), Contents(output_queue)}
  BY <1>2, Sizes, PushContents DEF IInv, Rings
<1>5. Rest = Contents(output_queue)
  BY <1>2, Queues, ConcatEmptySeq DEF Rest, Outgoing
<1> HIDE DEF p, queue
<1>6. Contents(queue) \in Seq(Packets)
  BY <1>3, Sizes, ContentsAre
<1>7. Rest' = Contents(queue)
  <2>1. CASE StartsSend(queue)
    <3>1. ~ IsEmpty(queue)
      BY <1>3, <2>1, Sizes, NumitemsIsOffByOne DEF StartsSend
    <3>2. /\ Contents(queue) # <<>>
          /\ outgoing' = Head(Contents(queue))
          /\ Contents(output_queue') = Tail(Contents(queue))
      BY <1>1, <1>3, <2>1, <3>1, Sizes, PullContents
    <3>3. outgoing' \in Packets
      BY <1>6, <3>2, HeadTailProperties
    <3>4. Outgoing' = <<Head(Contents(queue))>>
      BY <3>2, <3>3, NoPacketIsNoPacket DEF Outgoing
    <3> QED
      BY <1>6, <3>2, <3>4, HeadAndTail DEF Rest
  <2>2. CASE ~ StartsSend(queue)
    <3>1. Outgoing' = <<>> /\ output_queue' = queue
      BY <1>1, <1>2, <2>2 DEF Outgoing
    <3> QED
      BY <1>6, <3>1, ConcatEmptySeq DEF Rest
  <2> QED
    BY <2>1, <2>2
<1>8. Down' \in {Append(Down, p), Down}
  <2>1. Down' = toWriter \o Rest'
    BY <1>1, NextDownIs
  <2>2. Rest' \in {Append(Rest, p), Rest}
    BY <1>4, <1>5, <1>7
  <2>3. toWriter \o Append(Rest, p) = Append(toWriter \o Rest, p)
    BY <1>2, Queues, AppendedAtTheEnd
  <2> QED
    BY <2>1, <2>2, <2>3, DownIs
<1>9. Up' = Up
  BY <1>1 DEF Up
<1>10. Service!Taken
  BY <1>1, <1>2, <1>8, <1>9 DEF Service!Taken, Up, Down, p
<1> QED
  BY <1>10 DEF Step, Service!Next

\* A write moves the packet in hand into the writer's socket.
LEMMA WriteImplements ==
  ASSUME IInv, IInv', outgoing \in Packets,
         toWriter' = Append(toWriter, outgoing), outgoing' = NoPacket,
         UNCHANGED <<input_queue, output_queue, fromReader, onLink, muxin, muxout>>
  PROVE  Step
<1>1. Outgoing = <<outgoing>> /\ Outgoing' = <<>>
  BY NoPacketIsNoPacket DEF Outgoing
<1>2. toWriter' = toWriter \o Outgoing /\ toWriter' \in Seq(Packets)
  BY <1>1, Queues, AppendIsConcat, AppendProperties
<1>3. toWriter' \o <<>> = toWriter'
  BY <1>2, ConcatEmptySeq
<1>4. Down' = Down
  BY <1>1, <1>2, <1>3 DEF Down
<1>5. Up' = Up
  BY DEF Up
<1> QED
  BY <1>4, <1>5 DEF Step, Same

LEMMA MainImplements == ASSUME IInv, IInv', Main PROVE Step
<1>1. CASE Prepare
  BY <1>1 DEF Prepare, handlerVars, deviceVars, Step, Same, Up, Down, Outgoing
<1>2. CASE WriteNextPacket
  <2>1. outgoing \in Packets
    BY <1>2 DEF WriteNextPacket, IInv, Sends
  <2> QED
    BY <1>2, <2>1, WriteImplements DEF WriteNextPacket
<1> QED
  BY <1>1, <1>2, CriticalSectionImplements, InputFromMuxImplements DEF Main

(***************************************************************************)
(* The handler: Lost, when a ring is full.                                 *)
(***************************************************************************)
LEMMA ReceiveImplements == ASSUME IInv, ReceiveNextPacket PROVE Step
<1> DEFINE p == Head(fromReader)
<1>1. /\ fromReader # <<>>
      /\ input_queue' = PushPacket(input_queue, p)
      /\ fromReader' = Tail(fromReader)
      /\ UNCHANGED <<outgoing, output_queue, toWriter, onLink, muxin, muxout>>
  BY DEF ReceiveNextPacket, mainVars
<1>2. Down' = Down
  BY <1>1 DEF Down, Outgoing
<1>3. p \in Packets
  BY <1>1, Queues, HeadTailProperties
<1>4. Contents(input_queue') \in {Append(Contents(input_queue), p), Contents(input_queue)}
  BY <1>1, <1>3, Sizes, PushContents DEF IInv, Rings
<1>5. CASE Contents(input_queue') = Append(Contents(input_queue), p)
  <2>1. Append(Contents(input_queue), p) \o Tail(fromReader)
          = Contents(input_queue) \o fromReader
    BY <1>1, Queues, PassedOn
  <2>2. Up' = Up
    BY <1>1, <1>5, <2>1 DEF Up
  <2> QED
    BY <1>1, <1>2, <2>2 DEF Step, Same
<1>6. CASE Contents(input_queue') = Contents(input_queue)
  <2> DEFINE i == Len(Contents(input_queue)) + 1
  <2>1. /\ i \in DOMAIN Up
        /\ Service!RemoveAt(Up, i) = Contents(input_queue) \o Tail(fromReader)
    BY <1>1, Queues, HeadOfSecondRemoved DEF Up
  <2>2. Up' = Service!RemoveAt(Up, i)
    BY <1>1, <1>6, <2>1 DEF Up
  <2> HIDE DEF i
  <2>3. Service!Lost
    BY <1>1, <1>2, <2>1, <2>2 DEF Service!Lost, Up, Down
  <2> QED
    BY <2>3 DEF Step, Service!Next
<1> QED
  BY <1>4, <1>5, <1>6

LEMMA DMAFinishedImplements == ASSUME IInv, DMAFinished PROVE Step
<1>1. /\ UNCHANGED <<input_queue, fromReader, toWriter, onLink, muxin, muxout>>
      /\ outgoing = NoPacket
      /\ IF IsEmpty(output_queue)
           THEN UNCHANGED <<output_queue, outgoing>>
           ELSE outgoing' = NextPacket(output_queue) /\ output_queue' = PullPacket(output_queue)
  BY DEF DMAFinished, IInv, Sends, Control
<1>2. Up' = Up
  BY <1>1 DEF Up
<1>3. Rest' = Rest
  <2>1. CASE IsEmpty(output_queue)
    BY <1>1, <2>1 DEF Rest, Outgoing
  <2>2. CASE ~ IsEmpty(output_queue)
    <3>1. /\ Contents(output_queue) # <<>>
          /\ outgoing' = Head(Contents(output_queue))
          /\ Contents(output_queue') = Tail(Contents(output_queue))
      BY <1>1, <2>2, Sizes, PullContents DEF IInv, Rings
    <3>2. Outgoing' = <<Head(Contents(output_queue))>>
      BY <3>1, Queues, HeadTailProperties, NoPacketIsNoPacket DEF Outgoing
    <3>3. Rest' = Contents(output_queue)
      BY <3>1, <3>2, Queues, HeadAndTail DEF Rest
    <3>4. Rest = Contents(output_queue)
      BY <1>1, Queues, ConcatEmptySeq DEF Rest, Outgoing
    <3> QED
      BY <3>3, <3>4
  <2> QED
    BY <2>1, <2>2
<1>4. IInv'
  BY DMAFinishedKeeps
<1>5. Down' = Down
  BY <1>1, <1>3, <1>4, DownIs, NextDownIs
<1> QED
  BY <1>1, <1>2, <1>5 DEF Step, Same

LEMMA HandlerImplements == ASSUME IInv, IInv', Handler PROVE Step
<1>1. CASE Interrupt
  BY <1>1 DEF Interrupt, deviceVars, Step, Same, Up, Down, Outgoing
<1>2. CASE HandlerWrites
  <2>1. outgoing \in Packets
    BY <1>2 DEF HandlerWrites, IInv, Sends
  <2> QED
    BY <1>2, <2>1, WriteImplements DEF HandlerWrites
<1>3. CASE HandlerReturns
  BY <1>3 DEF HandlerReturns, mainVars, deviceVars, Step, Same, Up, Down, Outgoing
<1> QED
  BY <1>1, <1>2, <1>3, ReceiveImplements, DMAFinishedImplements DEF Handler

(***************************************************************************)
(* The other processes: Captured, Launched, Lost on the link, and MuxSide. *)
(***************************************************************************)
LEMMA ReaderImplements == ASSUME IInv, Reader PROVE Step
<1>1. CASE Signal
  BY <1>1 DEF Signal, mainVars, Step, Same, Up, Down, Outgoing
<1>2. ASSUME NEW p \in Captures, Capture(p) PROVE Step
  <2>1. /\ fromReader' = Append(fromReader, p)
        /\ UNCHANGED <<outgoing, input_queue, output_queue, toWriter, onLink, muxin, muxout>>
    BY <1>2 DEF Capture, mainVars
  <2>2. Down' = Down
    BY <2>1 DEF Down, Outgoing
  <2>3. p \in Packets
    BY DEF Packets
  <2>4. Contents(input_queue) \o Append(fromReader, p)
          = Append(Contents(input_queue) \o fromReader, p)
    BY <2>3, Queues, AppendedAtTheEnd
  <2>5. Up' = Append(Up, p)
    BY <2>1, <2>4 DEF Up
  <2>6. Service!Captured
    BY <2>1, <2>2, <2>3, <2>5 DEF Service!Captured, Up, Down
  <2> QED
    BY <2>6 DEF Step, Service!Next
<1> QED
  BY <1>1, <1>2 DEF Reader

LEMMA WriterImplements == ASSUME IInv, IInv', Writer PROVE Step
<1>1. /\ toWriter # <<>>
      /\ toWriter' = Tail(toWriter)
      /\ onLink' \in {Head(toWriter), onLink}
      /\ UNCHANGED <<outgoing, input_queue, output_queue, fromReader, muxin, muxout>>
  BY DEF Writer, Launch, Discard, mainVars
<1>2. Up' = Up
  BY <1>1 DEF Up
<1>3. Down # <<>> /\ Head(Down) = Head(toWriter) /\ Tail(Down) = Tail(toWriter) \o Rest
  BY <1>1, Queues, DownIs, TakenFromTheFront
<1>4. Rest' = Rest
  BY <1>1 DEF Rest, Outgoing
<1>5. Down' = Tail(Down)
  BY <1>1, <1>3, <1>4, NextDownIs
<1>6. CASE onLink' = Head(toWriter)
  <2>1. Service!Launched
    BY <1>1, <1>2, <1>3, <1>5, <1>6 DEF Service!Launched, Up, Down
  <2> QED
    BY <2>1 DEF Step, Service!Next
<1>7. CASE onLink' = onLink
  <2>1. 1 \in DOMAIN Down /\ Down' = Service!RemoveAt(Down, 1)
    BY <1>3, <1>5, DownIs, FirstRemoved
  <2>2. Service!Lost
    BY <1>1, <1>2, <1>7, <2>1 DEF Service!Lost, Up, Down
  <2> QED
    BY <2>2 DEF Step, Service!Next
<1> QED
  BY <1>1, <1>6, <1>7

LEMMA MuxImplements == ASSUME IInv, Mux PROVE Step
<1>1. /\ UNCHANGED <<outgoing, input_queue, output_queue, fromReader, toWriter, onLink>>
      /\ \/ \E p \in Packets : muxin' = Append(muxin, p) /\ UNCHANGED muxout
         \/ muxout # <<>> /\ muxout' = Tail(muxout) /\ UNCHANGED muxin
  BY DEF Mux, MuxWrites, MuxReads, Packets, mainVars, deviceVars
<1>2. Up' = Up /\ Down' = Down
  BY <1>1 DEF Up, Down, Outgoing
<1>3. Service!MuxSide
  BY <1>1, <1>2 DEF Service!MuxSide, Up, Down
<1> QED
  BY <1>3 DEF Step, Service!Next

(***************************************************************************)
(* device_driver.cc, reader.cc, writer.cc and raw_ethernet_packet_buffer.cc*)
(* together: packets go both ways in the order they came.                  *)
(***************************************************************************)
THEOREM Implements == Spec => ImplementsService
<1>1. Init => Service!Init
  <2> SUFFICES ASSUME Init PROVE Service!Init
    OBVIOUS
  <2>1. Contents(input_queue) = <<>> /\ Contents(output_queue) = <<>>
    BY Sizes, NewRing, EmptyContents DEF Init
  <2> QED
    BY <2>1 DEF Init, Service!Init, Outgoing
<1>2. IInv /\ IInv' /\ [Next]_vars => [Service!Next]_(Service!vars)
  <2> SUFFICES ASSUME IInv, IInv', [Next]_vars PROVE Step
    BY DEF Step, Same, Service!vars, Up, Down
  <2>1. CASE UNCHANGED vars
    BY <2>1 DEF vars, mainVars, handlerVars, deviceVars, Step, Same, Up, Down, Outgoing
  <2> QED
    BY <2>1, MainImplements, HandlerImplements, ReaderImplements, WriterImplements,
       MuxImplements DEF Next
<1> QED
  BY <1>1, <1>2, Invariant, PTL DEF Spec, ImplementsService, Service!Spec
==============================================================================

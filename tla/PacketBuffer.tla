----------------------------- MODULE PacketBuffer -----------------------------
(***************************************************************************)
(* libminet/raw_ethernet_packet_buffer: a ring of bufsize slots. One slot  *)
(* stays free, so that a full ring and an empty one differ.                *)
(***************************************************************************)
EXTENDS Integers, Sequences

CONSTANT NoPacket   \* what a slot holds that is not in use

NewBuffer(size) ==
  [bufsize |-> size, packet |-> [i \in 0 .. size - 1 |-> NoPacket], curin |-> 0, curout |-> 0]

\* Fault: the index does not wrap.
SuccessorUnbounded(b, i) == i + 1

Successor(b, i) == (i + 1) % b.bufsize

\* Fault: the slot that tells full from empty is used as well.
NeverFull(b) == FALSE

\* Fault: one more slot stays free.
FullOneEarly(b) == Successor(b, Successor(b, b.curin)) = b.curout

IsFull(b) == Successor(b, b.curin) = b.curout

IsEmpty(b) == b.curout = b.curin

(***************************************************************************)
(* What the code takes for the number of packets. Once curin has wrapped it*)
(* is one too few.                                                         *)
(***************************************************************************)
\* Fault: packets that lie across the end of the ring are not counted.
NumitemsUnwrapped(b) == IF b.curin >= b.curout THEN b.curin - b.curout ELSE 0

Numitems(b) ==
  IF b.curin >= b.curout THEN b.curin - b.curout
                         ELSE b.bufsize - (b.curout - b.curin) - 1

Push(b, p) ==
  [b EXCEPT !.packet = [@ EXCEPT ![b.curin] = p], !.curin = Successor(b, @)]

\* A push to a full ring changes nothing: the packet is dropped.
PushPacket(b, p) == IF IsFull(b) THEN b ELSE Push(b, p)

NextPacket(b) == b.packet[b.curout]

\* PullPacket of a ring that is not empty; it returns NextPacket. The slot
\* keeps its packet in the program, where nobody reads it again.
PullPacket(b) ==
  [b EXCEPT !.packet = [@ EXCEPT ![b.curout] = NoPacket], !.curout = Successor(b, @)]

-----------------------------------------------------------------------------
\* The packets pushed and not yet pulled, in order.
Pending(b) == IF b.curin >= b.curout THEN b.curin - b.curout
                                     ELSE b.bufsize - (b.curout - b.curin)

\* The slot of the ith of them.
Slot(b, i) ==
  IF b.curout + i - 1 < b.bufsize THEN b.curout + i - 1 ELSE b.curout + i - 1 - b.bufsize

Contents(b) == [i \in 1 .. Pending(b) |-> b.packet[Slot(b, i)]]
==============================================================================

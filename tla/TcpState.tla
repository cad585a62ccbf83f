------------------------------ MODULE TcpState ------------------------------
(***************************************************************************)
(* libminet/tcpstate.cc: what a TCP module keeps of a connection. Sequence *)
(* numbers, offsets and sizes are unsigned integers of 32 bits, here of W  *)
(* values. No module of the repository uses the class, so that these are   *)
(* operators on values, and PacketProofs says what they promise one.       *)
(* last_acked is the last byte acknowledged, newack the one expected next. *)
(***************************************************************************)
EXTENDS Integers

CONSTANTS
  W,                            \* 2^32
  TCP_MAXIMUM_SEGMENT_SIZE

Unsigned == 0 .. W - 1

\* The sum or difference of two unsigned integers.
Wrap(n) == IF n >= W THEN n - W ELSE IF n < 0 THEN n + W ELSE n

Lesser(m, n) == IF m < n THEN m ELSE n

TCP_BUFFER_SIZE == 100 * TCP_MAXIMUM_SEGMENT_SIZE
N == 16 * TCP_MAXIMUM_SEGMENT_SIZE

\* The timer's tries, and whether they have run out.
ExpireTimerTries(tmrTries) ==
  [expired |-> tmrTries = 0, tmrTries |-> IF tmrTries = 0 THEN 0 ELSE tmrTries - 1]

(***************************************************************************)
(* An acknowledgement, with sequence numbers that may have wrapped between *)
(* last_acked and last_sent. What it accepts it erases from the front of   *)
(* SendBuffer.                                                             *)
(***************************************************************************)
Accepted(last_acked, last_sent, newack) ==
  IF last_acked <= last_sent
    THEN newack > last_acked /\ newack <= Wrap(last_sent + 1)
    ELSE \/ newack > last_acked /\ newack > last_sent
         \/ newack < last_acked /\ newack <= Wrap(last_sent + 1)

Erased(last_acked, newack) == Wrap(newack - last_acked)

SetLastAcked(last_acked, last_sent, newack) ==
  IF Accepted(last_acked, last_sent, newack)
    THEN [ok |-> TRUE, erased |-> Erased(last_acked, newack), last_acked |-> Wrap(newack - 1)]
    ELSE [ok |-> FALSE, erased |-> 0, last_acked |-> last_acked]

(***************************************************************************)
(* A segment: size is that of RecvBuffer, in which the caller puts it.     *)
(***************************************************************************)
GetRwnd(size) == Wrap(TCP_BUFFER_SIZE - size)

SetLastRecvd(last_recvd, size, lastrecvd, length) ==
  IF lastrecvd = Wrap(last_recvd + 1) /\ length <= N /\ Wrap(size + length) <= TCP_BUFFER_SIZE
    THEN [ok |-> TRUE, last_recvd |-> Wrap(last_recvd + length)]
    ELSE [ok |-> FALSE, last_recvd |-> last_recvd]

(***************************************************************************)
(* What of SendBuffer to send next: from which offset, and how many bytes. *)
(***************************************************************************)
OffsetLastSent(last_acked, last_sent) ==
  IF last_acked < last_sent THEN last_sent - last_acked
  ELSE Wrap((W - 1 - last_acked) + last_sent + 1)

SendPacketPayload(last_acked, last_sent, rwnd, bytes) ==
  LET offset == OffsetLastSent(last_acked, last_sent)
      room == Lesser(Wrap(rwnd - offset), Wrap(N - offset))
  IN  [offsetlastsent |-> offset,
       bytesize |-> Lesser(Lesser(room, bytes), TCP_MAXIMUM_SEGMENT_SIZE)]
==============================================================================

----------------------------- MODULE IcmpHeader -----------------------------
(***************************************************************************)
(* libminet/icmp.cc, class ICMPHeader: eight bytes, of which the last four *)
(* mean what the type says. The checksum is over the header and the whole  *)
(* payload. Identifiers and sequence numbers are copied as two bytes.      *)
(***************************************************************************)
EXTENDS Packet

ICMP_HEADER_LENGTH == 8

GetType(h) == h[1]
GetCode(h) == h[2]
GetIdentifier(h) == GetData(h, 2, 4)
GetSequenceNumber(h) == GetData(h, 2, 6)
SetChecksum(h, checksum) == SetData(h, htons(checksum), 2)

\* The payload is copied behind a gap, and what is not there counts as 0.
ComputeChecksum(h, p) ==
  LET header == GetData(h, ICMP_HEADER_LENGTH, 0)
  IN  Complement(OnesComplementSum(SetData(header, p.payload, 2 * ICMP_HEADER_LENGTH)))

RecomputeChecksum(h, p) ==
  LET cleared == SetChecksum(h, 0)
  IN  SetChecksum(cleared, ComputeChecksum(cleared, p))

Put(h, bytes, offset, p) == RecomputeChecksum(SetData(h, bytes, offset), p)

\* Fault: the checksum is left as it is.
SetTypeOnly(h, type, p) == SetData(h, <<type>>, 0)

SetType(h, type, p) == Put(h, <<type>>, 0, p)
SetCode(h, code, p) == Put(h, <<code>>, 1, p)
SetIdentifier(h, identifier, p) == Put(h, identifier, 4, p)
SetSequenceNumber(h, seqnumber, p) == Put(h, seqnumber, 6, p)
SetPointer(h, pointer, p) == Put(h, <<pointer>>, 4, p)

\* Fields of the payload, which no checksum follows.
SetOriginateTimestamp(payload, time) == SetData(payload, time, 0)
SetAddressMask(payload, mask) == SetData(payload, mask, 0)
==============================================================================

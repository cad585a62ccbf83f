------------------------------ MODULE TcpHeader ------------------------------
(***************************************************************************)
(* libminet/tcp.cc: the TCP header. It has no length of its own: that of   *)
(* the segment is what the IP header leaves. Sequence numbers are their    *)
(* four bytes.                                                             *)
(***************************************************************************)
EXTENDS Packet

IP == INSTANCE IpHeader

TCP_HEADER_BASE_LENGTH == 20

GetSourcePort(h) == ntohs(GetData(h, 2, 0))
GetDestPort(h) == ntohs(GetData(h, 2, 2))
GetSeqNum(h) == GetData(h, 4, 4)
GetAckNum(h) == GetData(h, 4, 8)
GetHeaderLen(h) == h[13] \div 16
GetFlags(h) == h[14] % 64
GetWinSize(h) == ntohs(GetData(h, 2, 14))
GetOptions(h) == GetData(h, 4 * GetHeaderLen(h) - TCP_HEADER_BASE_LENGTH, TCP_HEADER_BASE_LENGTH)
GetChecksum(h) == ntohs(GetData(h, 2, 16))
SetChecksum(h, checksum) == SetData(h, htons(checksum), 16)

EstimateTCPHeaderLength(p) == 4 * GetHeaderLen(p.payload)

SegmentLength(iph) == IP!GetTotalLength(iph) - 4 * IP!GetHeaderLength(iph)

\* What is not there counts as 0.
ComputeChecksum(h, p) ==
  LET iph == FindHeader(p, "IPHeader")
      len == SegmentLength(iph)
      hlen == 4 * GetHeaderLen(h)
      pseudo == IP!GetSourceIP(iph) \o IP!GetDestIP(iph)
                  \o htons(IP!GetProtocol(iph)) \o htons(len)
      headers == SetData(pseudo, GetData(h, hlen, 0), 12)
  IN  Complement(OnesComplementSum(
        SetData(headers, GetData(p.payload, len - hlen, 0), 12 + hlen)))

IsCorrectChecksum(h, p) == GetChecksum(h) = 0 \/ ComputeChecksum(h, p) = 0

\* Fault: the old checksum is part of the sum.
RecomputeChecksumOver(h, p) ==
  LET whole == IF Len(h) < TCP_HEADER_BASE_LENGTH THEN SetData(h, htons(0), 18) ELSE h
  IN  SetChecksum(whole, ComputeChecksum(whole, p))

\* A header that is too short first gets an urgent pointer of 0.
RecomputeChecksum(h, p) ==
  LET whole == IF Len(h) < TCP_HEADER_BASE_LENGTH THEN SetData(h, htons(0), 18) ELSE h
      cleared == SetChecksum(whole, 0)
  IN  SetChecksum(cleared, ComputeChecksum(cleared, p))

Put(h, bytes, offset, p) == RecomputeChecksum(SetData(h, bytes, offset), p)
SetSourcePort(h, port, p) == Put(h, htons(port), 0, p)
SetDestPort(h, port, p) == Put(h, htons(port), 2, p)
SetSeqNum(h, n, p) == Put(h, n, 4, p)
SetAckNum(h, n, p) == Put(h, n, 8, p)
SetHeaderLen(h, len, p) == Put(h, <<(h[13] % 16) + 16 * (len % 16)>>, 12, p)
SetFlags(h, flags, p) == Put(h, <<64 * (h[14] \div 64) + (flags % 64)>>, 13, p)
SetWinSize(h, w, p) == Put(h, htons(w), 14, p)

\* The one Set that does not compute the checksum anew.
SetOptions(h, options) == SetData(h, options, TCP_HEADER_BASE_LENGTH)
==============================================================================

------------------------------ MODULE UdpHeader ------------------------------
(***************************************************************************)
(* libminet/udp.cc: the UDP header. Its checksum is over part of the IP    *)
(* header that the packet already has, the UDP header and the payload; a   *)
(* checksum of 0 is none.                                                  *)
(***************************************************************************)
EXTENDS Packet

IP == INSTANCE IpHeader

UDP_HEADER_LENGTH == 8

GetSourcePort(h) == ntohs(GetData(h, 2, 0))
GetDestPort(h) == ntohs(GetData(h, 2, 2))
GetLength(h) == ntohs(GetData(h, 2, 4))
GetChecksum(h) == ntohs(GetData(h, 2, 6))
SetChecksum(h, checksum) == SetData(h, htons(checksum), 6)

\* Fault: the payload is left out.
ComputeChecksumOfHeader(h, p) ==
  LET iph == FindHeader(p, "IPHeader")
      pseudo == IP!GetSourceIP(iph) \o IP!GetDestIP(iph)
                  \o htons(IP!GetProtocol(iph)) \o htons(GetLength(h))
  IN  Complement(OnesComplementSum(pseudo \o GetData(h, UDP_HEADER_LENGTH, 0)))

ComputeChecksum(h, p) ==
  LET iph == FindHeader(p, "IPHeader")
      len == GetLength(h)
      pseudo == IP!GetSourceIP(iph) \o IP!GetDestIP(iph)
                  \o htons(IP!GetProtocol(iph)) \o htons(len)
      headers == pseudo \o GetData(h, UDP_HEADER_LENGTH, 0)
      data == GetData(p.payload, len - UDP_HEADER_LENGTH, 0)
  IN  Complement(OnesComplementSum(headers \o data))

IsCorrectChecksum(h, p) == GetChecksum(h) = 0 \/ ComputeChecksum(h, p) = 0

RecomputeChecksum(h, p) ==
  LET cleared == SetChecksum(h, 0)
  IN  IF GetLength(cleared) >= UDP_HEADER_LENGTH
        THEN SetChecksum(cleared, ComputeChecksum(cleared, p))
        ELSE cleared

SetSourcePort(h, port, p) == RecomputeChecksum(SetData(h, htons(port), 0), p)
SetDestPort(h, port, p) == RecomputeChecksum(SetData(h, htons(port), 2), p)
SetLength(h, len, p) == RecomputeChecksum(SetData(h, htons(len), 4), p)
==============================================================================

------------------------------ MODULE IpHeader ------------------------------
(***************************************************************************)
(* libminet/ip.cc: the IP header, a buffer whose fields are read and set   *)
(* in place. Every Set but SetChecksum ends by computing the checksum      *)
(* anew. An address is its four bytes.                                     *)
(***************************************************************************)
EXTENDS Buffer

IP_HEADER_BASE_LENGTH == 20
IP_HEADER_FLAG_MOREFRAG == 1
IP_PROTO_ICMP == 1
IP_PROTO_TCP == 6
IP_PROTO_UDP == 17
IP_PROTO_RAW == 255

GetHeaderLength(h) == h[1] % 16
GetTotalLength(h) == ntohs(GetData(h, 2, 2))
GetFlags(h) == h[7] \div 32
GetFragOffset(h) == ntohs(GetData(h, 2, 6)) % 8192
GetTTL(h) == h[9]
GetProtocol(h) == h[10]
GetSourceIP(h) == GetData(h, 4, 12)
GetDestIP(h) == GetData(h, 4, 16)
GetOptions(h) ==
  GetData(h, 4 * GetHeaderLength(h) - IP_HEADER_BASE_LENGTH, IP_HEADER_BASE_LENGTH)

\* Before the header is taken off the front of a payload.
EstimateIPHeaderLength(payload) == 4 * GetHeaderLength(payload)

ComputeChecksum(h) == Complement(OnesComplementSum(GetData(h, 4 * GetHeaderLength(h), 0)))
IsChecksumCorrect(h) == ComputeChecksum(h) = 0
SetChecksum(h, checksum) == SetData(h, htons(checksum), 10)

RecomputeChecksum(h) ==
  LET cleared == SetChecksum(h, 0) IN SetChecksum(cleared, ComputeChecksum(cleared))

\* The fields of whole bytes.
Put(h, bytes, offset) == RecomputeChecksum(SetData(h, bytes, offset))
SetTOS(h, tos) == Put(h, <<tos>>, 1)
SetTotalLength(h, len) == Put(h, htons(len), 2)
SetID(h, id) == Put(h, htons(id), 4)
SetTTL(h, ttl) == Put(h, <<ttl>>, 8)
SetProtocol(h, proto) == Put(h, <<proto>>, 9)
SetSourceIP(h, addr) == Put(h, addr, 12)
SetDestIP(h, addr) == Put(h, addr, 16)

\* The fields that share a byte.
SetVersion(h, version) == Put(h, <<(h[1] % 16) + 16 * (version % 16)>>, 0)
SetHeaderLength(h, hlen) == Put(h, <<16 * (h[1] \div 16) + (hlen % 16)>>, 0)
SetFlags(h, flags) == Put(h, <<(h[7] % 32) + 32 * (flags % 8)>>, 6)

\* Fault: the flags are not put back.
SetFragOffsetOverFlags(h, offset) == Put(h, htons(offset), 6)

SetFragOffset(h, offset) ==
  RecomputeChecksum(SetFlags(SetData(h, htons(offset), 6), GetFlags(h)))

SetOptions(h, opt) ==
  SetHeaderLength(SetData(h, opt, IP_HEADER_BASE_LENGTH),
                  (IP_HEADER_BASE_LENGTH + Len(opt)) \div 4)

(***************************************************************************)
(* The constructor reads bytes that nothing has written: of the first byte *)
(* it keeps the half that SetHeaderLength writes next. They are g here,    *)
(* which no header that comes out may depend on. id is the counter of the  *)
(* process.                                                                *)
(***************************************************************************)
IPHeader(g, id) ==
  LET NONE == <<0, 0, 0, 0>>
      blank == [i \in 1 .. IP_HEADER_BASE_LENGTH |-> g]
      first == SetTOS(SetHeaderLength(SetVersion(blank, 4), 5), 0)
      second == SetID(SetTotalLength(first, IP_HEADER_BASE_LENGTH), id)
      third == SetTTL(SetFragOffset(SetFlags(second, 2), 0), 64)
  IN  SetDestIP(SetSourceIP(SetProtocol(third, IP_PROTO_RAW), NONE), NONE)
==============================================================================

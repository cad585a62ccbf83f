----------------------------- MODULE IcmpPacket -----------------------------
(***************************************************************************)
(* libminet/icmp.cc, class ICMPPacket: the errors that modules send, and   *)
(* the answers of icmp_module.                                             *)
(***************************************************************************)
EXTENDS Serialization

IP == INSTANCE IpHeader
ICMP == INSTANCE IcmpHeader

ECHO_REPLY == 0
DESTINATION_UNREACHABLE == 3
SOURCE_QUENCH == 4
REDIRECT == 5
ECHO_REQUEST == 8
TIME_EXCEEDED == 11
PARAMETER_PROBLEM == 12
TIMESTAMP_REQUEST == 13
TIMESTAMP_REPLY == 14
ADDRESSMASK_REQUEST == 17
ADDRESSMASK_REPLY == 18

PROTOCOL_UNREACHABLE == 2
PORT_UNREACHABLE == 3
FRAGMENTATION_NEEDED == 4
TTL_EQUALS_ZERO_DURING_TRANSIT == 0

Requests == {ECHO_REQUEST, TIMESTAMP_REQUEST, ADDRESSMASK_REQUEST}
Answers == {ECHO_REPLY, TIMESTAMP_REPLY, ADDRESSMASK_REPLY, DESTINATION_UNREACHABLE,
            SOURCE_QUENCH, REDIRECT, TIME_EXCEEDED, PARAMETER_PROBLEM}

(***************************************************************************)
(* The constructor: iph0 is the IP header that its own constructor made.   *)
(* The pointer of a PARAMETER_PROBLEM is set where the identifier goes.    *)
(***************************************************************************)
ICMPPacket(iph0, source, destination, type, code, identifier, seqnumber, data) ==
  LET addressed == IP!SetProtocol(IP!SetTotalLength(IP!SetTOS(iph0, 0), 48), IP!IP_PROTO_ICMP)
      iph == IP!SetDestIP(IP!SetSourceIP(addressed, source), destination)
      empty == NewPacket(<<>>)
      filled == NewPacket(data)
      typed == ICMP!SetType(<<>>, type, empty)
      pointing == IF type = PARAMETER_PROBLEM THEN ICMP!SetPointer(typed, code, empty) ELSE typed
      coded == ICMP!SetIdentifier(ICMP!SetCode(pointing, code, filled), identifier, filled)
      icmph == ICMP!SetSequenceNumber(coded, seqnumber, filled)
  IN  PushFrontHeader(PushFrontHeader(filled, "ICMPHeader", icmph), "IPHeader", iph)

ExtractIphandEightBytes(p) == FindHeader(p, "IPHeader") \o ExtractFront(p.payload, 8)

\* An error about p: me is MINET_IPADDR of the module that sends it.
ICMPError(iph0, me, destination, type, code, p) ==
  ICMPPacket(iph0, me, destination, type, code, <<0, 0>>, <<0, 0>>, ExtractIphandEightBytes(p))

(***************************************************************************)
(* respond: the headers change only if the packet is a request.            *)
(***************************************************************************)
HandleResponse(p, icmph, now) ==
  LET type == ICMP!GetType(icmph)
      answer(reply, payload) ==
        [p |-> [p EXCEPT !.payload = payload], icmph |-> ICMP!SetType(icmph, reply, p)]
  IN  CASE type = ECHO_REQUEST -> answer(ECHO_REPLY, p.payload)
        [] type = TIMESTAMP_REQUEST ->
             answer(TIMESTAMP_REPLY, ICMP!SetOriginateTimestamp(p.payload, now))
        [] type = ADDRESSMASK_REQUEST ->
             LET masked == answer(ADDRESSMASK_REPLY, ICMP!SetAddressMask(p.payload, <<255, 255, 0, 0>>))
             IN  [masked EXCEPT !.icmph = ICMP!RecomputeChecksum(@, masked.p)]

\* Fault: the headers change whatever the packet is.
RespondAlways(p, now) ==
  LET iph == FindHeader(p, "IPHeader")
      swapped == IP!SetDestIP(IP!SetSourceIP(iph, IP!GetDestIP(iph)), IP!GetSourceIP(iph))
  IN  SetHeader(PopHeader(p), "IPHeader", swapped)

Respond(p, now) ==
  LET iph == FindHeader(p, "IPHeader")
      icmph == FindHeader(p, "ICMPHeader")
      swapped == IP!SetDestIP(IP!SetSourceIP(iph, IP!GetDestIP(iph)), IP!GetSourceIP(iph))
      popped == PopHeader(p)
  IN  IF ICMP!GetType(icmph) \in Requests
        THEN LET handled == HandleResponse(popped, icmph, now)
             IN  SetHeader(SetHeader(handled.p, "IPHeader", swapped), "ICMPHeader", handled.icmph)
        ELSE popped

\* Whether requires_response is set: it is not for a timestamp request, nor
\* for a type that respond does not know, and is then whatever was there.
RequiresReply(type) ==
  CASE type \in {ECHO_REQUEST, ADDRESSMASK_REQUEST} -> {TRUE}
    [] type \in Answers -> {FALSE}
    [] OTHER -> BOOLEAN
==============================================================================

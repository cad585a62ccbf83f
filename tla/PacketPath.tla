----------------------------- MODULE PacketPath -----------------------------
(***************************************************************************)
(* The way of one packet, byte by byte: built by a module of one host, or  *)
(* by a peer that runs some other stack, put on the link, perhaps padded   *)
(* and perhaps damaged there, read by ip_module, ip_mux and the module of  *)
(* its protocol, and answered by an error or a reply that goes the way     *)
(* back. LinkLayer has the queues and the questions that this module      *)
(* leaves out; here one packet is on its way at a time.                    *)
(***************************************************************************)
EXTENDS IcmpPacket

CONSTANTS
  Hosts,            \* the hosts, each named by the four bytes of its address
  MyEthernetAddr,   \* MyEthernetAddr[h]: the six bytes of its Ethernet address
  Ports,            \* the ports that datagrams are from and for
  BoundPorts,       \* those for which udp_module has a forward
  Payloads,         \* the data of datagrams
  PeerPackets,      \* what peers send: records as Origin has them
  Garbage,          \* bytes that nobody wrote
  MinFrame,         \* the length to which the link pads a short frame
  Damages,          \* what the link adds to a byte that it damages
  MaxNoise          \* bound: bytes that the link damages on one way

UDP == INSTANCE UdpHeader
TCP == INSTANCE TcpHeader

ETHERNET_HEADER_LEN == 14
EthernetAddrLength == 6
ETHERNET_DATA_MAX == 1500

Bytes(n) == {b \in Seq(Byte) : Len(b) = n}
Offsets == 0 .. 8191
Options == {b \in Seq(Byte) : Len(b) % 4 = 0 /\ Len(b) <= 40}

\* What a peer may send: each field within its width, options that fill their
\* words, and no more in all than a frame carries. Datagrams are udp_module's.
IsSegment(body) ==
  /\ {body.srcport, body.destport, body.win} \subseteq Word16
  /\ {body.seq, body.ack} \subseteq Bytes(4)
  /\ body.flags \in 0 .. 63
  /\ body.options \in Options

IsMessage(body) == body.type \in Byte /\ {body.identifier, body.seqnumber} \subseteq Bytes(2)

IsPeerPacket(o) ==
  /\ {o.src, o.dst} \subseteq Hosts
  /\ o.ttl \in Byte /\ o.flags \in 0 .. 7 /\ o.fragoff \in Offsets
  /\ o.options \in Options
  /\ o.proto \in Byte \ {IP!IP_PROTO_UDP}
  /\ o.proto = IP!IP_PROTO_TCP => IsSegment(o.body)
  /\ o.proto = IP!IP_PROTO_ICMP => IsMessage(o.body)
  /\ o.body.data \in Seq(Byte) /\ Len(o.body.data) <= ETHERNET_DATA_MAX - 120

ASSUME PathAssumption ==
  /\ Hosts \subseteq Bytes(4)
  /\ MyEthernetAddr \in [Hosts -> Bytes(EthernetAddrLength)]
  /\ Ports \subseteq Word16 /\ BoundPorts \subseteq Ports
  /\ \A d \in Payloads : d \in Seq(Byte) /\ Len(d) <= ETHERNET_DATA_MAX - 28
  /\ \A o \in PeerPackets : IsPeerPacket(o)
  /\ Garbage \subseteq Byte
  /\ MinFrame \in 0 .. ETHERNET_HEADER_LEN + ETHERNET_DATA_MAX
  /\ Damages \subseteq 1 .. 255
  /\ MaxNoise \in Nat

VARIABLES
  at,       \* the module that has the packet next, "wire", or "idle"
  host,     \* the host of that module, or that the frame is for
  packet,   \* the packet
  upcall,   \* what the module of its protocol made of it
  made,     \* history: who built it: its "sender", or a "reply" or an "error"
  origin,   \* history: what the sender put into it
  noise     \* how many bytes the link has damaged

vars == <<at, host, packet, upcall, made, origin, noise>>

Empty == NewPacket(<<>>)
NoHost == <<>>
NoUpcall == [ok |-> FALSE]
PORT_NONE == 0

\* The packet goes into a FIFO, and is what the module reads there.
GoTo(module, h, p) ==
  /\ at' = module
  /\ host' = h
  /\ packet' = Unserialize(Serialize(p))

Start(module, h, p, o) ==
  /\ at = "idle"
  /\ GoTo(module, h, p)
  /\ made' = "sender"
  /\ origin' = o
  /\ UNCHANGED <<upcall, noise>>

\* The packet is gone, and the next one may start.
End ==
  /\ GoTo("idle", host, Empty)
  /\ upcall' = NoUpcall
  /\ made' = "sender"
  /\ origin' = <<>>
  /\ noise' = 0

(***************************************************************************)
(* Building a packet.                                                      *)
(***************************************************************************)
\* udp_module, asked to WRITE.
Datagram(iph0, o) ==
  LET addressed == IP!SetDestIP(IP!SetSourceIP(IP!SetProtocol(iph0, IP!IP_PROTO_UDP), o.src), o.dst)
      len == UDP!UDP_HEADER_LENGTH + Len(o.body.data)
      p == PushFrontHeader(NewPacket(o.body.data), "IPHeader",
                           IP!SetTotalLength(addressed, len + IP!IP_HEADER_BASE_LENGTH))
      ports == UDP!SetDestPort(UDP!SetSourcePort(<<>>, o.body.srcport, p), o.body.destport, p)
  IN  PushBackHeader(p, "UDPHeader", UDP!SetLength(ports, len, p))

WriteDatagram ==
  \E src \in Hosts, srcport, destport \in Ports, data \in Payloads, g \in Garbage :
    \E dst \in Hosts \ {src} :
      LET o == [src |-> src, dst |-> dst, ttl |-> 64, flags |-> 2, fragoff |-> 0,
                options |-> <<>>, proto |-> IP!IP_PROTO_UDP,
                body |-> [srcport |-> srcport, destport |-> destport, data |-> data]]
      IN  Start("ip_module", src, Datagram(IP!IPHeader(g, 1), o), o)

\* A peer lays its packet out as the headers say.
PeerHeader(o, len) ==
  LET marked == IP!SetFragOffset(IP!SetFlags(IP!SetTTL(IP!IPHeader(0, 2), o.ttl), o.flags), o.fragoff)
      long == IP!SetTotalLength(IP!SetOptions(marked, o.options),
                                IP!IP_HEADER_BASE_LENGTH + Len(o.options) + len)
  IN  IP!SetDestIP(IP!SetSourceIP(IP!SetProtocol(long, o.proto), o.src), o.dst)

Segment(body, p) ==
  LET ports == TCP!SetDestPort(TCP!SetSourcePort(<<>>, body.srcport, p), body.destport, p)
      long == TCP!SetHeaderLen(TCP!SetOptions(ports, body.options),
                               (TCP!TCP_HEADER_BASE_LENGTH + Len(body.options)) \div 4, p)
  IN  TCP!SetWinSize(TCP!SetFlags(TCP!SetAckNum(TCP!SetSeqNum(long, body.seq, p), body.ack, p),
                                  body.flags, p), body.win, p)

Message(body, p) ==
  ICMP!SetSequenceNumber(ICMP!SetIdentifier(ICMP!SetType(<<>>, body.type, p),
                                            body.identifier, p), body.seqnumber, p)

PeerPacket(o) ==
  LET with(len) == PushFrontHeader(NewPacket(o.body.data), "IPHeader", PeerHeader(o, len))
      tcp == with(TCP!TCP_HEADER_BASE_LENGTH + Len(o.body.options) + Len(o.body.data))
      icmp == with(ICMP!ICMP_HEADER_LENGTH + Len(o.body.data))
  IN  CASE o.proto = IP!IP_PROTO_TCP -> PushBackHeader(tcp, "TCPHeader", Segment(o.body, tcp))
        [] o.proto = IP!IP_PROTO_ICMP -> PushBackHeader(icmp, "ICMPHeader", Message(o.body, icmp))
        [] OTHER -> with(Len(o.body.data))

PeerSends == \E o \in PeerPackets : Start("ip_module", o.src, PeerPacket(o), o)

(***************************************************************************)
(* Down and across the link. ip_mux passes everything down to ip_module.   *)
(* arp_module knows its own host from the start, so that a packet for it   *)
(* goes out too: it comes back if the link shows a host its own frames,    *)
(* and is gone if not, as is a packet for an address that nobody has.      *)
(***************************************************************************)
EthernetHeader(src, dst) == SetData(SetData(SetData(<<>>, src, EthernetAddrLength), dst, 0), htons(2048), 12)

Padded(raw) == IF Len(raw) < MinFrame THEN raw \o Zeros(MinFrame - Len(raw)) ELSE raw

\* The driver's frame, as the ip_module of its host reads it.
Transmit(frame, dst) ==
  /\ at' = "wire"
  /\ host' = dst
  /\ packet' = NewPacket(UnserializeBuffer(SerializeBuffer(frame)).value)

SendPacket ==
  LET dst == IP!GetDestIP(FindHeader(packet, "IPHeader"))
  IN  /\ at = "ip_module"
      /\ \/ /\ dst \in Hosts
            /\ LET eh == EthernetHeader(MyEthernetAddr[host], MyEthernetAddr[dst])
                   raw == DupeRaw(PushFrontHeader(packet, "EthernetHeader", eh))
               IN  \E frame \in {raw, Padded(raw)} : Transmit(frame, dst)
            /\ UNCHANGED <<upcall, made, origin, noise>>
         \/ /\ dst \notin Hosts \ {host}
            /\ End

\* Where damage may be: in the IP packet, but not in a byte that tells how long
\* something is, from which the headers themselves are taken.
Damageable(raw) ==
  LET start == ETHERNET_HEADER_LEN
      rest == start + 4 * IP!GetHeaderLength(AfterFront(raw, start))
      proto == IP!GetProtocol(AfterFront(raw, start))
      lengths == {start + 1}
                   \cup (IF proto = IP!IP_PROTO_UDP THEN {rest + 5, rest + 6} ELSE {})
                   \cup (IF proto = IP!IP_PROTO_TCP THEN {rest + 13} ELSE {})
  IN  (start + 1 .. start + IP!GetTotalLength(AfterFront(raw, start))) \ lengths

Damage ==
  /\ at = "wire"
  /\ noise < MaxNoise
  /\ \E i \in Damageable(packet.payload) \cap DOMAIN packet.payload, d \in Damages :
       packet' = [packet EXCEPT !.payload[i] = (@ + d) % 256]
  /\ noise' = noise + 1
  /\ UNCHANGED <<at, host, upcall, made, origin>>

(***************************************************************************)
(* Up. An error goes to the source of the packet it is about.              *)
(***************************************************************************)
\* Fault: the error goes to where the packet was for.
SourceOfFlipped(p) == IP!GetDestIP(FindHeader(p, "IPHeader"))

SourceOf(p) == IP!GetSourceIP(FindHeader(p, "IPHeader"))

SendError(type, code, p) ==
  /\ \E g \in Garbage :
       GoTo("ip_module", host, ICMPError(IP!IPHeader(g, 1), host, SourceOf(p), type, code, p))
  /\ made' = "error"
  /\ UNCHANGED <<upcall, origin, noise>>

Pass(module, p) ==
  /\ GoTo(module, host, p)
  /\ UNCHANGED <<upcall, made, origin, noise>>

\* ip_module: the tests of the IP header, in their order.
FromEthernet ==
  LET whole == ExtractHeaderFromPayload(packet, "EthernetHeader", ETHERNET_HEADER_LEN)
      p == ExtractHeaderFromPayload(whole, "IPHeader", IP!EstimateIPHeaderLength(whole.payload))
      iph == FindHeader(p, "IPHeader")
      isFragment == IP!GetFlags(iph) % 2 = IP!IP_HEADER_FLAG_MOREFRAG \/ IP!GetFragOffset(iph) # 0
  IN  /\ at = "wire"
      /\ IF IP!GetDestIP(iph) # host THEN End
         ELSE IF ~ IP!IsChecksumCorrect(iph) THEN SendError(PARAMETER_PROBLEM, 2, p)
         ELSE IF IP!GetTTL(iph) = 0
                THEN SendError(TIME_EXCEEDED, TTL_EQUALS_ZERO_DURING_TRANSIT, p)
         ELSE IF isFragment THEN SendError(DESTINATION_UNREACHABLE, FRAGMENTATION_NEEDED, p)
         ELSE Pass("ip_mux", p)

\* ip_mux, on a host that runs a module for each of the three protocols.
FromIp ==
  LET proto == IP!GetProtocol(FindHeader(packet, "IPHeader"))
  IN  /\ at = "ip_mux"
      /\ CASE proto = IP!IP_PROTO_UDP -> Pass("udp_module", packet)
           [] proto = IP!IP_PROTO_TCP -> Pass("tcp_module", packet)
           [] proto = IP!IP_PROTO_ICMP -> Pass("icmp_module", packet)
           [] OTHER -> SendError(DESTINATION_UNREACHABLE, PROTOCOL_UNREACHABLE, packet)

Connection(p, srcport, destport) ==
  LET iph == FindHeader(p, "IPHeader")
  IN  [src |-> IP!GetDestIP(iph), dest |-> IP!GetSourceIP(iph),
       protocol |-> IP!GetProtocol(iph), srcport |-> srcport, destport |-> destport]

Write(c, data) ==
  [type |-> "WRITE", connection |-> c, data |-> data, bytes |-> Len(data), error |-> "EOK"]

\* sock_module reads a request; ok is what the module thinks of the checksum.
Upcall(p, ok, request) ==
  /\ at' = "sock"
  /\ packet' = p
  /\ upcall' = [ok |-> ok, request |-> UnserializeRequest(SerializeRequest(request))]
  /\ UNCHANGED <<host, made, origin, noise>>

\* udp_module: a wrong checksum is reported, and the data is passed on.
HandleDatagram ==
  LET p == ExtractHeaderFromPayload(packet, "UDPHeader", UDP!UDP_HEADER_LENGTH)
      udph == FindHeader(p, "UDPHeader")
      c == Connection(p, UDP!GetDestPort(udph), UDP!GetSourcePort(udph))
      data == ExtractFront(p.payload, UDP!GetLength(udph) - UDP!UDP_HEADER_LENGTH)
  IN  /\ at = "udp_module"
      /\ IF c.srcport \in BoundPorts
           THEN Upcall(p, UDP!IsCorrectChecksum(udph, p), Write(c, data))
           ELSE SendError(DESTINATION_UNREACHABLE, PORT_UNREACHABLE, p)

\* tcp_module prints what it reads, and whether the checksum is VALID.
PrintSegment ==
  LET p == ExtractHeaderFromPayload(packet, "TCPHeader", TCP!EstimateTCPHeaderLength(packet))
  IN  /\ at = "tcp_module"
      /\ at' = "printed"
      /\ packet' = p
      /\ upcall' = [ok |-> TCP!IsCorrectChecksum(FindHeader(p, "TCPHeader"), p)]
      /\ UNCHANGED <<host, made, origin, noise>>

\* icmp_module: a reply goes down; anything else goes to sock_module as it is.
\* The ends are not flipped around: src is where the message comes from.
Time == <<0, 0, 0, 1>>

HandleMessage ==
  LET p == ExtractHeaderFromPayload(packet, "ICMPHeader", ICMP!ICMP_HEADER_LENGTH)
      response == Respond(p, Time)
      iph == FindHeader(response, "IPHeader")
      type == ICMP!GetType(FindHeader(p, "ICMPHeader"))
      c == [src |-> IP!GetSourceIP(iph), dest |-> IP!GetDestIP(iph),
            srcport |-> PORT_NONE, destport |-> PORT_NONE, protocol |-> IP!GetProtocol(iph)]
  IN  /\ at = "icmp_module"
      /\ \/ /\ TRUE \in RequiresReply(type)
            /\ GoTo("ip_module", host, response)
            /\ made' = "reply"
            /\ UNCHANGED <<upcall, origin, noise>>
         \/ /\ FALSE \in RequiresReply(type)
            /\ Upcall(response, TRUE, Write(c, DupeRaw(response)))

(***************************************************************************)
(* sock_module. A message of any type and code is printed and dropped: no  *)
(* socket has the protocol ICMP, so that ENOMATCH is the answer, which     *)
(* icmp_module ignores. MinetSockets has what becomes of a datagram.       *)
(***************************************************************************)
ProcessICMPMessage ==
  /\ at = "sock"
  /\ upcall.request.connection.protocol = IP!IP_PROTO_ICMP
  /\ End

ProcessUDPMessage ==
  /\ at = "sock"
  /\ upcall.request.connection.protocol = IP!IP_PROTO_UDP
  /\ End

Printed == at = "printed" /\ End

Init ==
  /\ at = "idle"
  /\ host = NoHost
  /\ packet = Empty
  /\ upcall = NoUpcall
  /\ made = "sender"
  /\ origin = <<>>
  /\ noise = 0

Travel ==
  \/ SendPacket
  \/ FromEthernet
  \/ FromIp
  \/ HandleDatagram
  \/ PrintSegment
  \/ HandleMessage
  \/ ProcessICMPMessage
  \/ ProcessUDPMessage
  \/ Printed

Next == WriteDatagram \/ PeerSends \/ Damage \/ Travel

Spec == Init /\ [][Next]_vars

(***************************************************************************)
(* Properties.                                                             *)
(***************************************************************************)
\* The packet is bytes under headers that stand in the order of the layers: a
\* module that sends has taken the Ethernet header of what it answers away.
Layers ==
  CASE at \in {"idle", "wire"} -> {<<>>}
    [] at = "ip_module" ->
         {<<"IPHeader">>, <<"IPHeader", "UDPHeader">>, <<"IPHeader", "TCPHeader">>,
          <<"IPHeader", "ICMPHeader">>}
    [] at = "sock" -> {<<"EthernetHeader", "IPHeader", "UDPHeader">>, <<"IPHeader", "ICMPHeader">>}
    [] at = "printed" -> {<<"EthernetHeader", "IPHeader", "TCPHeader">>}
    [] OTHER -> {<<"EthernetHeader", "IPHeader">>}

TypeOK ==
  /\ host \in Hosts \cup {NoHost}
  /\ Range(DupeRaw(packet)) \subseteq Byte
  /\ [i \in DOMAIN packet.headers |-> packet.headers[i].tag] \in Layers
  /\ made \in {"sender", "reply", "error"}
  /\ noise \in 0 .. MaxNoise

Fields(iph) ==
  [src |-> IP!GetSourceIP(iph), dst |-> IP!GetDestIP(iph), ttl |-> IP!GetTTL(iph),
   flags |-> IP!GetFlags(iph), fragoff |-> IP!GetFragOffset(iph),
   options |-> IP!GetOptions(iph), proto |-> IP!GetProtocol(iph)]

Given(o) == [f \in DOMAIN Fields(IP!IPHeader(0, 0)) |-> o[f]]

\* ip_module.cc:137-185, ip.cc:84-376: what ip_module passes up reads, field by
\* field, as its sender set it, whatever the link damaged and in whatever
\* order the fields that share bytes were set; and it is a whole, living packet.
PassedUpAsSent ==
  at = "ip_mux" /\ made = "sender" =>
    /\ Fields(FindHeader(packet, "IPHeader")) = Given(origin)
    /\ origin.dst = host
    /\ origin.ttl # 0
    /\ origin.flags % 2 = 0 /\ origin.fragoff = 0

\* udp_module.cc:66-93, udp.cc:80-143: a datagram that nothing damaged has a
\* correct checksum, and one whose checksum is correct, and not the 0 that
\* stands for none, is what was written: ends, data and length, the padding
\* of the frame left out.
DatagramArrives ==
  at = "sock" /\ made = "sender" /\ origin.proto = IP!IP_PROTO_UDP =>
    /\ noise = 0 => upcall.ok
    /\ upcall.ok /\ UDP!GetChecksum(FindHeader(packet, "UDPHeader")) # 0 =>
         upcall.request = Write([src |-> origin.dst, srcport |-> origin.body.destport,
                                 dest |-> origin.src, destport |-> origin.body.srcport,
                                 protocol |-> IP!IP_PROTO_UDP], origin.body.data)

SegmentFields(tcph) ==
  [srcport |-> TCP!GetSourcePort(tcph), destport |-> TCP!GetDestPort(tcph),
   seq |-> TCP!GetSeqNum(tcph), ack |-> TCP!GetAckNum(tcph), flags |-> TCP!GetFlags(tcph),
   win |-> TCP!GetWinSize(tcph), options |-> TCP!GetOptions(tcph)]

\* tcp_module.cc:52-64, tcp.cc:158-221: the checksum of a segment is VALID if
\* and only if nothing of it was damaged, with and without options of either
\* header, data, and padding; and what is then printed is what the peer sent.
SegmentVerdict ==
  at = "printed" =>
    LET tcph == FindHeader(packet, "TCPHeader")
    IN  /\ TCP!GetChecksum(tcph) # 0 => (upcall.ok <=> noise = 0)
        /\ noise = 0 => \A f \in DOMAIN SegmentFields(tcph) :
                          SegmentFields(tcph)[f] = origin.body[f]

\* icmp.cc:402-520: the peer that asked for an echo or an address mask, and
\* reads no further than the total length says, finds its own request answered:
\* the ends swapped, identifier, number and data its own, both checksums right.
ReplyAnswersTheRequest ==
  at = "wire" /\ made = "reply" /\ noise = 0
    /\ origin.body.type \in {ECHO_REQUEST, ADDRESSMASK_REQUEST} =>
    LET raw == AfterFront(packet.payload, ETHERNET_HEADER_LEN)
        iph == ExtractFront(raw, 4 * IP!GetHeaderLength(raw))
        icmp == AfterFront(ExtractFront(raw, IP!GetTotalLength(iph)), Len(iph))
        data == AfterFront(icmp, ICMP!ICMP_HEADER_LENGTH)
    IN  /\ IP!IsChecksumCorrect(iph)
        /\ IP!GetSourceIP(iph) = origin.dst /\ IP!GetDestIP(iph) = origin.src
        /\ OnesComplementSum(icmp) = 65535
        /\ ICMP!GetIdentifier(icmp) = origin.body.identifier
        /\ ICMP!GetSequenceNumber(icmp) = origin.body.seqnumber
        /\ origin.body.type = ECHO_REQUEST =>
             ICMP!GetType(icmp) = ECHO_REPLY /\ data = origin.body.data

Reason(o) ==
  IF o.ttl = 0 THEN <<TIME_EXCEEDED, TTL_EQUALS_ZERO_DURING_TRANSIT>>
  ELSE IF o.flags % 2 = 1 \/ o.fragoff # 0 THEN <<DESTINATION_UNREACHABLE, FRAGMENTATION_NEEDED>>
  ELSE IF o.proto = IP!IP_PROTO_UDP THEN <<DESTINATION_UNREACHABLE, PORT_UNREACHABLE>>
  ELSE <<DESTINATION_UNREACHABLE, PROTOCOL_UNREACHABLE>>

\* ip_module.cc:131-185, ip_mux.cc:90-99, udp_module.cc:97-104, icmp.cc:219-262:
\* an error about an undamaged packet goes to the host that sent it, gives the
\* reason and quotes the header that was sent; its IP checksum is right, and its
\* ICMP checksum over all the bytes that go out. That is not what a peer reads:
\* the total length is 48 whatever is quoted (icmp.cc:292), 8 bytes short for a
\* header without options, and cut there the ICMP checksum is wrong as a rule.
ErrorReachesTheSender ==
  at = "ip_module" /\ made = "error" /\ noise = 0 =>
    LET iph == FindHeader(packet, "IPHeader")
        icmph == FindHeader(packet, "ICMPHeader")
    IN  /\ IP!GetDestIP(iph) = origin.src /\ IP!GetSourceIP(iph) = host
        /\ host = origin.dst
        /\ IP!IsChecksumCorrect(iph)
        /\ ICMP!ComputeChecksum(icmph, packet) = 0
        /\ <<ICMP!GetType(icmph), ICMP!GetCode(icmph)>> = Reason(origin)
        /\ Fields(packet.payload) = Given(origin)

\* A message of a type that respond does not know.
Invalid(p) == Head(p.payload) \notin Requests \cup Answers

\* icmp.cc:402-520: no answer is answered: neither an error nor a reply that
\* nothing damaged leads to another one. What is exempt is the message of a
\* type that respond does not know: it is taken for a request or not as it
\* falls, its ends are not swapped, and so it goes to the host that sends it,
\* which may read it from the link and send it again without end.
AnswersEnd ==
  [][at # "idle" /\ at' = "ip_module" /\ noise = 0 /\ made # "sender" =>
       at = "icmp_module" /\ Invalid(packet)]_vars
==============================================================================

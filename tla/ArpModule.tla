------------------------------ MODULE ArpModule ------------------------------
(***************************************************************************)
(* core/arp_module.cc with the ARPCache of libminet/arp.cc: it answers     *)
(* ip_module's questions from the cache, asks the link when the cache has  *)
(* no answer, and learns from every ARP packet it sees.                    *)
(***************************************************************************)
EXTENDS LinkInt

VARIABLE cache   \* cache[h]: from some IP addresses to ARPRequestResponse

ArpTypeOK ==
  \A h \in Hosts : /\ DOMAIN cache[h] \subseteq IPAddress
                   /\ \A a \in DOMAIN cache[h] : cache[h][a] \in ARPRequestResponse

Known(ip, hw) == [ipaddr |-> ip, ethernetaddr |-> hw, flag |-> "RESPONSE_OK"]

ArpInit ==
  cache = [h \in Hosts |-> [a \in {h} |-> Known(h, MyEthernetAddr[h])]]

Update(data, x) ==
  [a \in DOMAIN data \cup {x.ipaddr} |-> IF a = x.ipaddr THEN x ELSE data[a]]

Lookup(data, x) ==
  IF x.ipaddr \in DOMAIN data
    THEN data[x.ipaddr]
    ELSE [x EXCEPT !.flag = "RESPONSE_UNKNOWN"]

ArpPacket(h, opcode, dst, targetHw, targetIp) ==
  [type |-> "PROTO_ARP", src |-> MyEthernetAddr[h], dst |-> dst, opcode |-> opcode,
   senderIp |-> h, senderHw |-> MyEthernetAddr[h],
   targetIp |-> targetIp, targetHw |-> targetHw]

\* The question put to every host on the link.
Request(h, ip) ==
  ArpPacket(h, "Request", ETHERNET_BROADCAST_ADDR, ETHERNET_BLANK_ADDR, ip)

Reply(h, f) == ArpPacket(h, "Reply", f.senderHw, f.senderHw, f.senderIp)

\* Fault: an unknown address is not asked for.
AsksNobody(r) == FALSE

AsksLink(r) == r.flag = "RESPONSE_UNKNOWN"

LocalRequest(h) ==
  /\ MinetGetNextEvent(h, "arp_module", "ip_module")
  /\ LET r == Lookup(cache[h], Received(h, "arp_module", "ip_module")) IN
     MinetReceive(h, "arp_module", "ip_module",
       <<Send("ip_module", r)>> \o
       IF AsksLink(r) THEN <<Send("ethernet_mux", Request(h, r.ipaddr))>> ELSE <<>>)
  /\ UNCHANGED cache

\* Fault: the sender's address is filed under the target's name.
LearntForTarget(f) == Known(f.targetIp, f.senderHw)

Learnt(f) == Known(f.senderIp, f.senderHw)

\* Fault: a reply is answered too.
AnswersReplies(h, f) == f.targetIp = h

\* A request for another host is learnt from, but not answered.
Answers(h, f) == f.opcode = "Request" /\ f.targetIp = h

RemotePacket(h) ==
  /\ MinetGetNextEvent(h, "arp_module", "ethernet_mux")
  /\ LET f == Received(h, "arp_module", "ethernet_mux") IN
     /\ cache' = [cache EXCEPT ![h] = Update(@, Learnt(f))]
     /\ MinetReceive(h, "arp_module", "ethernet_mux",
          IF Answers(h, f) THEN <<Send("ethernet_mux", Reply(h, f))>> ELSE <<>>)

ArpModuleStep(h) == LocalRequest(h) \/ RemotePacket(h)
==============================================================================

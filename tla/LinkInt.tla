------------------------------- MODULE LinkInt -------------------------------
(***************************************************************************)
(* What the lower modules exchange: IP packets, Ethernet frames, and the   *)
(* questions of ip_module to arp_module with their answers.                *)
(***************************************************************************)
EXTENDS MinetPipes

CONSTANTS
  IP_ADDRESS_BROADCAST,
  Cards,                     \* the Ethernet addresses of the hosts
  MyEthernetAddr,            \* MyEthernetAddr[h]: that of host h
  ETHERNET_BLANK_ADDR,
  ETHERNET_BROADCAST_ADDR

ASSUME LinkIntAssumption ==
  /\ IP_ADDRESS_BROADCAST \notin Hosts
  /\ MyEthernetAddr \in [Hosts -> Cards]
  /\ \A g, h \in Hosts : MyEthernetAddr[g] = MyEthernetAddr[h] => g = h
  /\ ETHERNET_BLANK_ADDR # ETHERNET_BROADCAST_ADDR
  /\ Cards \cap {ETHERNET_BLANK_ADDR, ETHERNET_BROADCAST_ADDR} = {}

IPAddress == Hosts \cup {IP_ADDRESS_BROADCAST}
EthernetAddr == Cards \cup {ETHERNET_BLANK_ADDR, ETHERNET_BROADCAST_ADDR}

(***************************************************************************)
(* A packet: its addresses, the module that handles its protocol, what a   *)
(* check of its IP header finds, and a number its sender gives it (0 for   *)
(* the ICMP errors of ip_module and ip_mux).                               *)
(***************************************************************************)
Fault == {"none", "checksum", "ttl", "fragment"}

Packet == [from : Hosts, to : IPAddress, proto : Transport, fault : Fault, id : Nat]

ICMPError(h, p) ==
  [from |-> h, to |-> p.from, proto |-> "icmp_module", fault |-> "none", id |-> 0]

ArpFrame ==
  [type : {"PROTO_ARP"}, src : EthernetAddr, dst : EthernetAddr,
   opcode : {"Request", "Reply"}, senderIp : IPAddress, senderHw : EthernetAddr,
   targetIp : IPAddress, targetHw : EthernetAddr]

IpFrame ==
  [type : {"PROTO_IP"}, src : EthernetAddr, dst : EthernetAddr, packet : Packet]

Frame == ArpFrame \cup IpFrame

ARPRequestResponse ==
  [ipaddr : IPAddress, ethernetaddr : EthernetAddr,
   flag : {"REQUEST", "RESPONSE_OK", "RESPONSE_UNKNOWN"}]

\* What m writes to n.
Carries(m, n) ==
  CASE {m, n} = {"arp_module", "ip_module"} -> ARPRequestResponse
    [] {m, n} = {"arp_module", "ethernet_mux"} -> ArpFrame
    [] {m, n} = {"ip_module", "ethernet_mux"} -> IpFrame
    [] {m, n} = {"device_driver", "ethernet_mux"} -> Frame
    [] OTHER -> Packet

PipesTypeOK ==
  \A h \in Hosts :
    /\ \A m, n \in Module : <<m, n>> \in Ends =>
         /\ pipe[h][<<m, n>>] \in Seq(Carries(m, n))
         /\ Len(pipe[h][<<m, n>>]) <= Capacity
    /\ \A m \in Module : \A i \in DOMAIN out[h][m] :
         /\ out[h][m][i].to \in Peers(m)
         /\ out[h][m][i].msg \in Carries(m, out[h][m][i].to)
==============================================================================

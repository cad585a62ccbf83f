------------------------------- MODULE IpModule -------------------------------
(***************************************************************************)
(* core/ip_module.cc: packets go down after a question to arp_module that  *)
(* ip_module waits for in the middle of its handler, and up after a check  *)
(* of the IP header; a packet that fails the check is answered with an     *)
(* ICMP error, which goes down in its place.                               *)
(***************************************************************************)
EXTENDS LinkInt

CONSTANT NoPacket

ASSUME IpModuleAssumption == NoPacket \notin Packet

VARIABLE sending   \* sending[h]: the packet SendPacket is busy with, or NoPacket

IpTypeOK == sending \in [Hosts -> Packet \cup {NoPacket}]

IpInit == sending = [h \in Hosts |-> NoPacket]

Question(p) ==
  [ipaddr |-> p.to, ethernetaddr |-> ETHERNET_BLANK_ADDR, flag |-> "REQUEST"]

\* Fault: SendPacket does not wait for the answer.
InLoopAlways(h) == TRUE

\* The receive in SendPacket is no event: none is taken before it returns.
InLoop(h) == sending[h] = NoPacket

\* The handler that reads a message of n ends in SendPacket(p).
SendPacket(h, n, p) ==
  /\ sending' = [sending EXCEPT ![h] = p]
  /\ MinetReceive(h, "ip_module", n, <<Send("arp_module", Question(p))>>)

EthernetFrame(h, dst, p) ==
  [type |-> "PROTO_IP", src |-> MyEthernetAddr[h], dst |-> dst, packet |-> p]

\* A broadcast needs no entry, and goes out under the blank address.
Resolved(resp, ipaddr) ==
  \/ resp.flag = "RESPONSE_OK"
  \/ resp.ethernetaddr # ETHERNET_BLANK_ADDR
  \/ ipaddr = IP_ADDRESS_BROADCAST

\* The answer: the packet is sent or discarded, and SendPacket returns.
TakeAnswer(h) ==
  /\ sending[h] # NoPacket
  /\ out[h]["ip_module"] = <<>>
  /\ pipe[h][<<"arp_module", "ip_module">>] # <<>>
  /\ LET resp == Received(h, "ip_module", "arp_module") IN
     MinetReceive(h, "ip_module", "arp_module",
       IF Resolved(resp, sending[h].to)
         THEN <<Send("ethernet_mux", EthernetFrame(h, resp.ethernetaddr, sending[h]))>>
         ELSE <<>>)
  /\ sending' = [sending EXCEPT ![h] = NoPacket]

IsForUs(h, p) == p.to \in {h, IP_ADDRESS_BROADCAST}

\* A frame from the link: for another host, faulty, or passed to ip_mux.
FromEthernet(h) ==
  /\ InLoop(h)
  /\ MinetGetNextEvent(h, "ip_module", "ethernet_mux")
  /\ LET p == Received(h, "ip_module", "ethernet_mux").packet IN
     \/ /\ ~ IsForUs(h, p)
        /\ MinetReceive(h, "ip_module", "ethernet_mux", <<>>)
        /\ UNCHANGED sending
     \/ /\ IsForUs(h, p)
        /\ p.fault # "none"
        /\ SendPacket(h, "ethernet_mux", ICMPError(h, p))
     \/ /\ IsForUs(h, p)
        /\ p.fault = "none"
        /\ MinetReceive(h, "ip_module", "ethernet_mux", <<Send("ip_mux", p)>>)
        /\ UNCHANGED sending

FromIpMux(h) ==
  /\ InLoop(h)
  /\ MinetGetNextEvent(h, "ip_module", "ip_mux")
  /\ SendPacket(h, "ip_mux", Received(h, "ip_module", "ip_mux"))

IpModuleStep(h) == TakeAnswer(h) \/ FromEthernet(h) \/ FromIpMux(h)
==============================================================================

------------------------------ MODULE LinkLayer ------------------------------
(***************************************************************************)
(* The lower half of the stack on several hosts: device driver, ethernet   *)
(* mux, arp_module, ip_module and ip_mux of each, joined by bounded pipes, *)
(* between a link and transport modules that are external.                 *)
(***************************************************************************)
EXTENDS ArpModule, IpModule, EthernetMux, IpMux, DeviceDriver, FiniteSets

CONSTANTS
  Senders,       \* hosts whose transports send
  Destinations,  \* addresses they send to
  MaxPackets     \* bound: packets each of those transports sends

ASSUME LinkLayerAssumption == 
  Senders \subseteq Hosts /\ Destinations \subseteq IPAddress /\ MaxPackets \in Nat

VARIABLES
  sent,       \* sent[h][u]: packets transport u of h has sent
  received    \* received[h]: packets h's transports have taken, in order

transportVars == <<sent, received>>
vars == <<pipeVars, cache, sending, driverVars, transportVars>>

Init ==
  /\ PipesInit /\ ArpInit /\ IpInit /\ DriverInit
  /\ sent = [h \in Hosts |-> [u \in Transport |-> 0]]
  /\ received = [h \in Hosts |-> <<>>]

(***************************************************************************)
(* The transports, external: one sends numbered packets and takes what     *)
(* ip_mux has for it.                                                      *)
(***************************************************************************)
TransportSend(h, u, to) ==
  /\ h \in Senders
  /\ sent[h][u] < MaxPackets
  /\ out[h][u] = <<>>
  /\ sent' = [sent EXCEPT ![h][u] = @ + 1]
  /\ out' = [out EXCEPT ![h][u] =
       <<Send("ip_mux", [from |-> h, to |-> to, proto |-> u, fault |-> "none",
                         id |-> sent[h][u] + 1])>>]
  /\ UNCHANGED <<pipe, received>>

TransportReceive(h, u) ==
  /\ MinetGetNextEvent(h, u, "ip_mux")
  /\ MinetReceive(h, u, "ip_mux", <<>>)
  /\ received' = [received EXCEPT ![h] = Append(@, Received(h, u, "ip_mux"))]
  /\ UNCHANGED sent

(***************************************************************************)
(* A step of one module of one host.                                       *)
(***************************************************************************)
Sending(h) ==
  /\ \E m \in Module : MinetSend(h, m)
  /\ UNCHANGED <<cache, sending, driverVars, transportVars>>

Arp(h) == ArpModuleStep(h) /\ UNCHANGED <<sending, driverVars, transportVars>>
Ip(h) == IpModuleStep(h) /\ UNCHANGED <<cache, driverVars, transportVars>>
Muxes(h) ==
  /\ EthernetMuxStep(h) \/ IpMuxStep(h)
  /\ UNCHANGED <<cache, sending, driverVars, transportVars>>
Driver(h) == DriverStep(h) /\ UNCHANGED <<cache, sending, transportVars>>
TransportStep(h) ==
  /\ \E u \in TransportsOf[h] :
       TransportReceive(h, u) \/ \E to \in Destinations : TransportSend(h, u, to)
  /\ UNCHANGED <<cache, sending, driverVars>>

HostStep(h) ==
  Sending(h) \/ Arp(h) \/ Ip(h) \/ Muxes(h) \/ Driver(h) \/ TransportStep(h)

Next == \E h \in Hosts : HostStep(h)

Spec == Init /\ [][Next]_vars

(***************************************************************************)
(* Fairness: every process runs, and its sends go through once there is    *)
(* room. The transports take what they are given; nothing makes them send. *)
(***************************************************************************)
Fairness ==
  \A h \in Hosts :
    /\ \A m \in Module :
         WF_vars(MinetSend(h, m) /\ UNCHANGED <<cache, sending, driverVars, transportVars>>)
    /\ WF_vars(Arp(h))
    /\ WF_vars(Ip(h))
    /\ WF_vars(EthernetMuxStep(h) /\ UNCHANGED <<cache, sending, driverVars, transportVars>>)
    /\ WF_vars(IpMuxStep(h) /\ UNCHANGED <<cache, sending, driverVars, transportVars>>)
    /\ WF_vars(Driver(h))
    /\ \A u \in TransportsOf[h] :
         WF_vars(TransportReceive(h, u) /\ UNCHANGED <<cache, sending, driverVars>>)

FairSpec == Spec /\ Fairness

-----------------------------------------------------------------------------
TypeOK ==
  /\ PipesTypeOK
  /\ ArpTypeOK
  /\ IpTypeOK
  /\ DriverTypeOK
  /\ \A h \in Hosts : received[h] \in Seq(Packet)

\* Messages m has for n: those in the pipe, and those m still has to send.
Pending(h, m, n) ==
  {[by |-> m, place |-> "pipe", at |-> i, msg |-> pipe[h][<<m, n>>][i]] :
     i \in DOMAIN pipe[h][<<m, n>>]}
  \cup {[by |-> m, place |-> "out", at |-> i, msg |-> out[h][m][i].msg] :
          i \in {j \in DOMAIN out[h][m] : out[h][m][j].to = n}}

(***************************************************************************)
(* SendPacket takes whatever arp_module sends next for the answer to its   *)
(* question. While it waits there is exactly one question or answer between*)
(* the two, about the destination of its packet, and none otherwise.       *)
(***************************************************************************)
AnswerIsForQuestion ==
  \A h \in Hosts :
    LET between == Pending(h, "ip_module", "arp_module")
                     \cup Pending(h, "arp_module", "ip_module")
    IN IF sending[h] = NoPacket
         THEN between = {}
         ELSE \E x \in between : between = {x} /\ x.msg.ipaddr = sending[h].to

(***************************************************************************)
(* What arp_module learns, over a lossy link and in any order, never leads *)
(* a packet astray: a frame with a packet for a host carries that host's   *)
(* Ethernet address.                                                       *)
(***************************************************************************)
FramesFindTheirHost ==
  \A g \in Hosts : \A i \in DOMAIN wire[g] :
    LET f == wire[g][i] IN
    f.type = "PROTO_IP" /\ f.packet.to \in Hosts => f.dst = MyEthernetAddr[f.packet.to]

(***************************************************************************)
(* The packets a transport takes from its peer on another host come in the *)
(* order they were sent, none of them twice.                               *)
(***************************************************************************)
DeliveredInOrder ==
  \A h \in Hosts : \A i, j \in DOMAIN received[h] :
    LET p == received[h][i]
        q == received[h][j]
    IN i < j /\ p.from = q.from /\ p.proto = q.proto /\ p.id # 0 /\ q.id # 0
         => p.id < q.id

(***************************************************************************)
(* Pipes can fill, and modules that write to each other can then wait for  *)
(* each other. The device driver and ethernet_mux never do, however small  *)
(* the pipes: the driver takes a frame off the link only when ethernet_mux *)
(* has none for it, and ethernet_mux takes the driver's frames before      *)
(* anyone else's.                                                          *)
(***************************************************************************)
DriverAndMuxNeverDeadlock ==
  \A h \in Hosts : ~ (/\ BlockedOn(h, "device_driver", "ethernet_mux")
                     /\ BlockedOn(h, "ethernet_mux", "device_driver"))

(***************************************************************************)
(* With room in the pipes all traffic comes to rest: no module waits for   *)
(* ever, and ARP packets and ICMP errors do not breed each other.          *)
(***************************************************************************)
Quiet ==
  \A h \in Hosts :
    /\ sending[h] = NoPacket
    /\ wire[h] = <<>>
    /\ \A m \in Module : out[h][m] = <<>>
    /\ \A e \in Ends : pipe[h][e] = <<>>

TrafficDrains == <>[]Quiet

(***************************************************************************)
(* ip_module drops a packet to a host that its arp_module does not know,   *)
(* and nobody repeats it. But on a link that loses nothing the drop is the *)
(* last: arp_module gets to know the host.                                 *)
(***************************************************************************)
Unknown(h, g) ==
  \E x \in Pending(h, "arp_module", "ip_module") :
    x.msg = [ipaddr |-> g, ethernetaddr |-> ETHERNET_BLANK_ADDR,
             flag |-> "RESPONSE_UNKNOWN"]

AddressIsLearnt ==
  \A g, h \in Hosts : Unknown(h, g) ~> g \in DOMAIN cache[h]
==============================================================================

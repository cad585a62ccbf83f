------------------------------ MODULE LinkProofs ------------------------------
(***************************************************************************)
(* Proofs about LinkLayer, for any hosts, pipes of any capacity and any    *)
(* traffic over a link that loses frames and damages headers:              *)
(*  - the driver and ethernet_mux never wait for each other (Ordered: the  *)
(*    order in which each serves its inputs rules it out);                 *)
(*  - every message is of its type and true (HonestInv), and ip_module and *)
(*    arp_module have one question or answer between them (Exchange), so   *)
(*    that each answer is for its question and each frame finds its host;  *)
(*  - what a transport sends stays in order over all the stages of its way *)
(*    (FlowsInOrder), so that it is taken in the order it was sent.        *)
(***************************************************************************)
EXTENDS LinkLayer, TLAPS

(***************************************************************************)
(* Both the driver and ethernet_mux write to the other, so full pipes do   *)
(* not rule out that they wait for each other. Ordered does: while the     *)
(* driver holds a frame that has others before it, a frame that            *)
(* ethernet_mux holds for the driver finds its pipe empty.                 *)
(***************************************************************************)
Up == <<"device_driver", "ethernet_mux">>
Down == <<"ethernet_mux", "device_driver">>

Shape ==
  /\ DOMAIN pipe = Hosts /\ \A h \in Hosts : DOMAIN pipe[h] = Ends
  /\ DOMAIN out = Hosts /\ \A h \in Hosts : DOMAIN out[h] = Module

\* A handler of m has one send to perform at most.
OneSend(h, m) == out[h][m] = <<>> \/ out[h][m] = <<Head(out[h][m])>>

HoldsForDriver(h) ==
  out[h]["ethernet_mux"] # <<>> /\ Head(out[h]["ethernet_mux"]).to = "device_driver"

Ordered(h) ==
  out[h]["device_driver"] # <<>> /\ pipe[h][Up] # <<>> /\ HoldsForDriver(h)
    => pipe[h][Down] = <<>>

IInv ==
  /\ Shape
  /\ \A h \in Hosts : /\ OneSend(h, "device_driver")
                      /\ OneSend(h, "ethernet_mux")
                      /\ Ordered(h)

-----------------------------------------------------------------------------
\* The pipes between the driver and ethernet_mux exist.
LEMMA UpAndDown == Up \in Ends /\ Down \in Ends
<1>1. "device_driver" \in Module /\ "ethernet_mux" \in Module
  BY DEF Module, Transport
<1>2. MyFifos["device_driver"] = <<"ethernet_mux">>
  BY <1>1 DEF MyFifos, Transport
<1>3. MyFifos["ethernet_mux"] = <<"device_driver", "arp_module", "ip_module">>
  BY <1>1 DEF MyFifos, Transport
<1>4. "ethernet_mux" \in Peers("device_driver")
  BY <1>2 DEF Peers
<1>5. "device_driver" \in Peers("ethernet_mux")
  BY <1>3 DEF Peers
<1> QED
  BY <1>1, <1>4, <1>5 DEF Ends, Up, Down

\* ethernet_mux takes a frame of arp_module or ip_module only when the driver
\* has none for it.
LEMMA DriverComesFirst ==
  ASSUME NEW h, NEW n \in {"arp_module", "ip_module"},
         MinetGetNextEvent(h, "ethernet_mux", n)
  PROVE  pipe[h][Up] = <<>>
<1>1. "ethernet_mux" \in Module
  BY DEF Module
<1>2. MyFifos["ethernet_mux"] = <<"device_driver", "arp_module", "ip_module">>
  BY <1>1 DEF MyFifos, Transport
<1>3. PICK i \in 1 .. 3 :
        /\ MyFifos["ethernet_mux"][i] = n
        /\ \A j \in 1 .. i - 1 :
             pipe[h][<<MyFifos["ethernet_mux"][j], "ethernet_mux">>] = <<>>
  BY <1>2 DEF MinetGetNextEvent
<1>4. i \in {2, 3}
  BY <1>2, <1>3
<1>5. 1 \in 1 .. i - 1 /\ MyFifos["ethernet_mux"][1] = "device_driver"
  BY <1>2, <1>4
<1> QED
  BY <1>3, <1>5 DEF Up

\* What a handler of module m does when it reads from n and goes on to at most
\* one send keeps the shape, and touches one pipe and one list of sends.
LEMMA ReceiveEffect ==
  ASSUME Shape, NEW g \in Hosts, NEW m \in Module, NEW n, NEW sends,
         MinetReceive(g, m, n, sends)
  PROVE  /\ Shape'
         /\ \A h \in Hosts : \A k \in Module :
              out'[h][k] = IF h = g /\ k = m THEN sends ELSE out[h][k]
         /\ \A h \in Hosts : \A e \in Ends :
              pipe'[h][e] = IF h = g /\ e = <<n, m>> THEN Tail(pipe[h][e])
                                                   ELSE pipe[h][e]
BY DEF Shape, MinetReceive

LEMMA SendEffect ==
  ASSUME Shape, NEW g \in Hosts, NEW m \in Module, MinetSend(g, m)
  PROVE  /\ Shape'
         /\ out[g][m] # <<>>
         /\ \A h \in Hosts : \A k \in Module :
              out'[h][k] = IF h = g /\ k = m THEN Tail(out[h][k]) ELSE out[h][k]
         /\ \A h \in Hosts : \A e \in Ends :
              h # g \/ e # <<m, Head(out[g][m]).to>> => pipe'[h][e] = pipe[h][e]
BY DEF Shape, MinetSend

-----------------------------------------------------------------------------
LEMMA InitOrdered == Init => IInv
BY UpAndDown DEF Init, PipesInit, IInv, Shape, OneSend, Ordered, Module, Transport

\* Steps of other modules: neither the driver's nor ethernet_mux's sends change,
\* and a pipe between the two does not either.
LEMMA OthersKeepOrder ==
  ASSUME IInv, Shape',
         \A h \in Hosts : /\ out'[h]["device_driver"] = out[h]["device_driver"]
                           /\ out'[h]["ethernet_mux"] = out[h]["ethernet_mux"]
                           /\ pipe'[h][Up] = pipe[h][Up]
                           /\ pipe'[h][Down] = pipe[h][Down]
  PROVE  IInv'
BY DEF IInv, OneSend, Ordered, HoldsForDriver

LEMMA ModuleNames ==
  {"device_driver", "ethernet_mux", "arp_module", "ip_module", "ip_mux"}
    \cup Transport \subseteq Module
BY DEF Module

\* A message read by another module.
LEMMA OtherReceives ==
  ASSUME IInv, NEW g \in Hosts,
         NEW m \in Module \ {"device_driver", "ethernet_mux"}, NEW n, NEW sends,
         MinetReceive(g, m, n, sends)
  PROVE  IInv'
<1>1. Shape
  BY DEF IInv
<1>2. Up # <<n, m>> /\ Down # <<n, m>>
  BY DEF Up, Down
<1> QED
  BY <1>1, <1>2, ReceiveEffect, UpAndDown, ModuleNames, OthersKeepOrder

LEMMA TailOfOne == ASSUME NEW x PROVE Tail(<<x>>) = <<>>
OBVIOUS

\* After its send the driver, and ethernet_mux, have none left.
LEMMA LastSend ==
  ASSUME NEW g, NEW m, OneSend(g, m), out[g][m] # <<>>
  PROVE  Tail(out[g][m]) = <<>>
<1>1. PICK x : out[g][m] = <<x>>
  BY DEF OneSend
<1> QED
  BY <1>1, TailOfOne

\* A send of any module. The driver's ends its busy time, ethernet_mux's its own.
LEMMA SendStep ==
  ASSUME IInv, NEW g \in Hosts, NEW m \in Module, MinetSend(g, m)
  PROVE  IInv'
<1> DEFINE to == Head(out[g][m]).to
<1>1. /\ Shape' /\ out[g][m] # <<>>
      /\ \A h \in Hosts : \A k \in Module :
           out'[h][k] = IF h = g /\ k = m THEN Tail(out[h][k]) ELSE out[h][k]
      /\ \A h \in Hosts : \A e \in Ends :
           h # g \/ e # <<m, to>> => pipe'[h][e] = pipe[h][e]
  BY SendEffect DEF IInv
<1> HIDE DEF to
<1>2. CASE m = "device_driver"
  <2>1. Tail(out[g][m]) = <<>>
    BY <1>1, <1>2, LastSend DEF IInv
  <2>2. Down # <<m, to>>
    BY <1>2 DEF Down
  <2>3. \A h \in Hosts : /\ out'[h]["ethernet_mux"] = out[h]["ethernet_mux"]
                        /\ pipe'[h][Down] = pipe[h][Down]
    BY <1>1, <1>2, <2>2, UpAndDown, ModuleNames
  <2>4. out'[g]["device_driver"] = <<>>
    BY <1>1, <1>2, <2>1, ModuleNames
  <2>5. \A h \in Hosts \ {g} : /\ out'[h]["device_driver"] = out[h]["device_driver"]
                              /\ pipe'[h][Up] = pipe[h][Up]
    BY <1>1, UpAndDown, ModuleNames
  <2> QED
    BY <1>1, <2>3, <2>4, <2>5 DEF IInv, OneSend, Ordered, HoldsForDriver
<1>3. CASE m = "ethernet_mux"
  <2>1. Tail(out[g][m]) = <<>>
    BY <1>1, <1>3, LastSend DEF IInv
  <2>2. Up # <<m, to>>
    BY <1>3 DEF Up
  <2>3. \A h \in Hosts : /\ out'[h]["device_driver"] = out[h]["device_driver"]
                        /\ pipe'[h][Up] = pipe[h][Up]
    BY <1>1, <1>3, <2>2, UpAndDown, ModuleNames
  <2>4. out'[g]["ethernet_mux"] = <<>>
    BY <1>1, <1>3, <2>1, ModuleNames
  <2>5. \A h \in Hosts \ {g} : /\ out'[h]["ethernet_mux"] = out[h]["ethernet_mux"]
                              /\ pipe'[h][Down] = pipe[h][Down]
    BY <1>1, UpAndDown, ModuleNames
  <2> QED
    BY <1>1, <2>3, <2>4, <2>5 DEF IInv, OneSend, Ordered, HoldsForDriver
<1>4. CASE m \notin {"device_driver", "ethernet_mux"}
  <2>1. Up # <<m, to>> /\ Down # <<m, to>>
    BY <1>4 DEF Up, Down
  <2> QED
    BY <1>1, <1>4, <2>1, UpAndDown, ModuleNames, OthersKeepOrder
<1> QED
  BY <1>2, <1>3, <1>4

-----------------------------------------------------------------------------
\* ethernet_mux takes the driver's frame and holds it for another module, or
\* takes another module's when the driver has sent none.
LEMMA EthernetMuxStepOrdered ==
  ASSUME IInv, NEW g \in Hosts, EthernetMuxStep(g)
  PROVE  IInv'
<1>0. Shape /\ "ethernet_mux" \in Module
  BY ModuleNames DEF IInv
<1>1. CASE Dispatch(g)
  <2> DEFINE f == Received(g, "ethernet_mux", "device_driver")
             sends == <<Send(Upward(f), f)>>
  <2>1. MinetReceive(g, "ethernet_mux", "device_driver", sends)
    BY <1>1 DEF Dispatch
  <2>2. sends # <<>> /\ sends = <<Head(sends)>> /\ Head(sends).to # "device_driver"
    BY DEF Send, Upward
  <2> HIDE DEF sends
  <2>3. Down # <<"device_driver", "ethernet_mux">>
    BY DEF Down
  <2> QED
    BY <1>0, <2>1, <2>2, <2>3, ReceiveEffect, UpAndDown, ModuleNames
       DEF IInv, OneSend, Ordered, HoldsForDriver
<1>2. ASSUME NEW n \in {"arp_module", "ip_module"}, PassDown(g, n)
      PROVE  IInv'
  <2> DEFINE sends == <<Send("device_driver", Received(g, "ethernet_mux", n))>>
  <2>1. MinetReceive(g, "ethernet_mux", n, sends)
    BY <1>2 DEF PassDown
  <2>2. pipe[g][Up] = <<>>
    BY <1>2, DriverComesFirst DEF PassDown
  <2>3. sends = <<Head(sends)>>
    OBVIOUS
  <2> HIDE DEF sends
  <2>4. Up # <<n, "ethernet_mux">> /\ Down # <<n, "ethernet_mux">>
    BY DEF Up, Down
  <2> QED
    BY <1>0, <2>1, <2>2, <2>3, <2>4, ReceiveEffect, UpAndDown, ModuleNames
       DEF IInv, OneSend, Ordered, HoldsForDriver
<1> QED
  BY <1>1, <1>2 DEF EthernetMuxStep

\* The driver sends what ethernet_mux has for it, and reads the link only when
\* that is nothing.
LEMMA DriverStepOrdered ==
  ASSUME IInv, NEW g \in Hosts, DriverStep(g)
  PROVE  IInv'
<1>0. Shape /\ "device_driver" \in Module
  BY ModuleNames DEF IInv
<1>1. CASE ProcessOutgoing(g)
  <2>1. MinetReceive(g, "device_driver", "ethernet_mux", <<>>)
    BY <1>1 DEF ProcessOutgoing
  <2>2. Up # <<"ethernet_mux", "device_driver">>
    BY DEF Up
  <2> QED
    BY <1>0, <2>1, <2>2, ReceiveEffect, UpAndDown, ModuleNames
       DEF IInv, OneSend, Ordered, HoldsForDriver
<1>2. CASE ProcessIncoming(g)
  <2>1. pipe[g][Down] = <<>> /\ pipe' = pipe
    BY <1>2 DEF ProcessIncoming, PcapIsNext, Down
  <2>2. PICK f : out' = [out EXCEPT ![g]["device_driver"] = <<Send("ethernet_mux", f)>>]
    BY <1>2 DEF ProcessIncoming
  <2>3. \A h \in Hosts : \A k \in Module :
          out'[h][k] = IF h = g /\ k = "device_driver"
                         THEN <<Send("ethernet_mux", f)>> ELSE out[h][k]
    BY <1>0, <2>2 DEF Shape
  <2>4. Shape'
    BY <1>0, <2>1, <2>2 DEF Shape
  <2> QED
    BY <1>0, <2>1, <2>3, <2>4, UpAndDown, ModuleNames
       DEF IInv, OneSend, Ordered, HoldsForDriver
<1> QED
  BY <1>1, <1>2 DEF DriverStep

\* A transport starts a send of its own; no pipe changes.
LEMMA TransportSendOrdered ==
  ASSUME IInv, NEW g \in Hosts, NEW u \in TransportsOf[g], NEW to,
         TransportSend(g, u, to)
  PROVE  IInv'
<1>1. u \in Transport /\ u \notin {"device_driver", "ethernet_mux"}
  BY IpMuxAssumption DEF Transport
<1>2. pipe' = pipe
  BY DEF TransportSend
<1>3. PICK s : out' = [out EXCEPT ![g][u] = s]
  BY DEF TransportSend
<1>4. Shape
  BY DEF IInv
<1>5. Shape'
  BY <1>2, <1>3, <1>4 DEF Shape
<1>6. \A h \in Hosts : /\ out'[h]["device_driver"] = out[h]["device_driver"]
                      /\ out'[h]["ethernet_mux"] = out[h]["ethernet_mux"]
  BY <1>1, <1>3, <1>4, ModuleNames DEF Shape
<1> QED
  BY <1>2, <1>5, <1>6, OthersKeepOrder

\* Every step of every host keeps the order.
LEMMA NextOrdered == IInv /\ [Next]_vars => IInv'
<1> SUFFICES ASSUME IInv, [Next]_vars PROVE IInv'
  OBVIOUS
<1>1. CASE UNCHANGED vars
  BY <1>1 DEF vars, pipeVars, IInv, Shape, OneSend, Ordered, HoldsForDriver
<1>2. ASSUME NEW g \in Hosts, HostStep(g) PROVE IInv'
  <2>0. /\ {"arp_module", "ip_module", "ip_mux"}
              \subseteq Module \ {"device_driver", "ethernet_mux"}
        /\ Transport \subseteq Module \ {"device_driver", "ethernet_mux"}
    BY ModuleNames DEF Transport
  <2>1. CASE Sending(g)
    BY <2>1, SendStep DEF Sending
  <2>2. CASE Arp(g)
    BY <2>0, <2>2, OtherReceives DEF Arp, ArpModuleStep, LocalRequest, RemotePacket
  <2>3. CASE Ip(g)
    BY <2>0, <2>3, OtherReceives
       DEF Ip, IpModuleStep, TakeAnswer, FromEthernet, FromIpMux, SendPacket
  <2>4. CASE EthernetMuxStep(g)
    BY <2>4, EthernetMuxStepOrdered
  <2>5. CASE IpMuxStep(g)
    BY <2>0, <2>5, OtherReceives DEF IpMuxStep, Deliver, FromTransport
  <2>6. CASE Driver(g)
    BY <2>6, DriverStepOrdered DEF Driver
  <2>7. CASE TransportStep(g)
    <3>1. PICK u \in TransportsOf[g] :
            TransportReceive(g, u) \/ \E to \in Destinations : TransportSend(g, u, to)
      BY <2>7 DEF TransportStep
    <3>2. u \in Transport
      BY IpMuxAssumption
    <3>3. CASE TransportReceive(g, u)
      BY <2>0, <3>2, <3>3, OtherReceives DEF TransportReceive
    <3>4. CASE \E to \in Destinations : TransportSend(g, u, to)
      BY <3>4, TransportSendOrdered
    <3> QED
      BY <3>1, <3>3, <3>4
  <2> QED
    BY <1>2, <2>1, <2>2, <2>3, <2>4, <2>5, <2>6, <2>7 DEF HostStep, Muxes
<1> QED
  BY <1>1, <1>2 DEF Next

\* Were both blocked, both pipes would be full, and the mux's not empty.
LEMMA OrderedExcludesDeadlock == IInv => DriverAndMuxNeverDeadlock
<1> SUFFICES ASSUME IInv, NEW h \in Hosts,
                    BlockedOn(h, "device_driver", "ethernet_mux"),
                    BlockedOn(h, "ethernet_mux", "device_driver")
             PROVE  FALSE
  BY DEF DriverAndMuxNeverDeadlock
<1>1. 0 < Capacity /\ Len(<<>>) = 0
  BY MinetPipesAssumption
<1>2. \A m, n : ~ HasRoom(h, m, n) => pipe[h][<<m, n>>] # <<>>
  BY <1>1 DEF HasRoom
<1>3. /\ out[h]["device_driver"] # <<>> /\ pipe[h][Up] # <<>>
      /\ HoldsForDriver(h) /\ pipe[h][Down] # <<>>
  BY <1>2 DEF BlockedOn, HoldsForDriver, Up, Down
<1> QED
  BY <1>3 DEF IInv, Ordered

(***************************************************************************)
(* For pipes of any capacity, any hosts and any traffic: the device driver *)
(* and ethernet_mux of a host are never both blocked in a send to the      *)
(* other, because each reads the other's pipe before its second source.    *)
(***************************************************************************)
THEOREM NoDriverMuxDeadlock == Spec => []DriverAndMuxNeverDeadlock
<1>1. Spec => []IInv
  BY InitOrdered, NextOrdered, PTL DEF Spec
<1> QED
  BY <1>1, OrderedExcludesDeadlock, PTL

-----------------------------------------------------------------------------
(***************************************************************************)
(* What the modules tell each other is true: every ARP packet names its    *)
(* sender with the sender's own Ethernet address, every answer of          *)
(* arp_module is the address of the host in question or none, and every    *)
(* IP frame for a host goes to that host's address. The sets below are the *)
(* types of LinkInt cut down to such messages.                             *)
(***************************************************************************)
HonestAnswer ==
  {x \in ARPRequestResponse :
     IF x.flag = "RESPONSE_OK"
       THEN x.ipaddr \in Hosts /\ x.ethernetaddr = MyEthernetAddr[x.ipaddr]
       ELSE x.ethernetaddr = ETHERNET_BLANK_ADDR}

HonestQuestion ==
  {x \in ARPRequestResponse :
     x.flag = "REQUEST" /\ x.ethernetaddr = ETHERNET_BLANK_ADDR}

HonestArp ==
  {f \in ArpFrame : f.senderIp \in Hosts /\ f.senderHw = MyEthernetAddr[f.senderIp]}

HonestIp ==
  {f \in IpFrame : f.packet.to \in Hosts => f.dst = MyEthernetAddr[f.packet.to]}

HonestFrame == HonestArp \cup HonestIp

\* Packets h makes, frames with them, and packets whose header is in order.
OwnPacket(h) == {p \in Packet : p.from = h}
OwnFrame(h) == {f \in HonestIp : f.packet.from = h}
SoundPacket == {p \in Packet : p.fault = "none"}

Honest(h, m, n) ==
  CASE <<m, n>> = <<"arp_module", "ip_module">> -> HonestAnswer
    [] <<m, n>> = <<"ip_module", "arp_module">> -> HonestQuestion
    [] {m, n} = {"arp_module", "ethernet_mux"} -> HonestArp
    [] <<m, n>> = <<"ip_module", "ethernet_mux">> -> OwnFrame(h)
    [] <<m, n>> = <<"ethernet_mux", "ip_module">> -> HonestIp
    [] <<m, n>> = <<"ethernet_mux", "device_driver">> -> HonestArp \cup OwnFrame(h)
    [] <<m, n>> = <<"device_driver", "ethernet_mux">> -> HonestFrame
    [] <<m, n>> = <<"ip_mux", "ip_module">> -> OwnPacket(h)
    [] <<m, n>> = <<"ip_module", "ip_mux">> -> SoundPacket
    [] m \in Transport /\ n = "ip_mux" -> {p \in OwnPacket(h) : p.proto = m}
    [] OTHER -> {p \in SoundPacket : p.proto = n}

\* Sends of m: to its peers, what is honest for each. Only arp_module's handler
\* has two to perform.
SendsOf(h, m) == UNION {[to : {n}, msg : Honest(h, m, n)] : n \in Peers(m)}
SendLists(h, m) ==
  {s \in Seq(SendsOf(h, m)) : m = "arp_module" \/ s = <<>> \/ s = <<Head(s)>>}

PipesHonest ==
  \A h \in Hosts :
    /\ \A e \in Ends : /\ pipe[h][e] \in Seq(Honest(h, e[1], e[2]))
                       /\ Len(pipe[h][e]) <= Capacity
    /\ \A m \in Module : out[h][m] \in SendLists(h, m)

SendingHonest ==
  /\ sending = [h \in Hosts |-> sending[h]]
  /\ \A h \in Hosts : sending[h] \in OwnPacket(h) \cup {NoPacket}

CacheHonest ==
  /\ DOMAIN cache = Hosts
  /\ \A h \in Hosts : DOMAIN cache[h] \subseteq Hosts
  /\ \A h \in Hosts : \A a \in DOMAIN cache[h] : cache[h][a] = Known(a, MyEthernetAddr[a])

LinkHonest ==
  /\ wire \in [Hosts -> Seq(HonestFrame)]
  /\ faults \in 0 .. MaxFaults

TransportsOK ==
  /\ sent \in [Hosts -> [Transport -> Nat]]
  /\ received \in [Hosts -> Seq(SoundPacket)]

(***************************************************************************)
(* The exchange between ip_module and arp_module, in four phases: the      *)
(* question to be sent, sent, the answer to be sent, sent.                 *)
(***************************************************************************)
Ask == <<"ip_module", "arp_module">>
Tell == <<"arp_module", "ip_module">>

SendsNothing(h, m, n) == \A i \in DOMAIN out[h][m] : out[h][m][i].to # n

About(x, p) == x.ipaddr = p.to

AskDue(h) ==
  /\ \E x : About(x, sending[h]) /\ out[h]["ip_module"] = <<Send("arp_module", x)>>
  /\ pipe[h][Ask] = <<>> /\ pipe[h][Tell] = <<>> /\ SendsNothing(h, "arp_module", "ip_module")

AskDone(h) ==
  /\ out[h]["ip_module"] = <<>>
  /\ \E x : About(x, sending[h]) /\ pipe[h][Ask] = <<x>>
  /\ pipe[h][Tell] = <<>> /\ SendsNothing(h, "arp_module", "ip_module")

TellDue(h) ==
  /\ out[h]["ip_module"] = <<>>
  /\ pipe[h][Ask] = <<>> /\ pipe[h][Tell] = <<>>
  /\ out[h]["arp_module"] # <<>>
  /\ Head(out[h]["arp_module"]).to = "ip_module"
  /\ About(Head(out[h]["arp_module"]).msg, sending[h])
  /\ \A i \in DOMAIN out[h]["arp_module"] : i # 1 => out[h]["arp_module"][i].to # "ip_module"

TellDone(h) ==
  /\ out[h]["ip_module"] = <<>>
  /\ pipe[h][Ask] = <<>>
  /\ \E x : About(x, sending[h]) /\ pipe[h][Tell] = <<x>>
  /\ SendsNothing(h, "arp_module", "ip_module")

NoExchange(h) ==
  /\ SendsNothing(h, "ip_module", "arp_module")
  /\ pipe[h][Ask] = <<>> /\ pipe[h][Tell] = <<>> /\ SendsNothing(h, "arp_module", "ip_module")

Exchange(h) ==
  IF sending[h] = NoPacket
    THEN NoExchange(h)
    ELSE AskDue(h) \/ AskDone(h) \/ TellDue(h) \/ TellDone(h)

LinkInv ==
  /\ Shape
  /\ PipesHonest
  /\ CacheHonest
  /\ SendingHonest
  /\ LinkHonest
  /\ TransportsOK
  /\ \A h \in Hosts : Exchange(h) /\ OneSend(h, "ip_module")

-----------------------------------------------------------------------------
LEMMA PeersOf ==
  /\ Peers("device_driver") = {"ethernet_mux"}
  /\ Peers("ethernet_mux") = {"device_driver", "arp_module", "ip_module"}
  /\ Peers("arp_module") = {"ethernet_mux", "ip_module"}
  /\ Peers("ip_module") = {"ethernet_mux", "arp_module", "ip_mux"}
  /\ Peers("ip_mux") = {"ip_module"} \cup Transport
  /\ \A u \in Transport : Peers(u) = {"ip_mux"}
<1>1. MyFifos["device_driver"] = <<"ethernet_mux">>
  BY ModuleNames DEF MyFifos, Transport
<1>2. MyFifos["ethernet_mux"] = <<"device_driver", "arp_module", "ip_module">>
  BY ModuleNames DEF MyFifos, Transport
<1>3. MyFifos["arp_module"] = <<"ethernet_mux", "ip_module">>
  BY ModuleNames DEF MyFifos, Transport
<1>4. MyFifos["ip_module"] = <<"ethernet_mux", "arp_module", "ip_mux">>
  BY ModuleNames DEF MyFifos, Transport
<1>5. MyFifos["ip_mux"] = <<"ip_module", "udp_module", "tcp_module",
                            "icmp_module", "ipother_module">>
  BY ModuleNames DEF MyFifos, Transport
<1>6. \A u \in Transport : MyFifos[u] = <<"ip_mux">>
  BY ModuleNames DEF MyFifos, Transport
<1>7. Peers("device_driver") = {"ethernet_mux"}
  BY <1>1 DEF Peers
<1>8. Peers("ethernet_mux") = {"device_driver", "arp_module", "ip_module"}
  BY <1>2 DEF Peers
<1>9. Peers("arp_module") = {"ethernet_mux", "ip_module"}
  BY <1>3 DEF Peers
<1>10. Peers("ip_module") = {"ethernet_mux", "arp_module", "ip_mux"}
  BY <1>4 DEF Peers
<1>11. Peers("ip_mux") = {"ip_module"} \cup Transport
  BY <1>5 DEF Peers, Transport
<1>12. \A u \in Transport : Peers(u) = {"ip_mux"}
  BY <1>6 DEF Peers
<1> QED
  BY <1>7, <1>8, <1>9, <1>10, <1>11, <1>12

\* Connected modules: the pipes there are, and those ip_module and arp_module use.
LEMMA EndsOf ==
  /\ \A m, n : <<m, n>> \in Ends <=> m \in Module /\ n \in Module /\ n \in Peers(m)
  /\ \A e \in Ends : e = <<e[1], e[2]>>
  /\ Ask \in Ends /\ Tell \in Ends
<1>1. \A m, n : <<m, n>> \in Ends <=> m \in Module /\ n \in Module /\ n \in Peers(m)
  BY DEF Ends
<1>2. \A e \in Ends : e = <<e[1], e[2]>>
  BY DEF Ends
<1> QED
  BY <1>1, <1>2, PeersOf, ModuleNames DEF Ask, Tell

LEMMA HonestOf ==
  ASSUME NEW h
  PROVE  /\ Honest(h, "arp_module", "ip_module") = HonestAnswer
         /\ Honest(h, "ip_module", "arp_module") = HonestQuestion
         /\ Honest(h, "arp_module", "ethernet_mux") = HonestArp
         /\ Honest(h, "ethernet_mux", "arp_module") = HonestArp
         /\ Honest(h, "ip_module", "ethernet_mux") = OwnFrame(h)
         /\ Honest(h, "ethernet_mux", "ip_module") = HonestIp
         /\ Honest(h, "device_driver", "ethernet_mux") = HonestFrame
         /\ Honest(h, "ethernet_mux", "device_driver") = HonestArp \cup OwnFrame(h)
         /\ Honest(h, "ip_mux", "ip_module") = OwnPacket(h)
         /\ Honest(h, "ip_module", "ip_mux") = SoundPacket
         /\ \A u \in Transport :
              /\ Honest(h, u, "ip_mux") = {p \in OwnPacket(h) : p.proto = u}
              /\ Honest(h, "ip_mux", u) = {p \in SoundPacket : p.proto = u}
<1>1. \A u \in Transport :
        /\ Honest(h, u, "ip_mux") = {p \in OwnPacket(h) : p.proto = u}
        /\ Honest(h, "ip_mux", u) = {p \in SoundPacket : p.proto = u}
  BY DEF Honest, Transport
<1>2. "ip_mux" \notin Transport /\ "ip_module" \notin Transport
  BY DEF Transport
<1> QED
  BY <1>1, <1>2 DEF Honest

\* Honest messages are of the types LinkInt gives them.
LEMMA HonestIsTyped ==
  ASSUME NEW h, NEW m \in Module, NEW n \in Peers(m)
  PROVE  Honest(h, m, n) \subseteq Carries(m, n)
BY PeersOf
   DEF Honest, Carries, HonestAnswer, HonestQuestion, HonestArp, HonestIp, HonestFrame, Frame,
       OwnPacket, OwnFrame, SoundPacket, Module

\* A list of sends of m: each goes to a peer, with a message for that peer.
LEMMA SendsTyped ==
  ASSUME NEW h, NEW m
  PROVE  /\ \A s \in SendsOf(h, m) : s.to \in Peers(m) /\ s.msg \in Honest(h, m, s.to)
         /\ \A n \in Peers(m) : \A x \in Honest(h, m, n) : Send(n, x) \in SendsOf(h, m)
         /\ \A n \in Peers(m) : \A x \in Honest(h, m, n) : <<Send(n, x)>> \in SendLists(h, m)
         /\ <<>> \in SendLists(h, m)
<1>1. /\ \A s \in SendsOf(h, m) : s.to \in Peers(m) /\ s.msg \in Honest(h, m, s.to)
      /\ \A n \in Peers(m) : \A x \in Honest(h, m, n) : Send(n, x) \in SendsOf(h, m)
  BY DEF SendsOf, Send
<1>2. \A s \in SendsOf(h, m) : <<s>> \in SendLists(h, m)
  BY DEF SendLists
<1> QED
  BY <1>1, <1>2 DEF SendLists

LEMMA TailOfSends ==
  ASSUME NEW h, NEW m, NEW q \in SendLists(h, m), q # <<>>
  PROVE  Head(q) \in SendsOf(h, m) /\ Tail(q) \in SendLists(h, m)
<1>1. q \in Seq(SendsOf(h, m))
  BY DEF SendLists
<1>2. Head(q) \in SendsOf(h, m) /\ Tail(q) \in Seq(SendsOf(h, m))
  BY <1>1
<1>3. m = "arp_module" \/ Tail(q) = <<>>
  <2>1. ASSUME q = <<Head(q)>> PROVE Tail(q) = <<>>
    <3>1. \A x : Tail(<<x>>) = <<>>
      OBVIOUS
    <3> QED
      BY <2>1, <3>1
  <2> QED
    BY <2>1 DEF SendLists
<1> QED
  BY <1>2, <1>3 DEF SendLists

LEMMA HeadTail ==
  ASSUME NEW S, NEW q \in Seq(S), q # <<>>
  PROVE  /\ Head(q) \in S /\ Tail(q) \in Seq(S)
         /\ Len(Tail(q)) = Len(q) - 1
         /\ Len(q) \in Nat \ {0} /\ DOMAIN q = 1 .. Len(q)
         /\ Head(q) = q[1]
         /\ \A i \in DOMAIN Tail(q) : i + 1 \in DOMAIN q /\ Tail(q)[i] = q[i + 1]
OBVIOUS

-----------------------------------------------------------------------------
\* A handler of m that reads from its peer n and goes on to honest sends keeps
\* the pipes honest, and what it has read is honest.
LEMMA ReceiveHonest ==
  ASSUME Shape, PipesHonest, NEW g \in Hosts, NEW m \in Module, NEW n \in Module,
         <<n, m>> \in Ends, pipe[g][<<n, m>>] # <<>>, NEW sends \in SendLists(g, m),
         MinetReceive(g, m, n, sends)
  PROVE  PipesHonest'
<1>1. /\ \A h \in Hosts : \A k \in Module :
           out'[h][k] = IF h = g /\ k = m THEN sends ELSE out[h][k]
      /\ \A h \in Hosts : \A e \in Ends :
           pipe'[h][e] = IF h = g /\ e = <<n, m>> THEN Tail(pipe[h][e]) ELSE pipe[h][e]
  BY ReceiveEffect
<1>2. \A h \in Hosts : \A k \in Module : out'[h][k] \in SendLists(h, k)
  BY <1>1 DEF PipesHonest
<1>3. \A h \in Hosts : \A e \in Ends :
        pipe'[h][e] \in Seq(Honest(h, e[1], e[2])) /\ Len(pipe'[h][e]) <= Capacity
  <2> SUFFICES ASSUME NEW h \in Hosts, NEW e \in Ends
               PROVE  pipe'[h][e] \in Seq(Honest(h, e[1], e[2])) /\ Len(pipe'[h][e]) <= Capacity
    OBVIOUS
  <2>1. pipe[h][e] \in Seq(Honest(h, e[1], e[2])) /\ Len(pipe[h][e]) <= Capacity
    BY DEF PipesHonest
  <2>2. CASE h = g /\ e = <<n, m>>
    <3>1. pipe[h][e] # <<>> /\ pipe'[h][e] = Tail(pipe[h][e])
      BY <1>1, <2>2
    <3>2. /\ Tail(pipe[h][e]) \in Seq(Honest(h, e[1], e[2]))
          /\ Len(Tail(pipe[h][e])) = Len(pipe[h][e]) - 1 /\ Len(pipe[h][e]) \in Nat
      BY <2>1, <3>1, HeadTail
    <3> QED
      BY <2>1, <3>1, <3>2, MinetPipesAssumption
  <2>3. CASE ~ (h = g /\ e = <<n, m>>)
    BY <1>1, <2>1, <2>3
  <2> QED
    BY <2>2, <2>3
<1> QED
  BY <1>2, <1>3 DEF PipesHonest

LEMMA ReceivedHonest ==
  ASSUME PipesHonest, NEW g \in Hosts, NEW m \in Module, NEW n \in Module,
         <<n, m>> \in Ends, pipe[g][<<n, m>>] # <<>>
  PROVE  Received(g, m, n) \in Honest(g, n, m)
<1>1. pipe[g][<<n, m>>] \in Seq(Honest(g, n, m))
  BY DEF PipesHonest
<1> QED
  BY <1>1, HeadTail DEF Received

LEMMA SendHonest ==
  ASSUME Shape, PipesHonest, NEW g \in Hosts, NEW m \in Module, MinetSend(g, m)
  PROVE  /\ PipesHonest'
         /\ Head(out[g][m]) \in SendsOf(g, m)
         /\ <<m, Head(out[g][m]).to>> \in Ends
         /\ pipe'[g][<<m, Head(out[g][m]).to>>] =
              Append(pipe[g][<<m, Head(out[g][m]).to>>], Head(out[g][m]).msg)
<1> DEFINE s == Head(out[g][m])
<1>1. /\ out[g][m] # <<>>
      /\ \A h \in Hosts : \A k \in Module :
           out'[h][k] = IF h = g /\ k = m THEN Tail(out[h][k]) ELSE out[h][k]
      /\ \A h \in Hosts : \A e \in Ends :
           h # g \/ e # <<m, s.to>> => pipe'[h][e] = pipe[h][e]
  BY SendEffect
<1>2. out[g][m] \in SendLists(g, m)
  BY DEF PipesHonest
<1>3. s \in SendsOf(g, m) /\ Tail(out[g][m]) \in SendLists(g, m)
  BY <1>1, <1>2, TailOfSends
<1>4. s.to \in Peers(m) /\ s.msg \in Honest(g, m, s.to)
  BY <1>3, SendsTyped
<1>5. s.to \in Module
  BY <1>4, PeersOf, ModuleNames DEF Module
<1>6. <<m, s.to>> \in Ends
  BY <1>4, <1>5, EndsOf
<1>7. /\ HasRoom(g, m, s.to)
      /\ pipe' = [pipe EXCEPT ![g][<<m, s.to>>] = Append(@, s.msg)]
  BY DEF MinetSend, Enqueue
<1> HIDE DEF s
<1>8. pipe'[g][<<m, s.to>>] = Append(pipe[g][<<m, s.to>>], s.msg)
  BY <1>6, <1>7 DEF Shape
<1>9. /\ pipe[g][<<m, s.to>>] \in Seq(Honest(g, m, s.to))
      /\ Len(pipe[g][<<m, s.to>>]) < Capacity
  BY <1>6, <1>7 DEF PipesHonest, HasRoom
<1>10. /\ pipe'[g][<<m, s.to>>] \in Seq(Honest(g, m, s.to))
       /\ Len(pipe'[g][<<m, s.to>>]) <= Capacity
  BY <1>4, <1>8, <1>9, MinetPipesAssumption
<1>11. PipesHonest'
  <2>1. \A h \in Hosts : \A k \in Module : out'[h][k] \in SendLists(h, k)
    BY <1>1, <1>3 DEF PipesHonest
  <2>2. \A h \in Hosts : \A e \in Ends :
          pipe'[h][e] \in Seq(Honest(h, e[1], e[2])) /\ Len(pipe'[h][e]) <= Capacity
    <3> SUFFICES ASSUME NEW h \in Hosts, NEW e \in Ends
                 PROVE  /\ pipe'[h][e] \in Seq(Honest(h, e[1], e[2]))
                        /\ Len(pipe'[h][e]) <= Capacity
      OBVIOUS
    <3>1. CASE h = g /\ e = <<m, s.to>>
      <4>1. e[1] = m /\ e[2] = s.to
        BY <3>1
      <4> QED
        BY <1>10, <3>1, <4>1
    <3>2. CASE ~ (h = g /\ e = <<m, s.to>>)
      BY <1>1, <3>2 DEF PipesHonest
    <3> QED
      BY <3>1, <3>2
  <2> QED
    BY <2>1, <2>2 DEF PipesHonest
<1> QED
  BY <1>3, <1>6, <1>8, <1>11 DEF s

-----------------------------------------------------------------------------
\* arp_module's answer to a question: about the same address, and true.
LEMMA LookupHonest ==
  ASSUME CacheHonest, NEW h \in Hosts, NEW x \in HonestQuestion
  PROVE  /\ Lookup(cache[h], x) \in HonestAnswer
         /\ Lookup(cache[h], x).ipaddr = x.ipaddr
<1>1. x \in ARPRequestResponse /\ x.ethernetaddr = ETHERNET_BLANK_ADDR
  BY DEF HonestQuestion
<1>2. CASE x.ipaddr \in DOMAIN cache[h]
  <2>1. /\ Lookup(cache[h], x) = Known(x.ipaddr, MyEthernetAddr[x.ipaddr])
        /\ x.ipaddr \in Hosts
    BY <1>2 DEF Lookup, CacheHonest
  <2>2. MyEthernetAddr[x.ipaddr] \in Cards
    BY <2>1, LinkIntAssumption
  <2> QED
    BY <2>1, <2>2 DEF Known, HonestAnswer, ARPRequestResponse, IPAddress, EthernetAddr
<1>3. CASE x.ipaddr \notin DOMAIN cache[h]
  <2>1. Lookup(cache[h], x) = [x EXCEPT !.flag = "RESPONSE_UNKNOWN"]
    BY <1>3 DEF Lookup
  <2> QED
    BY <1>1, <2>1 DEF HonestAnswer, ARPRequestResponse
<1> QED
  BY <1>2, <1>3

\* Every ARP packet a host makes tells its own addresses.
LEMMA RequestHonest ==
  ASSUME NEW h \in Hosts, NEW ip \in IPAddress
  PROVE  Request(h, ip) \in HonestArp
BY LinkIntAssumption DEF Request, ArpPacket, HonestArp, ArpFrame, IPAddress, EthernetAddr

LEMMA ReplyHonest ==
  ASSUME NEW h \in Hosts, NEW f \in HonestArp
  PROVE  Reply(h, f) \in HonestArp
BY LinkIntAssumption DEF Reply, ArpPacket, HonestArp, ArpFrame, IPAddress, EthernetAddr

\* What holds of the state apart from the exchange.
HonestInv ==
  /\ Shape
  /\ PipesHonest
  /\ CacheHonest
  /\ SendingHonest
  /\ LinkHonest
  /\ TransportsOK

\* A module takes an event: its peer's pipe holds a message, and it has nothing
\* left to send.
LEMMA EventIsThere ==
  ASSUME NEW g \in Hosts, NEW m \in Module, NEW n, MinetGetNextEvent(g, m, n)
  PROVE  n \in Peers(m) /\ pipe[g][<<n, m>>] # <<>> /\ out[g][m] = <<>>
BY DEF MinetGetNextEvent, Peers

\* Every module is a peer of its peers.
LEMMA PeersMutual ==
  ASSUME NEW m \in Module, NEW n \in Peers(m)
  PROVE  n \in Module /\ m \in Peers(n) /\ <<n, m>> \in Ends /\ <<m, n>> \in Ends
<1>1. n \in Module /\ m \in Peers(n)
  BY PeersOf, ModuleNames DEF Module
<1> QED
  BY <1>1, EndsOf

\* The two together: an event taken, and honest sends to follow.
LEMMA HandlerHonest ==
  ASSUME Shape, PipesHonest, NEW g \in Hosts, NEW m \in Module, NEW n,
         MinetGetNextEvent(g, m, n), NEW sends \in SendLists(g, m),
         MinetReceive(g, m, n, sends)
  PROVE  Shape' /\ PipesHonest'
<1>1. n \in Peers(m) /\ pipe[g][<<n, m>>] # <<>>
  BY EventIsThere
<1> QED
  BY <1>1, PeersMutual, ReceiveHonest, ReceiveEffect

LEMMA EventHonest ==
  ASSUME PipesHonest, NEW g \in Hosts, NEW m \in Module, NEW n,
         MinetGetNextEvent(g, m, n)
  PROVE  Received(g, m, n) \in Honest(g, n, m)
<1>1. n \in Peers(m) /\ pipe[g][<<n, m>>] # <<>>
  BY EventIsThere
<1> QED
  BY <1>1, PeersMutual, ReceivedHonest

LEMMA ArpHonest ==
  ASSUME HonestInv, NEW g \in Hosts, ArpModuleStep(g)
  PROVE  Shape' /\ PipesHonest' /\ CacheHonest'
<1>0. Shape /\ PipesHonest /\ CacheHonest /\ "arp_module" \in Module
  BY ModuleNames DEF HonestInv
<1>1. CASE LocalRequest(g)
  <2> DEFINE x == Received(g, "arp_module", "ip_module")
             r == Lookup(cache[g], x)
             sends == <<Send("ip_module", r)>> \o
               IF AsksLink(r) THEN <<Send("ethernet_mux", Request(g, r.ipaddr))>> ELSE <<>>
  <2>1. /\ MinetGetNextEvent(g, "arp_module", "ip_module")
        /\ MinetReceive(g, "arp_module", "ip_module", sends)
        /\ cache' = cache
    BY <1>1 DEF LocalRequest
  <2>2. x \in HonestQuestion
    BY <1>0, <2>1, EventHonest, HonestOf
  <2>3. r \in HonestAnswer
    BY <1>0, <2>2, LookupHonest
  <2>4. Request(g, r.ipaddr) \in HonestArp
    BY <2>3, RequestHonest DEF HonestAnswer, ARPRequestResponse
  <2> HIDE DEF r
  <2>5. /\ <<Send("ip_module", r)>> \in SendLists(g, "arp_module")
        /\ <<Send("ethernet_mux", Request(g, r.ipaddr))>> \in SendLists(g, "arp_module")
        /\ <<>> \in SendLists(g, "arp_module")
    BY <2>3, <2>4, SendsTyped, PeersOf, HonestOf
  <2>6. sends \in SendLists(g, "arp_module")
    BY <2>5 DEF SendLists
  <2> HIDE DEF sends
  <2> QED
    BY <1>0, <2>1, <2>6, HandlerHonest DEF CacheHonest
<1>2. CASE RemotePacket(g)
  <2> DEFINE f == Received(g, "arp_module", "ethernet_mux")
             sends == IF Answers(g, f) THEN <<Send("ethernet_mux", Reply(g, f))>> ELSE <<>>
  <2>1. /\ MinetGetNextEvent(g, "arp_module", "ethernet_mux")
        /\ MinetReceive(g, "arp_module", "ethernet_mux", sends)
        /\ cache' = [cache EXCEPT ![g] = Update(@, Learnt(f))]
    BY <1>2 DEF RemotePacket
  <2>2. f \in HonestArp
    BY <1>0, <2>1, EventHonest, HonestOf
  <2> HIDE DEF f
  <2>3. sends \in SendLists(g, "arp_module")
    BY <2>2, ReplyHonest, SendsTyped, PeersOf, HonestOf
  <2>4. f.senderIp \in Hosts /\ Learnt(f) = Known(f.senderIp, MyEthernetAddr[f.senderIp])
    BY <2>2 DEF HonestArp, Learnt
  <2>5. Learnt(f).ipaddr = f.senderIp
    BY DEF Learnt, Known
  <2>6. CacheHonest'
    BY <1>0, <2>1, <2>4, <2>5 DEF CacheHonest, Update
  <2> HIDE DEF sends
  <2> QED
    BY <1>0, <2>1, <2>3, <2>6, HandlerHonest
<1> QED
  BY <1>1, <1>2 DEF ArpModuleStep

\* The ICMP error h makes about a packet goes to the packet's sender.
LEMMA ICMPErrorOwn ==
  ASSUME NEW h \in Hosts, NEW p \in Packet
  PROVE  ICMPError(h, p) \in OwnPacket(h)
BY DEF OwnPacket, Packet, ICMPError, IPAddress, Transport, Fault

LEMMA MuxesHonest ==
  ASSUME HonestInv, NEW g \in Hosts, EthernetMuxStep(g) \/ IpMuxStep(g)
  PROVE  Shape' /\ PipesHonest'
<1>0. /\ Shape /\ PipesHonest
      /\ "ethernet_mux" \in Module /\ "ip_mux" \in Module /\ Transport \subseteq Module
  BY ModuleNames DEF HonestInv
<1>1. CASE Dispatch(g)
  <2> DEFINE f == Received(g, "ethernet_mux", "device_driver")
  <2>1. f \in HonestFrame
    BY <1>0, <1>1, EventHonest, HonestOf DEF Dispatch
  <2>2. f \in Honest(g, "ethernet_mux", Upward(f)) /\ Upward(f) \in Peers("ethernet_mux")
    <3>1. CASE f \in HonestArp
      <4>1. f.type = "PROTO_ARP"
        BY <3>1 DEF HonestArp, ArpFrame
      <4> QED
        BY <3>1, <4>1, HonestOf, PeersOf DEF Upward
    <3>2. CASE f \in HonestIp
      <4>1. f.type = "PROTO_IP"
        BY <3>2 DEF HonestIp, IpFrame
      <4> QED
        BY <3>2, <4>1, HonestOf, PeersOf DEF Upward
    <3> QED
      BY <2>1, <3>1, <3>2 DEF HonestFrame
  <2>3. <<Send(Upward(f), f)>> \in SendLists(g, "ethernet_mux")
    BY <2>2, SendsTyped
  <2> QED
    BY <1>0, <1>1, <2>3, HandlerHonest DEF Dispatch
<1>2. ASSUME NEW n \in {"arp_module", "ip_module"}, PassDown(g, n)
      PROVE  Shape' /\ PipesHonest'
  <2> DEFINE f == Received(g, "ethernet_mux", n)
  <2>1. f \in HonestArp \cup OwnFrame(g)
    <3>1. f \in Honest(g, n, "ethernet_mux")
      BY <1>0, <1>2, EventHonest DEF PassDown
    <3> QED
      BY <3>1, HonestOf
  <2>2. f \in Honest(g, "ethernet_mux", "device_driver")
    BY <2>1, HonestOf
  <2>3. <<Send("device_driver", f)>> \in SendLists(g, "ethernet_mux")
    BY <2>2, SendsTyped, PeersOf
  <2> QED
    BY <1>0, <1>2, <2>3, HandlerHonest DEF PassDown
<1>3. CASE Deliver(g)
  <2> DEFINE p == Received(g, "ip_mux", "ip_module")
  <2>1. p \in SoundPacket
    <3>1. p \in Honest(g, "ip_module", "ip_mux")
      BY <1>0, <1>3, EventHonest DEF Deliver
    <3> QED
      BY <3>1, HonestOf
  <2>2. p.proto \in Transport /\ ICMPError(g, p) \in OwnPacket(g)
    BY <2>1, ICMPErrorOwn DEF SoundPacket, Packet
  <2> HIDE DEF p
  <2>3. /\ <<Send(p.proto, p)>> \in SendLists(g, "ip_mux")
        /\ <<Send("ip_module", ICMPError(g, p))>> \in SendLists(g, "ip_mux")
        /\ <<>> \in SendLists(g, "ip_mux")
    <3>1. p.proto \in Peers("ip_mux") /\ p \in Honest(g, "ip_mux", p.proto)
      BY <2>1, <2>2, HonestOf, PeersOf
    <3>2. "ip_module" \in Peers("ip_mux") /\ ICMPError(g, p) \in Honest(g, "ip_mux", "ip_module")
      BY <2>1, <2>2, HonestOf, PeersOf
    <3> QED
      BY <3>1, <3>2, SendsTyped
  <2>4. Delivery(g, p) \in SendLists(g, "ip_mux")
    BY <2>3 DEF Delivery
  <2> QED
    BY <1>0, <1>3, <2>4, HandlerHonest DEF Deliver, p
<1>4. ASSUME NEW u \in TransportsOf[g], FromTransport(g, u)
      PROVE  Shape' /\ PipesHonest'
  <2> DEFINE p == Received(g, "ip_mux", u)
  <2>0. u \in Transport
    BY IpMuxAssumption
  <2>1. p \in Honest(g, u, "ip_mux")
    BY <1>0, <1>4, <2>0, EventHonest DEF FromTransport
  <2>2. p \in Honest(g, "ip_mux", "ip_module")
    BY <2>0, <2>1, HonestOf
  <2>3. <<Send("ip_module", p)>> \in SendLists(g, "ip_mux")
    BY <2>2, SendsTyped, PeersOf
  <2> QED
    BY <1>0, <1>4, <2>0, <2>3, HandlerHonest DEF FromTransport
<1> QED
  BY <1>1, <1>2, <1>3, <1>4 DEF EthernetMuxStep, IpMuxStep

LEMMA QuestionHonest ==
  ASSUME NEW h, NEW p \in Packet
  PROVE  /\ <<Send("arp_module", Question(p))>> \in SendLists(h, "ip_module")
         /\ Question(p).ipaddr = p.to
<1>1. Question(p) \in HonestQuestion /\ Question(p).ipaddr = p.to
  BY DEF Question, HonestQuestion, ARPRequestResponse, Packet, EthernetAddr
<1> QED
  BY <1>1, SendsTyped, HonestOf, PeersOf

\* ip_module sends a packet under the address it was told, which is the address
\* of the packet's destination: the answer is for its question.
LEMMA IpHonest ==
  ASSUME LinkInv, NEW g \in Hosts, IpModuleStep(g)
  PROVE  Shape' /\ PipesHonest' /\ SendingHonest'
<1>0. Shape /\ PipesHonest /\ SendingHonest /\ "ip_module" \in Module
  BY ModuleNames DEF LinkInv
<1>00. \A p \in OwnPacket(g) : p \in Packet /\ p.from = g
  BY DEF OwnPacket
<1>1. CASE TakeAnswer(g)
  <2> DEFINE resp == Received(g, "ip_module", "arp_module")
             f == EthernetFrame(g, resp.ethernetaddr, sending[g])
             sends == IF Resolved(resp, sending[g].to) THEN <<Send("ethernet_mux", f)>> ELSE <<>>
  <2>1. /\ sending[g] # NoPacket /\ pipe[g][Tell] # <<>>
        /\ MinetReceive(g, "ip_module", "arp_module", sends)
        /\ sending' = [sending EXCEPT ![g] = NoPacket]
    BY <1>1 DEF TakeAnswer, Tell
  <2>2. sending[g] \in OwnPacket(g)
    BY <1>0, <2>1 DEF SendingHonest
  <2>3. resp \in HonestAnswer
    BY <1>0, <2>1, EndsOf, ModuleNames, HonestOf, ReceivedHonest DEF Tell
  <2>4. resp.ipaddr = sending[g].to
    <3>1. AskDue(g) \/ AskDone(g) \/ TellDue(g) \/ TellDone(g)
      BY <2>1 DEF LinkInv, Exchange
    <3>2. TellDone(g)
      BY <2>1, <3>1 DEF AskDue, AskDone, TellDue
    <3>3. PICK x : About(x, sending[g]) /\ pipe[g][Tell] = <<x>>
      BY <3>2 DEF TellDone
    <3>4. resp = x
      BY <3>3 DEF Received, Tell
    <3> QED
      BY <3>3, <3>4 DEF About
  <2>5. ASSUME Resolved(resp, sending[g].to)
        PROVE  f \in OwnFrame(g)
    <3>1. resp.ethernetaddr \in EthernetAddr /\ MyEthernetAddr[g] \in EthernetAddr
      BY <2>3, LinkIntAssumption DEF HonestAnswer, ARPRequestResponse, EthernetAddr
    <3>2. sending[g].to \in Hosts => resp.ethernetaddr = MyEthernetAddr[sending[g].to]
      BY <2>3, <2>4, <2>5, LinkIntAssumption DEF Resolved, HonestAnswer
    <3> QED
      BY <1>00, <2>2, <3>1, <3>2 DEF EthernetFrame, OwnFrame, HonestIp, IpFrame
  <2> HIDE DEF resp, f
  <2>6. sends \in SendLists(g, "ip_module")
    <3>1. f \in OwnFrame(g) => f \in Honest(g, "ip_module", "ethernet_mux")
      BY HonestOf
    <3> QED
      BY <2>5, <3>1, SendsTyped, PeersOf
  <2> HIDE DEF sends
  <2>7. Shape' /\ PipesHonest'
    BY <1>0, <2>1, <2>6, EndsOf, ModuleNames, ReceiveHonest, ReceiveEffect DEF Tell
  <2> QED
    BY <1>0, <2>1, <2>7 DEF SendingHonest
<1>2. ASSUME NEW n, NEW p \in OwnPacket(g), MinetGetNextEvent(g, "ip_module", n), SendPacket(g, n, p)
      PROVE  Shape' /\ PipesHonest' /\ SendingHonest'
  <2>1. Shape' /\ PipesHonest'
    BY <1>0, <1>00, <1>2, QuestionHonest, HandlerHonest DEF SendPacket
  <2> QED
    BY <1>0, <1>2, <2>1 DEF SendingHonest, SendPacket
<1>3. CASE FromEthernet(g)
  <2> DEFINE f == Received(g, "ip_module", "ethernet_mux")
             p == f.packet
  <2>1. MinetGetNextEvent(g, "ip_module", "ethernet_mux")
    BY <1>3 DEF FromEthernet
  <2>2. p \in Packet
    <3>1. f \in HonestIp
      BY <1>0, <2>1, EventHonest, HonestOf
    <3> QED
      BY <3>1 DEF HonestIp, IpFrame
  <2>3. /\ p.fault = "none" => <<Send("ip_mux", p)>> \in SendLists(g, "ip_module")
        /\ <<>> \in SendLists(g, "ip_module")
    <3>1. p.fault = "none" => p \in Honest(g, "ip_module", "ip_mux")
      BY <2>2, HonestOf DEF SoundPacket
    <3> QED
      BY <3>1, SendsTyped, PeersOf
  <2>4. ICMPError(g, p) \in OwnPacket(g)
    BY <2>2, ICMPErrorOwn
  <2> HIDE DEF f
  <2>5. \/ MinetReceive(g, "ip_module", "ethernet_mux", <<>>) /\ UNCHANGED sending
        \/ SendPacket(g, "ethernet_mux", ICMPError(g, p))
        \/ /\ p.fault = "none" /\ UNCHANGED sending
           /\ MinetReceive(g, "ip_module", "ethernet_mux", <<Send("ip_mux", p)>>)
    BY <1>3 DEF FromEthernet, f
  <2> HIDE DEF p
  <2>6. CASE MinetReceive(g, "ip_module", "ethernet_mux", <<>>) /\ UNCHANGED sending
    BY <1>0, <2>1, <2>3, <2>6, HandlerHonest DEF SendingHonest
  <2>7. CASE SendPacket(g, "ethernet_mux", ICMPError(g, p))
    BY <1>2, <2>1, <2>4, <2>7
  <2>8. CASE /\ p.fault = "none" /\ UNCHANGED sending
             /\ MinetReceive(g, "ip_module", "ethernet_mux", <<Send("ip_mux", p)>>)
    BY <1>0, <2>1, <2>3, <2>8, HandlerHonest DEF SendingHonest
  <2> QED
    BY <2>5, <2>6, <2>7, <2>8
<1>4. CASE FromIpMux(g)
  <2>1. /\ MinetGetNextEvent(g, "ip_module", "ip_mux")
        /\ SendPacket(g, "ip_mux", Received(g, "ip_module", "ip_mux"))
    BY <1>4 DEF FromIpMux
  <2>2. Received(g, "ip_module", "ip_mux") \in OwnPacket(g)
    <3>1. Received(g, "ip_module", "ip_mux") \in Honest(g, "ip_mux", "ip_module")
      BY <1>0, <2>1, EventHonest
    <3> QED
      BY <3>1, HonestOf
  <2> QED
    BY <1>2, <2>1, <2>2
<1> QED
  BY <1>1, <1>3, <1>4 DEF IpModuleStep

\* The link changes neither the destination of a packet nor the frame's, even
\* where it damages the IP header.
LEMMA ArrivalsHonest ==
  ASSUME NEW f \in HonestFrame, NEW x \in Arrivals(f)
  PROVE  x \in HonestFrame
<1>1. CASE x = f
  BY <1>1
<1>2. ASSUME f.type = "PROTO_IP", x \in Damaged(f)
      PROVE  x \in HonestFrame
  <2>1. f \in HonestIp
    BY <1>2 DEF HonestFrame, HonestArp, ArpFrame
  <2>2. f \in IpFrame /\ (f.packet.to \in Hosts => f.dst = MyEthernetAddr[f.packet.to])
    BY <2>1 DEF HonestIp
  <2>3. CASE \E y \in Fault \ {"none"} : x = [f EXCEPT !.packet.fault = y]
    BY <2>2, <2>3 DEF HonestFrame, HonestIp, IpFrame, Packet
  <2>4. ASSUME NEW y \in Hosts, x = [f EXCEPT !.packet.fault = "checksum", !.packet.from = y]
        PROVE  x \in HonestFrame
    <3>1. f.packet \in Packet
      BY <2>2 DEF IpFrame
    <3> DEFINE q == [f.packet EXCEPT !.fault = "checksum", !.from = y]
    <3>2. x = [f EXCEPT !.packet = q]
      BY <2>2, <2>4, <3>1 DEF IpFrame, Packet
    <3>3. q \in Packet /\ q.to = f.packet.to
      BY <3>1 DEF Packet, Fault
    <3> HIDE DEF q
    <3> QED
      BY <2>2, <3>2, <3>3 DEF HonestFrame, HonestIp, IpFrame
  <2> QED
    BY <1>2, <2>3, <2>4 DEF Damaged
<1> QED
  BY <1>1, <1>2 DEF Arrivals

LEMMA DriverHonest ==
  ASSUME HonestInv, NEW g \in Hosts, DriverStep(g)
  PROVE  Shape' /\ PipesHonest' /\ LinkHonest'
<1>0. Shape /\ PipesHonest /\ LinkHonest /\ "device_driver" \in Module
  BY ModuleNames DEF HonestInv
<1>1. CASE ProcessOutgoing(g)
  <2> DEFINE f == Received(g, "device_driver", "ethernet_mux")
  <2>1. /\ MinetGetNextEvent(g, "device_driver", "ethernet_mux")
        /\ MinetReceive(g, "device_driver", "ethernet_mux", <<>>)
        /\ UNCHANGED faults
    BY <1>1 DEF ProcessOutgoing
  <2>2. PICK captured \in Captures(g, f) :
          wire' = [h \in Hosts |-> IF h \in captured THEN Append(wire[h], f) ELSE wire[h]]
    BY <1>1 DEF ProcessOutgoing
  <2>3. f \in HonestFrame
    <3>1. f \in Honest(g, "ethernet_mux", "device_driver")
      BY <1>0, <2>1, EventHonest
    <3> QED
      BY <3>1, HonestOf DEF OwnFrame, HonestFrame
  <2> HIDE DEF f
  <2>4. LinkHonest'
    BY <1>0, <2>1, <2>2, <2>3 DEF LinkHonest
  <2> QED
    BY <1>0, <2>1, <2>4, SendsTyped, HandlerHonest
<1>2. CASE ProcessIncoming(g)
  <2>1. PICK f \in Arrivals(Head(wire[g])) :
          /\ out' = [out EXCEPT ![g]["device_driver"] = <<Send("ethernet_mux", f)>>]
          /\ faults' = IF f = Head(wire[g]) THEN faults ELSE faults + 1
    BY <1>2 DEF ProcessIncoming
  <2>2. wire[g] # <<>> /\ wire' = [wire EXCEPT ![g] = Tail(@)] /\ pipe' = pipe
    BY <1>2 DEF ProcessIncoming, PcapIsNext
  <2>3. wire[g] \in Seq(HonestFrame)
    BY <1>0 DEF LinkHonest
  <2>4. Head(wire[g]) \in HonestFrame /\ Tail(wire[g]) \in Seq(HonestFrame)
    BY <2>2, <2>3, HeadTail
  <2>5. f \in HonestFrame
    BY <2>1, <2>4, ArrivalsHonest
  <2>6. <<Send("ethernet_mux", f)>> \in SendLists(g, "device_driver")
    BY <2>5, SendsTyped, HonestOf, PeersOf
  <2>7. Shape' /\ PipesHonest'
    BY <1>0, <2>1, <2>2, <2>6 DEF Shape, PipesHonest
  <2>8. faults' \in 0 .. MaxFaults
    <3>1. f # Head(wire[g]) => faults < MaxFaults
      BY <2>1 DEF Arrivals
    <3> QED
      BY <1>0, <2>1, <3>1, DeviceDriverAssumption DEF LinkHonest
  <2> QED
    BY <1>0, <2>2, <2>4, <2>7, <2>8 DEF LinkHonest
<1> QED
  BY <1>1, <1>2 DEF DriverStep

LEMMA TransportHonest ==
  ASSUME HonestInv, NEW g \in Hosts, TransportStep(g)
  PROVE  Shape' /\ PipesHonest' /\ TransportsOK'
<1>0. /\ Shape /\ PipesHonest /\ TransportsOK
      /\ Transport \subseteq Module /\ TransportsOf[g] \subseteq Transport
  BY ModuleNames, IpMuxAssumption DEF HonestInv
<1>1. ASSUME NEW u \in TransportsOf[g], TransportReceive(g, u)
      PROVE  Shape' /\ PipesHonest' /\ TransportsOK'
  <2>1. /\ MinetGetNextEvent(g, u, "ip_mux") /\ MinetReceive(g, u, "ip_mux", <<>>)
        /\ received' = [received EXCEPT ![g] = Append(@, Received(g, u, "ip_mux"))]
        /\ UNCHANGED sent
    BY <1>1 DEF TransportReceive
  <2>2. Received(g, u, "ip_mux") \in SoundPacket
    <3>1. Received(g, u, "ip_mux") \in Honest(g, "ip_mux", u)
      BY <1>0, <2>1, EventHonest
    <3> QED
      BY <1>0, <3>1, HonestOf
  <2>3. TransportsOK'
    BY <1>0, <2>1, <2>2 DEF TransportsOK
  <2> QED
    BY <1>0, <2>1, <2>3, SendsTyped, HandlerHonest
<1>2. ASSUME NEW u \in TransportsOf[g], NEW to \in Destinations, TransportSend(g, u, to)
      PROVE  Shape' /\ PipesHonest' /\ TransportsOK'
  <2> DEFINE p == [from |-> g, to |-> to, proto |-> u, fault |-> "none", id |-> sent[g][u] + 1]
  <2>1. /\ sent' = [sent EXCEPT ![g][u] = @ + 1]
        /\ out' = [out EXCEPT ![g][u] = <<Send("ip_mux", p)>>]
        /\ UNCHANGED <<pipe, received>>
    BY <1>2 DEF TransportSend
  <2>2. sent[g][u] \in Nat
    BY <1>0 DEF TransportsOK
  <2>3. p \in OwnPacket(g) /\ p.proto = u
    BY <1>0, <2>2, LinkLayerAssumption DEF OwnPacket, Packet, Fault
  <2> HIDE DEF p
  <2>4. <<Send("ip_mux", p)>> \in SendLists(g, u)
    <3>1. p \in Honest(g, u, "ip_mux") /\ "ip_mux" \in Peers(u)
      BY <1>0, <2>3, HonestOf, PeersOf
    <3> QED
      BY <3>1, SendsTyped
  <2>5. Shape' /\ PipesHonest'
    BY <1>0, <2>1, <2>4 DEF Shape, PipesHonest
  <2> QED
    BY <1>0, <2>1, <2>2, <2>5 DEF TransportsOK
<1> QED
  BY <1>1, <1>2 DEF TransportStep

LEMMA InitHonest == Init => HonestInv
<1> SUFFICES ASSUME Init PROVE HonestInv
  OBVIOUS
<1>1. Shape /\ PipesHonest
  BY SendsTyped, MinetPipesAssumption DEF Init, PipesInit, Shape, PipesHonest
<1>2. CacheHonest
  BY DEF Init, ArpInit, CacheHonest
<1> QED
  BY <1>1, <1>2, DeviceDriverAssumption
     DEF Init, IpInit, DriverInit, HonestInv, SendingHonest, LinkHonest, TransportsOK

LEMMA NextHonest ==
  ASSUME LinkInv, [Next]_vars
  PROVE  HonestInv'
<1>0. HonestInv
  BY DEF LinkInv, HonestInv
<1>1. CASE UNCHANGED vars
  BY <1>0, <1>1
     DEF vars, pipeVars, driverVars, transportVars, HonestInv, Shape, PipesHonest,
         CacheHonest, SendingHonest, LinkHonest, TransportsOK
<1>2. ASSUME NEW g \in Hosts, HostStep(g) PROVE HonestInv'
  <2> USE DEF driverVars, transportVars
  <2>1. CASE Sending(g)
    <3>1. Shape' /\ PipesHonest'
      BY <1>0, <2>1, SendHonest, SendEffect DEF Sending, HonestInv
    <3> QED
      BY <1>0, <2>1, <3>1
         DEF Sending, HonestInv, CacheHonest, SendingHonest, LinkHonest, TransportsOK
  <2>2. CASE Arp(g)
    BY <1>0, <2>2, ArpHonest DEF Arp, HonestInv, SendingHonest, LinkHonest, TransportsOK
  <2>3. CASE Ip(g)
    BY <1>0, <2>3, IpHonest DEF Ip, HonestInv, CacheHonest, LinkHonest, TransportsOK
  <2>4. CASE Muxes(g)
    BY <1>0, <2>4, MuxesHonest
       DEF Muxes, HonestInv, CacheHonest, SendingHonest, LinkHonest, TransportsOK
  <2>5. CASE Driver(g)
    BY <1>0, <2>5, DriverHonest DEF Driver, HonestInv, CacheHonest, SendingHonest, TransportsOK
  <2>6. CASE TransportStep(g)
    BY <1>0, <1>2, <2>6, TransportHonest
       DEF TransportStep, HonestInv, CacheHonest, SendingHonest, LinkHonest
  <2> QED
    BY <1>2, <2>1, <2>2, <2>3, <2>4, <2>5, <2>6 DEF HostStep
<1> QED
  BY <1>1, <1>2 DEF Next

-----------------------------------------------------------------------------
(***************************************************************************)
(* The exchange between ip_module and arp_module goes through its phases.  *)
(***************************************************************************)
Exchanges == \A h \in Hosts : Exchange(h) /\ OneSend(h, "ip_module")

\* Nothing the exchange is made of changes at h.
Apart(h) ==
  /\ sending'[h] = sending[h]
  /\ pipe'[h][Ask] = pipe[h][Ask] /\ pipe'[h][Tell] = pipe[h][Tell]
  /\ out'[h]["ip_module"] = out[h]["ip_module"]
  /\ out'[h]["arp_module"] = out[h]["arp_module"]

LEMMA ApartKeepsExchange ==
  ASSUME NEW h, Apart(h), Exchange(h), OneSend(h, "ip_module")
  PROVE  Exchange(h)' /\ OneSend(h, "ip_module")'
<1>1. SendsNothing(h, "ip_module", "arp_module")' <=> SendsNothing(h, "ip_module", "arp_module")
  BY DEF Apart, SendsNothing
<1>2. SendsNothing(h, "arp_module", "ip_module")' <=> SendsNothing(h, "arp_module", "ip_module")
  BY DEF Apart, SendsNothing
<1>3. NoExchange(h) => NoExchange(h)'
  BY <1>1, <1>2 DEF Apart, NoExchange
<1>4. AskDue(h) => AskDue(h)'
  BY <1>2 DEF Apart, AskDue
<1>5. AskDone(h) => AskDone(h)'
  BY <1>2 DEF Apart, AskDone
<1>6. TellDue(h) => TellDue(h)'
  BY DEF Apart, TellDue
<1>7. TellDone(h) => TellDone(h)'
  BY <1>2 DEF Apart, TellDone
<1>8. Exchange(h)'
  BY <1>3, <1>4, <1>5, <1>6, <1>7 DEF Apart, Exchange
<1> QED
  BY <1>8 DEF Apart, OneSend

\* A handler of another module of g changes nothing of it.
LEMMA OtherHandlersApart ==
  ASSUME Shape, NEW g \in Hosts, NEW m \in Module \ {"ip_module", "arp_module"}, NEW n, NEW sends,
         MinetReceive(g, m, n, sends), sending' = sending
  PROVE  \A h \in Hosts : Apart(h)
<1>1. Ask # <<n, m>> /\ Tell # <<n, m>>
  BY DEF Ask, Tell
<1> QED
  BY <1>1, ReceiveEffect, EndsOf, ModuleNames DEF Apart

\* Nor does any step of one host at another.
LEMMA HandlersApart ==
  ASSUME Shape, NEW g \in Hosts, NEW m \in Module, NEW n, NEW sends,
         MinetReceive(g, m, n, sends)
  PROVE  \A h \in Hosts \ {g} : sending'[h] = sending[h] => Apart(h)
BY ReceiveEffect, EndsOf, ModuleNames DEF Apart

LEMMA ExchangesFrom ==
  ASSUME Exchanges, NEW g \in Hosts, \A h \in Hosts \ {g} : Apart(h),
         Exchange(g)' /\ OneSend(g, "ip_module")'
  PROVE  Exchanges'
<1>1. \A h \in Hosts \ {g} : Exchange(h)' /\ OneSend(h, "ip_module")'
  BY ApartKeepsExchange DEF Exchanges
<1> QED
  BY <1>1 DEF Exchanges

LEMMA AppendToNone == ASSUME NEW x PROVE Append(<<>>, x) = <<x>>
OBVIOUS

LEMMA SendExchange ==
  ASSUME LinkInv, NEW g \in Hosts, NEW m \in Module, MinetSend(g, m), sending' = sending
  PROVE  Exchanges'
<1> DEFINE s == Head(out[g][m])
<1>0. Shape /\ PipesHonest /\ Exchanges
  BY DEF LinkInv, Exchanges
<1>1. /\ out[g][m] # <<>>
      /\ \A h \in Hosts : \A k \in Module :
           out'[h][k] = IF h = g /\ k = m THEN Tail(out[h][k]) ELSE out[h][k]
      /\ \A h \in Hosts : \A e \in Ends :
           h # g \/ e # <<m, s.to>> => pipe'[h][e] = pipe[h][e]
  BY <1>0, SendEffect
<1>2. pipe'[g][<<m, s.to>>] = Append(pipe[g][<<m, s.to>>], s.msg)
  BY <1>0, SendHonest
<1>3. out[g][m] \in SendLists(g, m)
  BY <1>0 DEF PipesHonest
<1>4. /\ s = out[g][m][1] /\ 1 \in DOMAIN out[g][m]
      /\ \A i \in DOMAIN Tail(out[g][m]) :
           /\ i # 0 /\ i + 1 # 1
           /\ i + 1 \in DOMAIN out[g][m] /\ Tail(out[g][m])[i] = out[g][m][i + 1]
  BY <1>1, <1>3, HeadTail DEF SendLists
<1>5. Exchange(g) /\ OneSend(g, "ip_module")
  BY <1>0 DEF Exchanges
<1> HIDE DEF s
<1>6. \A h \in Hosts \ {g} : Apart(h)
  BY <1>1, EndsOf, ModuleNames DEF Apart
<1>7. CASE m \notin {"ip_module", "arp_module"}
  <2>1. Ask # <<m, s.to>> /\ Tell # <<m, s.to>>
    BY <1>7 DEF Ask, Tell
  <2>2. \A h \in Hosts : Apart(h)
    BY <1>1, <1>7, <2>1, EndsOf, ModuleNames DEF Apart
  <2> QED
    BY <1>0, <2>2, ApartKeepsExchange DEF Exchanges
<1>8. CASE m = "ip_module"
  <2>1. Tail(out[g][m]) = <<>> /\ out[g][m] = <<s>>
    BY <1>1, <1>5, <1>8, LastSend DEF OneSend, s
  <2>2. /\ out'[g]["ip_module"] = <<>>
        /\ out'[g]["arp_module"] = out[g]["arp_module"]
        /\ sending'[g] = sending[g]
    BY <1>1, <1>8, <2>1, ModuleNames
  <2>3. pipe'[g][Tell] = pipe[g][Tell]
    BY <1>1, <1>8, EndsOf DEF Tell
  <2>4. SendsNothing(g, "arp_module", "ip_module")
          => SendsNothing(g, "arp_module", "ip_module")'
    BY <2>2 DEF SendsNothing
  <2>5. CASE s.to = "arp_module"
    <3>1. ~ SendsNothing(g, "ip_module", "arp_module")
      BY <1>4, <1>8, <2>5 DEF SendsNothing
    <3>2. sending[g] # NoPacket /\ AskDue(g)
      BY <1>1, <1>5, <1>8, <3>1 DEF Exchange, NoExchange, AskDone, TellDue, TellDone
    <3>3. PICK x : About(x, sending[g]) /\ out[g]["ip_module"] = <<Send("arp_module", x)>>
      BY <3>2 DEF AskDue
    <3>4. s.msg = x
      BY <1>8, <2>1, <3>3 DEF Send
    <3>5. pipe'[g][Ask] = <<x>>
      BY <1>2, <1>8, <2>5, <3>2, <3>4, AppendToNone DEF AskDue, Ask
    <3>6. AskDone(g)'
      BY <2>2, <2>3, <2>4, <3>2, <3>3, <3>5 DEF AskDone, AskDue, About
    <3> QED
      BY <1>0, <1>6, <2>2, <3>2, <3>6, ExchangesFrom DEF Exchange, OneSend
  <2>6. CASE s.to # "arp_module"
    <3>1. pipe'[g][Ask] = pipe[g][Ask]
      BY <1>1, <2>6, EndsOf DEF Ask
    <3>2. ~ AskDue(g)
      <4> SUFFICES ASSUME NEW x, out[g]["ip_module"] = <<Send("arp_module", x)>>
                   PROVE  FALSE
        BY DEF AskDue
      <4> QED
        BY <1>8, <2>1, <2>6 DEF Send
    <3>3. sending[g] = NoPacket /\ NoExchange(g)
      BY <1>1, <1>5, <1>8, <3>2 DEF Exchange, AskDone, TellDue, TellDone
    <3>4. NoExchange(g)'
      BY <2>2, <2>3, <2>4, <3>1, <3>3 DEF NoExchange, SendsNothing
    <3> QED
      BY <1>0, <1>6, <2>2, <3>3, <3>4, ExchangesFrom DEF Exchange, OneSend
  <2> QED
    BY <2>5, <2>6
<1>9. CASE m = "arp_module"
  <2>1. /\ out'[g]["ip_module"] = out[g]["ip_module"]
        /\ out'[g]["arp_module"] = Tail(out[g]["arp_module"])
        /\ sending'[g] = sending[g]
    BY <1>1, <1>9, ModuleNames
  <2>2. pipe'[g][Ask] = pipe[g][Ask]
    BY <1>1, <1>9, EndsOf DEF Ask
  <2>3. SendsNothing(g, "arp_module", "ip_module")
          => SendsNothing(g, "arp_module", "ip_module")'
    BY <1>4, <1>9, <2>1 DEF SendsNothing
  <2>4. OneSend(g, "ip_module")'
    BY <1>5, <2>1 DEF OneSend
  <2>5. CASE s.to = "ip_module"
    <3>1. ~ SendsNothing(g, "arp_module", "ip_module")
      BY <1>4, <1>9, <2>5 DEF SendsNothing
    <3>2. sending[g] # NoPacket /\ TellDue(g)
      BY <1>5, <3>1 DEF Exchange, NoExchange, AskDue, AskDone, TellDone
    <3>3. pipe'[g][Tell] = <<s.msg>>
      BY <1>2, <1>9, <2>5, <3>2, AppendToNone DEF TellDue, Tell
    <3>4. About(s.msg, sending[g])
      BY <1>9, <3>2 DEF TellDue, s
    <3>5. SendsNothing(g, "arp_module", "ip_module")'
      BY <1>4, <1>9, <2>1, <3>2 DEF TellDue, SendsNothing
    <3>6. TellDone(g)'
      BY <2>1, <2>2, <3>2, <3>3, <3>4, <3>5 DEF TellDone, TellDue, About
    <3> QED
      BY <1>0, <1>6, <2>1, <2>4, <3>2, <3>6, ExchangesFrom DEF Exchange
  <2>6. CASE s.to # "ip_module"
    <3>1. pipe'[g][Tell] = pipe[g][Tell]
      BY <1>1, <2>6, EndsOf DEF Tell
    <3>2. ~ TellDue(g)
      BY <1>9, <2>6 DEF TellDue, s
    <3>3. Exchange(g)'
      BY <1>5, <2>1, <2>2, <2>3, <3>1, <3>2
         DEF Exchange, NoExchange, AskDue, AskDone, TellDone, SendsNothing
    <3> QED
      BY <1>0, <1>6, <2>4, <3>3, ExchangesFrom
  <2> QED
    BY <2>5, <2>6
<1> QED
  BY <1>7, <1>8, <1>9

\* arp_module answers the question in hand, and tells ip_module nothing else.
LEMMA ArpExchange ==
  ASSUME LinkInv, NEW g \in Hosts, ArpModuleStep(g), sending' = sending
  PROVE  Exchanges'
<1>0. /\ Shape /\ PipesHonest /\ CacheHonest /\ Exchanges
      /\ Exchange(g) /\ OneSend(g, "ip_module") /\ "arp_module" \in Module
  BY ModuleNames DEF LinkInv, Exchanges
<1>1. CASE LocalRequest(g)
  <2> DEFINE x == Received(g, "arp_module", "ip_module")
             r == Lookup(cache[g], x)
             more == IF AsksLink(r) THEN <<Send("ethernet_mux", Request(g, r.ipaddr))>> ELSE <<>>
             sends == <<Send("ip_module", r)>> \o more
  <2>1. /\ MinetGetNextEvent(g, "arp_module", "ip_module")
        /\ MinetReceive(g, "arp_module", "ip_module", sends)
    BY <1>1 DEF LocalRequest
  <2>2. out[g]["arp_module"] = <<>> /\ pipe[g][Ask] # <<>>
    BY <1>0, <2>1, EventIsThere DEF Ask
  <2>3. sending[g] # NoPacket /\ AskDone(g)
    BY <1>0, <2>2 DEF Exchange, NoExchange, AskDue, TellDue, TellDone
  <2>4. PICK y : About(y, sending[g]) /\ pipe[g][Ask] = <<y>>
    BY <2>3 DEF AskDone
  <2>5. x = y /\ Tail(pipe[g][Ask]) = <<>>
    BY <2>4 DEF Received, Ask
  <2>6. x \in HonestQuestion
    BY <1>0, <2>1, EventHonest, HonestOf
  <2>7. About(r, sending[g])
    BY <1>0, <2>4, <2>5, <2>6, LookupHonest DEF About
  <2>8. more = <<>> \/ \E z : more = <<Send("ethernet_mux", z)>>
    OBVIOUS
  <2> HIDE DEF r, more
  <2>9. /\ sends # <<>> /\ Head(sends).to = "ip_module" /\ Head(sends).msg = r
        /\ \A i \in DOMAIN sends : i # 1 => sends[i].to # "ip_module"
    BY <2>8 DEF Send
  <2> HIDE DEF sends, x
  <2>10. /\ out'[g]["arp_module"] = sends
         /\ out'[g]["ip_module"] = out[g]["ip_module"]
         /\ pipe'[g][Ask] = <<>> /\ pipe'[g][Tell] = pipe[g][Tell]
    <3>1. /\ out'[g]["arp_module"] = sends
          /\ out'[g]["ip_module"] = out[g]["ip_module"]
          /\ pipe'[g][Ask] = Tail(pipe[g][Ask])
      BY <1>0, <2>1, ReceiveEffect, EndsOf, ModuleNames DEF Ask
    <3>2. pipe'[g][Tell] = pipe[g][Tell]
      BY <1>0, <2>1, ReceiveEffect, EndsOf, ModuleNames DEF Tell
    <3> QED
      BY <2>5, <3>1, <3>2
  <2>11. TellDue(g)'
    BY <2>3, <2>7, <2>9, <2>10 DEF TellDue, AskDone, About
  <2>12. Exchange(g)' /\ OneSend(g, "ip_module")'
    BY <1>0, <2>3, <2>10, <2>11 DEF Exchange, OneSend
  <2>13. \A h \in Hosts \ {g} : Apart(h)
    BY <1>0, <2>1, HandlersApart
  <2> QED
    BY <1>0, <2>12, <2>13, ExchangesFrom
<1>2. CASE RemotePacket(g)
  <2> DEFINE f == Received(g, "arp_module", "ethernet_mux")
             sends == IF Answers(g, f) THEN <<Send("ethernet_mux", Reply(g, f))>> ELSE <<>>
  <2>1. /\ MinetGetNextEvent(g, "arp_module", "ethernet_mux")
        /\ MinetReceive(g, "arp_module", "ethernet_mux", sends)
    BY <1>2 DEF RemotePacket
  <2>2. out[g]["arp_module"] = <<>>
    BY <1>0, <2>1, EventIsThere
  <2>3. \A i \in DOMAIN sends : sends[i].to # "ip_module"
    BY DEF Send
  <2> HIDE DEF sends
  <2>4. /\ out'[g]["arp_module"] = sends
        /\ out'[g]["ip_module"] = out[g]["ip_module"]
        /\ pipe'[g][Ask] = pipe[g][Ask] /\ pipe'[g][Tell] = pipe[g][Tell]
        /\ sending'[g] = sending[g]
    BY <1>0, <2>1, ReceiveEffect, EndsOf, ModuleNames DEF Ask, Tell
  <2>5. SendsNothing(g, "arp_module", "ip_module")' /\ ~ TellDue(g)
    BY <2>2, <2>3, <2>4 DEF SendsNothing, TellDue
  <2>6. Exchange(g)' /\ OneSend(g, "ip_module")'
    BY <1>0, <2>4, <2>5 DEF Exchange, NoExchange, AskDue, AskDone, TellDone, SendsNothing, OneSend
  <2>7. \A h \in Hosts \ {g} : Apart(h)
    BY <1>0, <2>1, HandlersApart
  <2> QED
    BY <1>0, <2>6, <2>7, ExchangesFrom
<1> QED
  BY <1>1, <1>2 DEF ArpModuleStep

\* ip_module asks only when it waits for nothing, and waits until it is told.
LEMMA IpExchange ==
  ASSUME LinkInv, NEW g \in Hosts, IpModuleStep(g)
  PROVE  Exchanges'
<1>0. /\ Shape /\ PipesHonest /\ SendingHonest /\ Exchanges
      /\ Exchange(g) /\ OneSend(g, "ip_module") /\ "ip_module" \in Module
  BY ModuleNames DEF LinkInv, Exchanges
<1>1. CASE TakeAnswer(g)
  <2> DEFINE resp == Received(g, "ip_module", "arp_module")
             sends == IF Resolved(resp, sending[g].to)
                        THEN <<Send("ethernet_mux",
                                    EthernetFrame(g, resp.ethernetaddr, sending[g]))>>
                        ELSE <<>>
  <2>1. /\ sending[g] # NoPacket /\ pipe[g][Tell] # <<>>
        /\ MinetReceive(g, "ip_module", "arp_module", sends)
        /\ sending' = [sending EXCEPT ![g] = NoPacket]
    BY <1>1 DEF TakeAnswer, Tell
  <2>2. TellDone(g)
    BY <1>0, <2>1 DEF Exchange, AskDue, AskDone, TellDue
  <2>3. Tail(pipe[g][Tell]) = <<>>
    BY <2>2, TailOfOne DEF TellDone
  <2>4. /\ sends = <<>> \/ sends = <<Head(sends)>>
        /\ \A i \in DOMAIN sends : sends[i].to # "arp_module"
    BY DEF Send
  <2> HIDE DEF sends
  <2>5. /\ out'[g]["ip_module"] = sends
        /\ out'[g]["arp_module"] = out[g]["arp_module"]
        /\ pipe'[g][Ask] = pipe[g][Ask] /\ pipe'[g][Tell] = <<>>
        /\ sending'[g] = NoPacket
    <3>1. /\ out'[g]["ip_module"] = sends
          /\ out'[g]["arp_module"] = out[g]["arp_module"]
          /\ pipe'[g][Tell] = Tail(pipe[g][Tell])
      BY <1>0, <2>1, ReceiveEffect, EndsOf, ModuleNames DEF Tell
    <3>2. pipe'[g][Ask] = pipe[g][Ask]
      BY <1>0, <2>1, ReceiveEffect, EndsOf, ModuleNames DEF Ask
    <3> QED
      BY <1>0, <2>1, <2>3, <3>1, <3>2 DEF SendingHonest
  <2>6. Exchange(g)' /\ OneSend(g, "ip_module")'
    BY <2>2, <2>4, <2>5 DEF Exchange, NoExchange, TellDone, SendsNothing, OneSend
  <2>7. \A h \in Hosts \ {g} : Apart(h)
    BY <1>0, <2>1, HandlersApart DEF SendingHonest
  <2> QED
    BY <1>0, <2>6, <2>7, ExchangesFrom
<1>2. ASSUME InLoop(g), NEW n \in {"ethernet_mux", "ip_mux"}, NEW p \in Packet,
             SendPacket(g, n, p)
      PROVE  Exchanges'
  <2>1. /\ MinetReceive(g, "ip_module", n, <<Send("arp_module", Question(p))>>)
        /\ sending' = [sending EXCEPT ![g] = p]
    BY <1>2 DEF SendPacket
  <2>2. NoExchange(g)
    BY <1>0, <1>2 DEF Exchange, InLoop
  <2>3. /\ out'[g]["ip_module"] = <<Send("arp_module", Question(p))>>
        /\ out'[g]["arp_module"] = out[g]["arp_module"]
        /\ pipe'[g][Ask] = pipe[g][Ask] /\ pipe'[g][Tell] = pipe[g][Tell]
        /\ sending'[g] = p
    BY <1>0, <2>1, ReceiveEffect, EndsOf, ModuleNames DEF Ask, Tell, SendingHonest
  <2>4. About(Question(p), p) /\ p # NoPacket
    BY IpModuleAssumption DEF About, Question
  <2>5. AskDue(g)'
    BY <2>2, <2>3, <2>4 DEF NoExchange, AskDue, SendsNothing
  <2>6. OneSend(g, "ip_module")'
    <3>1. \A x : <<x>> = <<Head(<<x>>)>>
      OBVIOUS
    <3> QED
      BY <2>3, <3>1 DEF OneSend
  <2>7. \A h \in Hosts \ {g} : Apart(h)
    BY <1>0, <2>1, HandlersApart DEF SendingHonest
  <2>8. Exchange(g)'
    BY <2>3, <2>4, <2>5 DEF Exchange
  <2> QED
    BY <1>0, <2>6, <2>7, <2>8, ExchangesFrom
<1>3. ASSUME InLoop(g), NEW sends, sends = <<>> \/ (\E x : sends = <<Send("ip_mux", x)>>),
             MinetReceive(g, "ip_module", "ethernet_mux", sends), UNCHANGED sending
      PROVE  Exchanges'
  <2>1. NoExchange(g)
    BY <1>0, <1>3 DEF Exchange, InLoop
  <2>2. /\ sends = <<>> \/ sends = <<Head(sends)>>
        /\ \A i \in DOMAIN sends : sends[i].to # "arp_module"
    BY <1>3 DEF Send
  <2>3. /\ out'[g]["ip_module"] = sends
        /\ out'[g]["arp_module"] = out[g]["arp_module"]
        /\ pipe'[g][Ask] = pipe[g][Ask] /\ pipe'[g][Tell] = pipe[g][Tell]
        /\ sending'[g] = NoPacket
    BY <1>0, <1>3, ReceiveEffect, EndsOf, ModuleNames DEF Ask, Tell, InLoop
  <2>4. Exchange(g)' /\ OneSend(g, "ip_module")'
    BY <2>1, <2>2, <2>3 DEF Exchange, NoExchange, SendsNothing, OneSend
  <2>5. \A h \in Hosts \ {g} : Apart(h)
    BY <1>0, <1>3, HandlersApart
  <2> QED
    BY <1>0, <2>4, <2>5, ExchangesFrom
<1>4. CASE FromEthernet(g)
  <2> DEFINE p == Received(g, "ip_module", "ethernet_mux").packet
  <2>1. InLoop(g) /\ MinetGetNextEvent(g, "ip_module", "ethernet_mux")
    BY <1>4 DEF FromEthernet
  <2>2. ICMPError(g, p) \in Packet
    <3>1. Received(g, "ip_module", "ethernet_mux") \in HonestIp
      BY <1>0, <2>1, EventHonest, HonestOf
    <3>2. p \in Packet
      BY <3>1 DEF HonestIp, IpFrame
    <3> QED
      BY <3>2 DEF Packet, ICMPError, IPAddress, Transport, Fault
  <2>3. \/ MinetReceive(g, "ip_module", "ethernet_mux", <<>>) /\ UNCHANGED sending
        \/ SendPacket(g, "ethernet_mux", ICMPError(g, p))
        \/ MinetReceive(g, "ip_module", "ethernet_mux", <<Send("ip_mux", p)>>) /\ UNCHANGED sending
    BY <1>4 DEF FromEthernet
  <2> HIDE DEF p
  <2> QED
    BY <1>2, <1>3, <2>1, <2>2, <2>3
<1>5. CASE FromIpMux(g)
  <2>1. /\ InLoop(g) /\ MinetGetNextEvent(g, "ip_module", "ip_mux")
        /\ SendPacket(g, "ip_mux", Received(g, "ip_module", "ip_mux"))
    BY <1>5 DEF FromIpMux
  <2>2. Received(g, "ip_module", "ip_mux") \in Packet
    <3>1. Received(g, "ip_module", "ip_mux") \in Honest(g, "ip_mux", "ip_module")
      BY <1>0, <2>1, EventHonest
    <3> QED
      BY <3>1, HonestOf DEF OwnPacket
  <2> QED
    BY <1>2, <2>1, <2>2
<1> QED
  BY <1>1, <1>4, <1>5 DEF IpModuleStep

\* The other modules have no part in it.
LEMMA OthersExchange ==
  ASSUME LinkInv, NEW g \in Hosts, sending' = sending,
         EthernetMuxStep(g) \/ IpMuxStep(g) \/ DriverStep(g) \/ TransportStep(g)
  PROVE  Exchanges'
<1>0. Shape /\ Exchanges
  BY DEF LinkInv, Exchanges
<1> DEFINE Others == Module \ {"ip_module", "arp_module"}
<1>1. /\ "ethernet_mux" \in Others /\ "ip_mux" \in Others /\ "device_driver" \in Others
      /\ Transport \subseteq Others /\ TransportsOf[g] \subseteq Others
  BY ModuleNames, IpMuxAssumption DEF Transport
<1>2. ASSUME NEW m \in Others, NEW sends,
             out' = [out EXCEPT ![g][m] = sends], pipe' = pipe
      PROVE  \A h \in Hosts : Apart(h)
  BY <1>0, <1>2, ModuleNames DEF Apart, Shape
<1>3. ASSUME NEW m \in Others, NEW n, NEW sends, MinetReceive(g, m, n, sends)
      PROVE  \A h \in Hosts : Apart(h)
  BY <1>0, <1>3, OtherHandlersApart
<1> HIDE DEF Others
<1>4. (\A h \in Hosts : Apart(h)) => Exchanges'
  BY <1>0, ApartKeepsExchange DEF Exchanges
<1>5. CASE EthernetMuxStep(g)
  <2>1. \E n, sends : MinetReceive(g, "ethernet_mux", n, sends)
    BY <1>5 DEF EthernetMuxStep, Dispatch, PassDown
  <2> QED
    BY <1>1, <1>3, <1>4, <2>1
<1>6. CASE IpMuxStep(g)
  <2>1. \E n, sends : MinetReceive(g, "ip_mux", n, sends)
    BY <1>6 DEF IpMuxStep, Deliver, FromTransport
  <2> QED
    BY <1>1, <1>3, <1>4, <2>1
<1>7. CASE DriverStep(g)
  <2>1. CASE ProcessOutgoing(g)
    <3>1. \E n, sends : MinetReceive(g, "device_driver", n, sends)
      BY <2>1 DEF ProcessOutgoing
    <3> QED
      BY <1>1, <1>3, <1>4, <3>1
  <2>2. CASE ProcessIncoming(g)
    <3>1. (\E sends : out' = [out EXCEPT ![g]["device_driver"] = sends]) /\ pipe' = pipe
      BY <2>2 DEF ProcessIncoming
    <3> QED
      BY <1>1, <1>2, <1>4, <3>1
  <2> QED
    BY <1>7, <2>1, <2>2 DEF DriverStep
<1>8. CASE TransportStep(g)
  <2>1. PICK u \in TransportsOf[g] :
          TransportReceive(g, u) \/ \E to \in Destinations : TransportSend(g, u, to)
    BY <1>8 DEF TransportStep
  <2>2. \/ \E n, sends : MinetReceive(g, u, n, sends)
        \/ (\E sends : out' = [out EXCEPT ![g][u] = sends]) /\ pipe' = pipe
    BY <2>1 DEF TransportReceive, TransportSend
  <2>3. u \in Others
    BY <1>1
  <2> QED
    BY <1>2, <1>3, <1>4, <2>2, <2>3
<1> QED
  BY <1>5, <1>6, <1>7, <1>8

LEMMA InitExchanges == Init => Exchanges
<1> SUFFICES ASSUME Init, NEW h \in Hosts PROVE Exchange(h) /\ OneSend(h, "ip_module")
  BY DEF Exchanges
<1>1. /\ out[h]["ip_module"] = <<>> /\ out[h]["arp_module"] = <<>>
      /\ pipe[h][Ask] = <<>> /\ pipe[h][Tell] = <<>> /\ sending[h] = NoPacket
  BY EndsOf, ModuleNames DEF Init, PipesInit, IpInit
<1> QED
  BY <1>1 DEF Exchange, NoExchange, SendsNothing, OneSend

LEMMA NextExchanges ==
  ASSUME LinkInv, [Next]_vars
  PROVE  Exchanges'
<1>1. CASE UNCHANGED vars
  <2>1. \A h \in Hosts : Apart(h)
    BY <1>1 DEF vars, pipeVars, Apart
  <2> QED
    BY <2>1, ApartKeepsExchange DEF LinkInv, Exchanges
<1>2. ASSUME NEW g \in Hosts, HostStep(g) PROVE Exchanges'
  <2>1. CASE Sending(g)
    BY <2>1, SendExchange DEF Sending
  <2>2. CASE Arp(g)
    BY <2>2, ArpExchange DEF Arp
  <2>3. CASE Ip(g)
    BY <2>3, IpExchange DEF Ip
  <2>4. CASE Muxes(g)
    BY <2>4, OthersExchange DEF Muxes
  <2>5. CASE Driver(g)
    BY <2>5, OthersExchange DEF Driver
  <2>6. CASE TransportStep(g)
    BY <2>6, OthersExchange DEF TransportStep
  <2> QED
    BY <1>2, <2>1, <2>2, <2>3, <2>4, <2>5, <2>6 DEF HostStep
<1> QED
  BY <1>1, <1>2 DEF Next

LEMMA LinkInvariant == Spec => []LinkInv
<1>1. Init => LinkInv
  BY InitHonest, InitExchanges DEF HonestInv, Exchanges, LinkInv
<1>2. LinkInv /\ [Next]_vars => LinkInv'
  BY NextHonest, NextExchanges DEF HonestInv, Exchanges, LinkInv
<1> QED
  BY <1>1, <1>2, PTL DEF Spec

(***************************************************************************)
(* Whatever hosts, capacities and traffic: pipes carry only the messages   *)
(* of their two modules and never more than they hold, the ARP cache and   *)
(* the frames on the link are well formed, and transports take packets.    *)
(***************************************************************************)
THEOREM TypeCorrect == Spec => []TypeOK
<1>1. LinkInv => TypeOK
  <2> SUFFICES ASSUME LinkInv PROVE TypeOK
    OBVIOUS
  <2>1. PipesTypeOK
    <3> SUFFICES ASSUME NEW h \in Hosts
                 PROVE  /\ \A m, n \in Module : <<m, n>> \in Ends =>
                             /\ pipe[h][<<m, n>>] \in Seq(Carries(m, n))
                             /\ Len(pipe[h][<<m, n>>]) <= Capacity
                        /\ \A m \in Module : \A i \in DOMAIN out[h][m] :
                             /\ out[h][m][i].to \in Peers(m)
                             /\ out[h][m][i].msg \in Carries(m, out[h][m][i].to)
      BY DEF PipesTypeOK
    <3>1. ASSUME NEW m \in Module, NEW n \in Module, <<m, n>> \in Ends
          PROVE  /\ pipe[h][<<m, n>>] \in Seq(Carries(m, n))
                 /\ Len(pipe[h][<<m, n>>]) <= Capacity
      <4>1. pipe[h][<<m, n>>] \in Seq(Honest(h, m, n)) /\ Len(pipe[h][<<m, n>>]) <= Capacity
        BY <3>1 DEF LinkInv, PipesHonest
      <4>2. Honest(h, m, n) \subseteq Carries(m, n)
        BY <3>1, EndsOf, HonestIsTyped
      <4> QED
        BY <4>1, <4>2
    <3>2. ASSUME NEW m \in Module, NEW i \in DOMAIN out[h][m]
          PROVE  /\ out[h][m][i].to \in Peers(m)
                 /\ out[h][m][i].msg \in Carries(m, out[h][m][i].to)
      <4>1. out[h][m] \in SendLists(h, m)
        BY DEF LinkInv, PipesHonest
      <4>2. out[h][m][i] \in SendsOf(h, m)
        BY <4>1 DEF SendLists
      <4> QED
        BY <4>2, SendsTyped, HonestIsTyped
    <3> QED
      BY <3>1, <3>2
  <2>2. ArpTypeOK
    <3>1. \A x \in Hosts : Known(x, MyEthernetAddr[x]) \in ARPRequestResponse
      BY LinkIntAssumption DEF Known, ARPRequestResponse, IPAddress, EthernetAddr
    <3>2. Hosts \subseteq IPAddress
      BY DEF IPAddress
    <3> QED
      BY <3>1, <3>2 DEF LinkInv, CacheHonest, ArpTypeOK
  <2>3. IpTypeOK
    <3>1. \A h \in Hosts : sending[h] \in Packet \cup {NoPacket}
      BY DEF LinkInv, SendingHonest, OwnPacket
    <3>2. sending = [h \in Hosts |-> sending[h]]
      BY DEF LinkInv, SendingHonest
    <3> QED
      BY <3>1, <3>2 DEF IpTypeOK
  <2>4. HonestFrame \subseteq Frame
    BY DEF HonestFrame, HonestArp, HonestIp, Frame
  <2>5. DriverTypeOK
    BY <2>4 DEF LinkInv, LinkHonest, DriverTypeOK
  <2>6. \A h \in Hosts : received[h] \in Seq(Packet)
    <3>1. \A q \in Seq(SoundPacket) : q \in Seq(Packet)
      BY DEF SoundPacket
    <3> QED
      BY <3>1 DEF LinkInv, TransportsOK
  <2> QED
    BY <2>1, <2>2, <2>3, <2>5, <2>6 DEF TypeOK
<1> QED
  BY <1>1, LinkInvariant, PTL

(***************************************************************************)
(* SendPacket of ip_module takes the next message of arp_module for the    *)
(* answer to its question, without looking. It always is: while it waits   *)
(* exactly one question or answer is under way between the two, about the  *)
(* destination of the packet in hand, and otherwise none.                  *)
(***************************************************************************)
THEOREM AnswersAreForTheirQuestions == Spec => []AnswerIsForQuestion
<1>1. LinkInv => AnswerIsForQuestion
  <2> SUFFICES ASSUME LinkInv, NEW h \in Hosts
               PROVE  LET between == Pending(h, "ip_module", "arp_module")
                                       \cup Pending(h, "arp_module", "ip_module")
                      IN IF sending[h] = NoPacket
                           THEN between = {}
                           ELSE \E x \in between : between = {x} /\ x.msg.ipaddr = sending[h].to
    BY DEF AnswerIsForQuestion
  <2> DEFINE asks == Pending(h, "ip_module", "arp_module")
             tells == Pending(h, "arp_module", "ip_module")
             Item(m, place, i, msg) == [by |-> m, place |-> place, at |-> i, msg |-> msg]
  <2>1. Exchange(h)
    BY DEF LinkInv
  <2>2. ASSUME NEW m, NEW n, pipe[h][<<m, n>>] = <<>>, SendsNothing(h, m, n)
        PROVE  Pending(h, m, n) = {}
    BY <2>2 DEF Pending, SendsNothing
  <2>3. ASSUME NEW m, NEW n, NEW x, pipe[h][<<m, n>>] = <<x>>, SendsNothing(h, m, n)
        PROVE  Pending(h, m, n) = {Item(m, "pipe", 1, x)}
    <3>1. DOMAIN pipe[h][<<m, n>>] = {1} /\ pipe[h][<<m, n>>][1] = x
      BY <2>3
    <3> QED
      BY <2>3, <3>1 DEF Pending, SendsNothing
  <2>4. ASSUME NEW m, NEW n, NEW x, pipe[h][<<m, n>>] = <<>>,
               1 \in DOMAIN out[h][m], out[h][m][1].to = n, out[h][m][1].msg = x,
               \A i \in DOMAIN out[h][m] : i # 1 => out[h][m][i].to # n
        PROVE  Pending(h, m, n) = {Item(m, "out", 1, x)}
    BY <2>4 DEF Pending
  <2>5. out[h]["ip_module"] = <<>> => SendsNothing(h, "ip_module", "arp_module")
    BY DEF SendsNothing
  <2> HIDE DEF Item
  <2>6. CASE sending[h] = NoPacket
    <3>1. asks = {} /\ tells = {}
      BY <2>1, <2>2, <2>6 DEF Exchange, NoExchange, Ask, Tell
    <3> QED
      BY <2>6, <3>1
  <2>7. CASE sending[h] # NoPacket
    <3>0. ASSUME NEW m, NEW place, NEW i, NEW msg, msg.ipaddr = sending[h].to,
                 asks \cup tells = {Item(m, place, i, msg)}
          PROVE  \E x \in asks \cup tells :
                   asks \cup tells = {x} /\ x.msg.ipaddr = sending[h].to
      <4>1. Item(m, place, i, msg).msg = msg
        BY DEF Item
      <4> HIDE DEF asks, tells
      <4> QED
        BY <3>0, <4>1
    <3>1. CASE AskDue(h)
      <4>1. PICK x : About(x, sending[h]) /\ out[h]["ip_module"] = <<Send("arp_module", x)>>
        BY <3>1 DEF AskDue
      <4>2. /\ DOMAIN out[h]["ip_module"] = {1}
            /\ out[h]["ip_module"][1].to = "arp_module" /\ out[h]["ip_module"][1].msg = x
        BY <4>1 DEF Send
      <4>3. asks = {Item("ip_module", "out", 1, x)}
        BY <2>4, <3>1, <4>2 DEF AskDue, Ask
      <4>4. tells = {}
        BY <2>2, <3>1 DEF AskDue, Tell
      <4> QED
        BY <2>7, <3>0, <4>1, <4>3, <4>4 DEF About
    <3>2. CASE AskDone(h)
      <4>1. PICK x : About(x, sending[h]) /\ pipe[h][Ask] = <<x>>
        BY <3>2 DEF AskDone
      <4>2. asks = {Item("ip_module", "pipe", 1, x)}
        BY <2>3, <2>5, <3>2, <4>1 DEF AskDone, Ask
      <4>3. tells = {}
        BY <2>2, <3>2 DEF AskDone, Tell
      <4> QED
        BY <2>7, <3>0, <4>1, <4>2, <4>3 DEF About
    <3>3. CASE TellDue(h)
      <4>1. asks = {}
        BY <2>2, <2>5, <3>3 DEF TellDue, Ask
      <4>2. out[h]["arp_module"] \in SendLists(h, "arp_module")
        BY ModuleNames DEF LinkInv, PipesHonest
      <4>3. /\ 1 \in DOMAIN out[h]["arp_module"]
            /\ Head(out[h]["arp_module"]) = out[h]["arp_module"][1]
        BY <3>3, <4>2, HeadTail DEF TellDue, SendLists
      <4>4. tells = {Item("arp_module", "out", 1, Head(out[h]["arp_module"]).msg)}
        BY <2>4, <3>3, <4>3 DEF TellDue, Tell
      <4> QED
        BY <2>7, <3>0, <3>3, <4>1, <4>4 DEF TellDue, About
    <3>4. CASE TellDone(h)
      <4>1. PICK x : About(x, sending[h]) /\ pipe[h][Tell] = <<x>>
        BY <3>4 DEF TellDone
      <4>2. asks = {}
        BY <2>2, <2>5, <3>4 DEF TellDone, Ask
      <4>3. tells = {Item("arp_module", "pipe", 1, x)}
        BY <2>3, <3>4, <4>1 DEF TellDone, Tell
      <4> QED
        BY <2>7, <3>0, <4>1, <4>2, <4>3 DEF About
    <3> QED
      BY <2>1, <2>7, <3>1, <3>2, <3>3, <3>4 DEF Exchange
  <2> QED
    BY <2>6, <2>7
<1> QED
  BY <1>1, LinkInvariant, PTL

(***************************************************************************)
(* Over a link that loses frames and damages IP headers, with any order of *)
(* ARP requests and replies: a frame with a packet for a host carries the  *)
(* Ethernet address of that host and of no other.                          *)
(***************************************************************************)
THEOREM FramesReachTheirHost == Spec => []FramesFindTheirHost
<1>1. LinkInv => FramesFindTheirHost
  <2> SUFFICES ASSUME LinkInv, NEW g \in Hosts, NEW i \in DOMAIN wire[g],
                      wire[g][i].type = "PROTO_IP", wire[g][i].packet.to \in Hosts
               PROVE  wire[g][i].dst = MyEthernetAddr[wire[g][i].packet.to]
    BY DEF FramesFindTheirHost
  <2>1. wire[g] \in Seq(HonestFrame)
    BY DEF LinkInv, LinkHonest
  <2>2. wire[g][i] \in HonestFrame
    BY <2>1
  <2>3. wire[g][i] \in HonestIp
    BY <2>2 DEF HonestFrame, HonestArp, ArpFrame
  <2> QED
    BY <2>3 DEF HonestIp
<1> QED
  BY <1>1, LinkInvariant, PTL

-----------------------------------------------------------------------------
(***************************************************************************)
(* The way of the packets transport u of host g sends to host h, in eleven *)
(* stages. What a module holds in its hands for another counts with their  *)
(* pipe, so that a send changes no stage, and a handler moves one packet   *)
(* from the head of a stage to the end of the next.                        *)
(***************************************************************************)
Way(h, m, n) ==
  pipe[h][<<m, n>>] \o
    IF out[h][m] # <<>> /\ Head(out[h][m]).to = n THEN <<Head(out[h][m]).msg>> ELSE <<>>

Content(f) == IF f.type = "PROTO_IP" THEN f.packet ELSE NoPacket

Contents(w) == [i \in 1 .. Len(w) |-> Content(w[i])]

InHand(h) == IF sending[h] = NoPacket THEN <<>> ELSE <<sending[h]>>

Flow(g, u, h) ==
  [k \in 1 .. 11 |->
     CASE k = 1  -> Way(g, u, "ip_mux")
       [] k = 2  -> Way(g, "ip_mux", "ip_module")
       [] k = 3  -> InHand(g)
       [] k = 4  -> Contents(Way(g, "ip_module", "ethernet_mux"))
       [] k = 5  -> Contents(Way(g, "ethernet_mux", "device_driver"))
       [] k = 6  -> Contents(wire[h])
       [] k = 7  -> Contents(Way(h, "device_driver", "ethernet_mux"))
       [] k = 8  -> Contents(Way(h, "ethernet_mux", "ip_module"))
       [] k = 9  -> Way(h, "ip_module", "ip_mux")
       [] k = 10 -> Way(h, "ip_mux", u)
       [] k = 11 -> received[h]]

\* The packets the transport has sent and nothing has damaged.
Numbered(g, u, p) ==
  p \in Packet /\ p.from = g /\ p.proto = u /\ p.fault = "none" /\ p.id # 0

\* Item i of stage k is further on its way than item j of stage l.
Further(k, i, l, j) == k > l \/ (k = l /\ i < j)

InOrder(F, g, u, count) ==
  /\ \A k, l \in 1 .. 11 : \A i \in DOMAIN F[k], j \in DOMAIN F[l] :
       Numbered(g, u, F[k][i]) /\ Numbered(g, u, F[l][j]) /\ Further(k, i, l, j)
         => F[k][i].id < F[l][j].id
  /\ \A k \in 1 .. 11 : \A i \in DOMAIN F[k] :
       Numbered(g, u, F[k][i]) => F[k][i].id <= count

FlowsInOrder ==
  \A g, h \in Hosts : \A u \in Transport : InOrder(Flow(g, u, h), g, u, sent[g][u])

-----------------------------------------------------------------------------
(***************************************************************************)
(* A step that moves at most one packet from a stage to the next, drops    *)
(* others, and adds only packets without a number keeps the order.         *)
(***************************************************************************)
Item == Packet \cup {NoPacket}

\* Stage q becomes r: the same, one shorter, or with one more of no number.
Quietly(g, u, q, r) ==
  \/ r = q
  \/ q # <<>> /\ r = Tail(q)
  \/ \E x \in Item : ~ Numbered(g, u, x) /\ r = Append(q, x)

Typed(F) == \A k \in 1 .. 11 : F[k] \in Seq(Item)

\* The head of stage k goes to the end of the next, and nothing else changes.
Moves(F, G, k) ==
  /\ F[k] # <<>> /\ G[k] = Tail(F[k]) /\ G[k + 1] = Append(F[k + 1], Head(F[k]))
  /\ \A l \in (1 .. 11) \ {k, k + 1} : G[l] = F[l]

\* A packet comes in at the first stage.
Enters(F, G, x) ==
  G[1] = Append(F[1], x) /\ \A l \in 2 .. 11 : G[l] = F[l]

AllQuiet(g, u, F, G) == \A k \in 1 .. 11 : Quietly(g, u, F[k], G[k])

LEMMA SeqOf ==
  ASSUME NEW S, NEW q \in Seq(S)
  PROVE  /\ Len(q) \in Nat /\ DOMAIN q = 1 .. Len(q)
         /\ \A i \in DOMAIN q : q[i] \in S
         /\ q # <<>> => /\ 1 \in DOMAIN q /\ Head(q) = q[1] /\ Tail(q) \in Seq(S)
                        /\ DOMAIN Tail(q) = 1 .. Len(q) - 1
                        /\ \A i \in DOMAIN Tail(q) :
                             i + 1 \in DOMAIN q /\ Tail(q)[i] = q[i + 1]
         /\ \A x \in S : /\ Append(q, x) \in Seq(S)
                         /\ DOMAIN Append(q, x) = 1 .. Len(q) + 1
                         /\ Append(q, x)[Len(q) + 1] = x
                         /\ \A i \in DOMAIN q : Append(q, x)[i] = q[i]
OBVIOUS

\* Every item of a later state was an item before, and no two have changed their
\* order: "from" is where the item was.
LEMMA QuietlyFrom ==
  ASSUME NEW g, NEW u, NEW q \in Seq(Item), NEW r, Quietly(g, u, q, r)
  PROVE  \E d \in {0, 1} :
           \A j \in DOMAIN r : Numbered(g, u, r[j]) =>
             j \in Nat /\ j + d \in DOMAIN q /\ r[j] = q[j + d]
<1>1. CASE r = q
  <2>1. \A j \in DOMAIN r : j \in Nat /\ j + 0 \in DOMAIN q /\ r[j] = q[j + 0]
    BY <1>1, SeqOf
  <2> QED
    BY <2>1
<1>2. CASE q # <<>> /\ r = Tail(q)
  <2>1. \A j \in DOMAIN r : j \in Nat /\ j + 1 \in DOMAIN q /\ r[j] = q[j + 1]
    BY <1>2, SeqOf
  <2> QED
    BY <2>1
<1>3. ASSUME NEW x \in Item, ~ Numbered(g, u, x), r = Append(q, x)
      PROVE  \E d \in {0, 1} :
               \A j \in DOMAIN r : Numbered(g, u, r[j]) =>
                 j \in Nat /\ j + d \in DOMAIN q /\ r[j] = q[j + d]
  <2>1. /\ Len(q) \in Nat /\ DOMAIN q = 1 .. Len(q) /\ DOMAIN r = 1 .. Len(q) + 1
        /\ r[Len(q) + 1] = x /\ \A i \in DOMAIN q : r[i] = q[i]
    BY <1>3, SeqOf
  <2>2. ASSUME NEW j \in DOMAIN r, Numbered(g, u, r[j])
        PROVE  j \in Nat /\ j + 0 \in DOMAIN q /\ r[j] = q[j + 0]
    <3>1. j # Len(q) + 1
      BY <1>3, <2>1, <2>2
    <3> QED
      BY <2>1, <3>1
  <2> QED
    BY <2>2
<1> QED
  BY <1>1, <1>2, <1>3 DEF Quietly

\* No packet moves to another stage.
LEMMA QuietStep ==
  ASSUME NEW g, NEW u, NEW F, NEW G, NEW count \in Nat, NEW more \in Nat, count <= more,
         Typed(F), AllQuiet(g, u, F, G),
         InOrder(F, g, u, count)
  PROVE  InOrder(G, g, u, more)
<1>1. ASSUME NEW k \in 1 .. 11, NEW l \in 1 .. 11, NEW i \in DOMAIN G[k], NEW j \in DOMAIN G[l],
             Numbered(g, u, G[k][i]), Numbered(g, u, G[l][j]), Further(k, i, l, j)
      PROVE  G[k][i].id < G[l][j].id
  <2>1. PICK d \in {0, 1} :
          \A n \in DOMAIN G[k] : Numbered(g, u, G[k][n]) =>
            n \in Nat /\ n + d \in DOMAIN F[k] /\ G[k][n] = F[k][n + d]
    <3>1. F[k] \in Seq(Item) /\ Quietly(g, u, F[k], G[k])
      BY DEF Typed, AllQuiet
    <3> QED
      BY <3>1, QuietlyFrom
  <2>2. PICK c \in {0, 1} :
          \A n \in DOMAIN G[l] : Numbered(g, u, G[l][n]) =>
            n \in Nat /\ n + c \in DOMAIN F[l] /\ G[l][n] = F[l][n + c]
    <3>1. F[l] \in Seq(Item) /\ Quietly(g, u, F[l], G[l])
      BY DEF Typed, AllQuiet
    <3> QED
      BY <3>1, QuietlyFrom
  <2>3. CASE k = l
    <3>1. j \in Nat /\ j + d \in DOMAIN F[k] /\ G[l][j] = F[k][j + d]
      BY <1>1, <2>1, <2>3
    <3>2. i \in Nat /\ i + d \in DOMAIN F[k] /\ G[k][i] = F[k][i + d]
      BY <1>1, <2>1
    <3>3. Further(k, i + d, k, j + d)
      BY <1>1, <2>3, <3>1, <3>2 DEF Further
    <3> QED
      BY <1>1, <3>1, <3>2, <3>3 DEF InOrder
  <2>4. CASE k # l
    <3>1. Further(k, i + d, l, j + c)
      BY <1>1, <2>4 DEF Further
    <3> QED
      BY <1>1, <2>1, <2>2, <3>1 DEF InOrder
  <2> QED
    BY <2>3, <2>4
<1>2. ASSUME NEW k \in 1 .. 11, NEW i \in DOMAIN G[k], Numbered(g, u, G[k][i])
      PROVE  G[k][i].id <= more
  <2>1. PICK d \in {0, 1} :
          \A n \in DOMAIN G[k] : Numbered(g, u, G[k][n]) =>
            n \in Nat /\ n + d \in DOMAIN F[k] /\ G[k][n] = F[k][n + d]
    <3>1. F[k] \in Seq(Item) /\ Quietly(g, u, F[k], G[k])
      BY DEF Typed, AllQuiet
    <3> QED
      BY <3>1, QuietlyFrom
  <2>2. G[k][i].id <= count /\ G[k][i].id \in Nat
    BY <1>2, <2>1 DEF InOrder, Numbered, Packet
  <2> QED
    BY <2>2
<1> QED
  BY <1>1, <1>2 DEF InOrder

\* The packet at the head of stage k goes to the end of the next.
LEMMA MoveStep ==
  ASSUME NEW g, NEW u, NEW F, NEW G, NEW count \in Nat, NEW k \in 1 .. 10,
         Typed(F), Moves(F, G, k),
         InOrder(F, g, u, count)
  PROVE  InOrder(G, g, u, count)
<1>0. k + 1 \in 1 .. 11 /\ k \in 1 .. 11
  OBVIOUS
<1>1. /\ \A i \in DOMAIN G[k] : i \in Nat /\ i # 0 /\ i + 1 \in DOMAIN F[k] /\ G[k][i] = F[k][i + 1]
      /\ 1 \in DOMAIN F[k]
  <2>1. F[k] \in Seq(Item) /\ F[k] # <<>> /\ G[k] = Tail(F[k])
    BY <1>0 DEF Typed, Moves
  <2>2. /\ 1 \in DOMAIN F[k] /\ DOMAIN Tail(F[k]) = 1 .. Len(F[k]) - 1 /\ Len(F[k]) \in Nat
        /\ \A i \in DOMAIN Tail(F[k]) : i + 1 \in DOMAIN F[k] /\ Tail(F[k])[i] = F[k][i + 1]
    BY <2>1, SeqOf
  <2> QED
    BY <2>1, <2>2
<1>2. /\ DOMAIN G[k + 1] = 1 .. Len(F[k + 1]) + 1 /\ Len(F[k + 1]) \in Nat
      /\ DOMAIN F[k + 1] = 1 .. Len(F[k + 1])
      /\ G[k + 1][Len(F[k + 1]) + 1] = F[k][1]
      /\ \A i \in DOMAIN F[k + 1] : G[k + 1][i] = F[k + 1][i]
  <2>1. /\ F[k] \in Seq(Item) /\ F[k] # <<>> /\ F[k + 1] \in Seq(Item)
        /\ G[k + 1] = Append(F[k + 1], Head(F[k]))
    BY <1>0 DEF Typed, Moves
  <2>2. Head(F[k]) \in Item /\ Head(F[k]) = F[k][1]
    BY <2>1, SeqOf
  <2> QED
    BY <2>1, <2>2, SeqOf
<1> DEFINE n == Len(F[k + 1]) + 1
           WasAt(l, j, m, i) == m \in 1 .. 11 /\ i \in DOMAIN F[m] /\ G[l][j] = F[m][i]
<1>3. ASSUME NEW l \in 1 .. 11, NEW j \in DOMAIN G[l]
      PROVE  \/ l \notin {k, k + 1} /\ WasAt(l, j, l, j)
             \/ l = k /\ j \in Nat /\ j # 0 /\ WasAt(l, j, k, j + 1)
             \/ l = k + 1 /\ j \in 1 .. n - 1 /\ WasAt(l, j, l, j)
             \/ l = k + 1 /\ j = n /\ WasAt(l, j, k, 1)
  <2>1. CASE l \notin {k, k + 1}
    BY <2>1 DEF Moves
  <2>2. CASE l = k
    BY <1>0, <1>1, <2>2
  <2>3. CASE l = k + 1
    BY <1>0, <1>1, <1>2, <2>3
  <2> QED
    BY <2>1, <2>2, <2>3
<1>4. \A l \in 1 .. 11 : \A j \in DOMAIN G[l] :
        \E m \in 1 .. 11 : \E i \in DOMAIN F[m] : G[l][j] = F[m][i]
  BY <1>0, <1>3
<1>5. n \in Nat
  BY <1>2
<1> HIDE DEF n
<1>6. ASSUME NEW l \in 1 .. 11, NEW m \in 1 .. 11, NEW i \in DOMAIN G[l], NEW j \in DOMAIN G[m],
             Numbered(g, u, G[l][i]), Numbered(g, u, G[m][j]), Further(l, i, m, j)
      PROVE  G[l][i].id < G[m][j].id
  <2>1. PICK l0 \in 1 .. 11 : \E i0 \in DOMAIN F[l0], m0 \in 1 .. 11 : \E j0 \in DOMAIN F[m0] :
          G[l][i] = F[l0][i0] /\ G[m][j] = F[m0][j0] /\ Further(l0, i0, m0, j0)
    <3>1. Further(l, i, m, j)
      BY <1>6
    <3>2. \/ l \notin {k, k + 1} /\ WasAt(l, i, l, i)
          \/ l = k /\ i \in Nat /\ i # 0 /\ WasAt(l, i, k, i + 1)
          \/ l = k + 1 /\ i \in 1 .. n - 1 /\ WasAt(l, i, l, i)
          \/ l = k + 1 /\ i = n /\ WasAt(l, i, k, 1)
      BY <1>3
    <3>3. \/ m \notin {k, k + 1} /\ WasAt(m, j, m, j)
          \/ m = k /\ j \in Nat /\ j # 0 /\ WasAt(m, j, k, j + 1)
          \/ m = k + 1 /\ j \in 1 .. n - 1 /\ WasAt(m, j, m, j)
          \/ m = k + 1 /\ j = n /\ WasAt(m, j, k, 1)
      BY <1>3
    <3> QED
      BY <1>0, <1>5, <3>1, <3>2, <3>3 DEF Further
  <2>2. PICK i0 \in DOMAIN F[l0], m0 \in 1 .. 11 : \E j0 \in DOMAIN F[m0] :
          G[l][i] = F[l0][i0] /\ G[m][j] = F[m0][j0] /\ Further(l0, i0, m0, j0)
    BY <2>1
  <2>3. PICK j0 \in DOMAIN F[m0] :
          G[l][i] = F[l0][i0] /\ G[m][j] = F[m0][j0] /\ Further(l0, i0, m0, j0)
    BY <2>2
  <2>4. Numbered(g, u, F[l0][i0]) /\ Numbered(g, u, F[m0][j0])
    BY <1>6, <2>3
  <2>5. F[l0][i0].id < F[m0][j0].id
    BY <2>3, <2>4 DEF InOrder
  <2> QED
    BY <2>3, <2>5
<1>7. ASSUME NEW l \in 1 .. 11, NEW j \in DOMAIN G[l], Numbered(g, u, G[l][j])
      PROVE  G[l][j].id <= count
  BY <1>4, <1>7 DEF InOrder
<1> QED
  BY <1>6, <1>7 DEF InOrder

\* The transport sends its next packet.
LEMMA NewStep ==
  ASSUME NEW g, NEW u, NEW F, NEW G, NEW count \in Nat, NEW x \in Item,
         Typed(F), x.id = count + 1, Enters(F, G, x),
         InOrder(F, g, u, count)
  PROVE  InOrder(G, g, u, count + 1)
<1> DEFINE n == Len(F[1]) + 1
<1>1. /\ DOMAIN G[1] = 1 .. n /\ n \in Nat
      /\ DOMAIN F[1] = 1 .. n - 1
      /\ G[1][n] = x
      /\ \A i \in DOMAIN F[1] : G[1][i] = F[1][i]
  <2>1. F[1] \in Seq(Item) /\ G[1] = Append(F[1], x)
    BY DEF Typed, Enters
  <2> QED
    BY <2>1, SeqOf
<1> HIDE DEF n
<1>2. \A l \in 1 .. 11 : \A j \in DOMAIN G[l] :
        \/ j \in DOMAIN F[l] /\ G[l][j] = F[l][j]
        \/ l = 1 /\ j = n /\ G[l][j] = x
  <2>1. ASSUME NEW j \in DOMAIN G[1]
        PROVE  \/ j \in DOMAIN F[1] /\ G[1][j] = F[1][j]
               \/ j = n /\ G[1][j] = x
    <3>1. j \in 1 .. n - 1 \/ j = n
      BY <1>1
    <3>2. j \in 1 .. n - 1 => j \in DOMAIN F[1] /\ G[1][j] = F[1][j]
      BY <1>1
    <3>3. j = n => G[1][j] = x
      BY <1>1
    <3> QED
      BY <3>1, <3>2, <3>3
  <2>2. \A l \in 2 .. 11 : G[l] = F[l]
    BY DEF Enters
  <2>3. \A l \in 1 .. 11 : l = 1 \/ l \in 2 .. 11
    OBVIOUS
  <2> QED
    BY <2>1, <2>2, <2>3
<1>3. ASSUME NEW l \in 1 .. 11, NEW m \in 1 .. 11, NEW i \in DOMAIN G[l], NEW j \in DOMAIN G[m],
             Further(l, i, m, j), Numbered(g, u, G[l][i]), Numbered(g, u, G[m][j])
      PROVE  G[l][i].id < G[m][j].id
  <2>1. ~ (l = 1 /\ i = n)
    BY <1>1, <1>3 DEF Further
  <2>2. i \in DOMAIN F[l] /\ G[l][i] = F[l][i] /\ F[l][i].id <= count /\ F[l][i].id \in Nat
    BY <1>2, <1>3, <2>1 DEF InOrder, Numbered, Packet
  <2>3. CASE m = 1 /\ j = n
    BY <1>1, <2>2, <2>3
  <2>4. CASE ~ (m = 1 /\ j = n)
    BY <1>2, <1>3, <2>2, <2>4 DEF InOrder
  <2> QED
    BY <2>3, <2>4
<1>4. ASSUME NEW l \in 1 .. 11, NEW j \in DOMAIN G[l], Numbered(g, u, G[l][j])
      PROVE  G[l][j].id <= count + 1
  <2>1. CASE j \in DOMAIN F[l] /\ G[l][j] = F[l][j]
    <3>1. G[l][j].id <= count /\ G[l][j].id \in Nat
      BY <1>4, <2>1 DEF InOrder, Numbered, Packet
    <3> QED
      BY <3>1
  <2>2. CASE l = 1 /\ j = n /\ G[l][j] = x
    BY <2>2
  <2> QED
    BY <1>2, <2>1, <2>2
<1> QED
  BY <1>3, <1>4 DEF InOrder

-----------------------------------------------------------------------------
\* The stages of a flow, before and after a step.
LEMMA Stages ==
  ASSUME NEW g, NEW u, NEW h
  PROVE  LET F == Flow(g, u, h) IN
         /\ F[1] = Way(g, u, "ip_mux")
         /\ F[2] = Way(g, "ip_mux", "ip_module")
         /\ F[3] = InHand(g)
         /\ F[4] = Contents(Way(g, "ip_module", "ethernet_mux"))
         /\ F[5] = Contents(Way(g, "ethernet_mux", "device_driver"))
         /\ F[6] = Contents(wire[h])
         /\ F[7] = Contents(Way(h, "device_driver", "ethernet_mux"))
         /\ F[8] = Contents(Way(h, "ethernet_mux", "ip_module"))
         /\ F[9] = Way(h, "ip_module", "ip_mux")
         /\ F[10] = Way(h, "ip_mux", u)
         /\ F[11] = received[h]
BY DEF Flow

LEMMA StagesNext ==
  ASSUME NEW g, NEW u, NEW h
  PROVE  LET G == Flow(g, u, h)' IN
         /\ G[1] = Way(g, u, "ip_mux")'
         /\ G[2] = Way(g, "ip_mux", "ip_module")'
         /\ G[3] = InHand(g)'
         /\ G[4] = Contents(Way(g, "ip_module", "ethernet_mux")')
         /\ G[5] = Contents(Way(g, "ethernet_mux", "device_driver")')
         /\ G[6] = Contents(wire'[h])
         /\ G[7] = Contents(Way(h, "device_driver", "ethernet_mux")')
         /\ G[8] = Contents(Way(h, "ethernet_mux", "ip_module")')
         /\ G[9] = Way(h, "ip_module", "ip_mux")'
         /\ G[10] = Way(h, "ip_mux", u)'
         /\ G[11] = received'[h]
BY DEF Flow, Contents

LEMMA WayTyped ==
  ASSUME PipesHonest, NEW h \in Hosts, NEW m \in Module, NEW n \in Peers(m)
  PROVE  Way(h, m, n) \in Seq(Honest(h, m, n))
<1>1. <<m, n>> \in Ends
  BY PeersMutual
<1>2. pipe[h][<<m, n>>] \in Seq(Honest(h, m, n)) /\ out[h][m] \in SendLists(h, m)
  BY <1>1 DEF PipesHonest
<1>3. ASSUME out[h][m] # <<>>, Head(out[h][m]).to = n
      PROVE  Head(out[h][m]).msg \in Honest(h, m, n)
  BY <1>2, <1>3, TailOfSends, SendsTyped
<1>4. CASE out[h][m] # <<>> /\ Head(out[h][m]).to = n
  <2>1. Way(h, m, n) = pipe[h][<<m, n>>] \o <<Head(out[h][m]).msg>>
    BY <1>4 DEF Way
  <2> QED
    BY <1>2, <1>3, <1>4, <2>1
<1>5. CASE ~ (out[h][m] # <<>> /\ Head(out[h][m]).to = n)
  <2>1. Way(h, m, n) = pipe[h][<<m, n>>] \o <<>>
    BY <1>5 DEF Way
  <2> QED
    BY <1>2, <2>1
<1> QED
  BY <1>4, <1>5

LEMMA ContentItem ==
  ASSUME NEW f \in HonestFrame
  PROVE  /\ Content(f) \in Item
         /\ f \in HonestArp => Content(f) = NoPacket
         /\ f \in HonestIp => Content(f) = f.packet /\ f.packet \in Packet
BY DEF Content, Item, HonestFrame, HonestArp, HonestIp, ArpFrame, IpFrame

LEMMA SameItems ==
  ASSUME NEW S, NEW q \in Seq(S), NEW r \in Seq(S), Len(q) = Len(r),
         \A i \in 1 .. Len(q) : q[i] = r[i]
  PROVE  q = r
OBVIOUS

LEMMA ContentsOf ==
  ASSUME NEW w \in Seq(HonestFrame)
  PROVE  /\ Contents(w) \in Seq(Item)
         /\ w # <<>> => /\ Contents(w) # <<>>
                        /\ Contents(Tail(w)) = Tail(Contents(w))
                        /\ Head(Contents(w)) = Content(Head(w))
         /\ \A f \in HonestFrame : Contents(Append(w, f)) = Append(Contents(w), Content(f))
<1>1. Len(w) \in Nat /\ DOMAIN w = 1 .. Len(w) /\ \A i \in 1 .. Len(w) : w[i] \in HonestFrame
  OBVIOUS
<1>2. Contents(w) \in Seq(Item)
  BY <1>1, ContentItem DEF Contents
<1>3. Len(Contents(w)) = Len(w)
  BY <1>1, <1>2 DEF Contents
<1>4. ASSUME w # <<>>
      PROVE  /\ Contents(w) # <<>>
             /\ Contents(Tail(w)) = Tail(Contents(w))
             /\ Head(Contents(w)) = Content(Head(w))
  <2>1. /\ Len(w) \in Nat \ {0} /\ Head(w) = w[1] /\ Len(Tail(w)) = Len(w) - 1
        /\ Tail(w) \in Seq(HonestFrame)
        /\ \A i \in 1 .. Len(w) - 1 : Tail(w)[i] = w[i + 1]
    BY <1>4
  <2>2. Contents(w) # <<>> /\ Head(Contents(w)) = Contents(w)[1]
    BY <1>2, <1>3, <2>1
  <2>3. /\ Contents(w)[1] = Content(w[1])
        /\ \A i \in 1 .. Len(w) - 1 : Contents(w)[i + 1] = Content(w[i + 1])
    BY <2>1 DEF Contents
  <2>4. /\ Contents(Tail(w)) \in Seq(Item) /\ Len(Contents(Tail(w))) = Len(w) - 1
        /\ \A i \in 1 .. Len(w) - 1 : Contents(Tail(w))[i] = Content(w[i + 1])
    BY <2>1, ContentItem DEF Contents
  <2>5. /\ Tail(Contents(w)) \in Seq(Item) /\ Len(Tail(Contents(w))) = Len(w) - 1
        /\ \A i \in 1 .. Len(w) - 1 : Tail(Contents(w))[i] = Contents(w)[i + 1]
    BY <1>2, <1>3, <2>2
  <2>6. Contents(Tail(w)) = Tail(Contents(w))
    BY <2>3, <2>4, <2>5, SameItems
  <2> QED
    BY <2>1, <2>2, <2>3, <2>6
<1>5. ASSUME NEW f \in HonestFrame
      PROVE  Contents(Append(w, f)) = Append(Contents(w), Content(f))
  <2>1. /\ Len(Append(w, f)) = Len(w) + 1 /\ Append(w, f)[Len(w) + 1] = f
        /\ Append(w, f) \in Seq(HonestFrame)
        /\ \A i \in 1 .. Len(w) : Append(w, f)[i] = w[i]
    OBVIOUS
  <2>2. /\ Contents(Append(w, f)) \in Seq(Item) /\ Len(Contents(Append(w, f))) = Len(w) + 1
        /\ \A i \in 1 .. Len(w) + 1 : Contents(Append(w, f))[i] = Content(Append(w, f)[i])
    BY <1>1, <2>1, ContentItem DEF Contents
  <2>3. Content(f) \in Item
    BY ContentItem
  <2>4. /\ Append(Contents(w), Content(f)) \in Seq(Item)
        /\ Len(Append(Contents(w), Content(f))) = Len(w) + 1
        /\ Append(Contents(w), Content(f))[Len(w) + 1] = Content(f)
        /\ \A i \in 1 .. Len(w) : Append(Contents(w), Content(f))[i] = Contents(w)[i]
    BY <1>2, <1>3, <2>3, SeqOf
  <2>5. \A i \in 1 .. Len(w) + 1 : Contents(Append(w, f))[i] = Append(Contents(w), Content(f))[i]
    <3> TAKE i \in 1 .. Len(w) + 1
    <3>1. CASE i = Len(w) + 1
      BY <2>1, <2>2, <2>4, <3>1
    <3>2. CASE i # Len(w) + 1
      <4>1. i \in 1 .. Len(w)
        BY <1>1, <3>2
      <4>2. Contents(w)[i] = Content(w[i])
        BY <4>1 DEF Contents
      <4> QED
        BY <2>1, <2>2, <2>4, <4>1, <4>2
    <3> QED
      BY <3>1, <3>2
  <2> QED
    BY <2>2, <2>4, <2>5, SameItems
<1> QED
  BY <1>2, <1>4, <1>5

\* The stages with frames and those with packets.
LEMMA WaysTyped ==
  ASSUME PipesHonest, NEW h \in Hosts
  PROVE  /\ Way(h, "ip_mux", "ip_module") \in Seq(OwnPacket(h))
         /\ Way(h, "ip_module", "ethernet_mux") \in Seq(OwnFrame(h))
         /\ Way(h, "ethernet_mux", "device_driver") \in Seq(HonestArp \cup OwnFrame(h))
         /\ Way(h, "device_driver", "ethernet_mux") \in Seq(HonestFrame)
         /\ Way(h, "ethernet_mux", "ip_module") \in Seq(HonestIp)
         /\ Way(h, "ip_module", "ip_mux") \in Seq(SoundPacket)
         /\ \A u \in Transport :
              /\ Way(h, u, "ip_mux") \in Seq({p \in OwnPacket(h) : p.proto = u})
              /\ Way(h, "ip_mux", u) \in Seq({p \in SoundPacket : p.proto = u})
<1>1. ASSUME NEW m \in Module, NEW n \in Peers(m), NEW S, Honest(h, m, n) = S
      PROVE  Way(h, m, n) \in Seq(S)
  BY <1>1, WayTyped
<1>2. /\ Way(h, "ip_mux", "ip_module") \in Seq(OwnPacket(h))
      /\ Way(h, "ip_module", "ethernet_mux") \in Seq(OwnFrame(h))
      /\ Way(h, "ethernet_mux", "device_driver") \in Seq(HonestArp \cup OwnFrame(h))
      /\ Way(h, "device_driver", "ethernet_mux") \in Seq(HonestFrame)
      /\ Way(h, "ethernet_mux", "ip_module") \in Seq(HonestIp)
      /\ Way(h, "ip_module", "ip_mux") \in Seq(SoundPacket)
  BY <1>1, HonestOf, PeersOf, ModuleNames
<1>3. ASSUME NEW u \in Transport
      PROVE  /\ Way(h, u, "ip_mux") \in Seq({p \in OwnPacket(h) : p.proto = u})
             /\ Way(h, "ip_mux", u) \in Seq({p \in SoundPacket : p.proto = u})
  BY <1>1, HonestOf, PeersOf, ModuleNames
<1> QED
  BY <1>2, <1>3

LEMMA FlowTyped ==
  ASSUME HonestInv, NEW g \in Hosts, NEW h \in Hosts, NEW u \in Transport
  PROVE  Typed(Flow(g, u, h))
<1> DEFINE F == Flow(g, u, h)
<1>0. PipesHonest /\ SendingHonest /\ LinkHonest /\ TransportsOK
  BY DEF HonestInv
<1>1. /\ OwnPacket(g) \subseteq Item /\ SoundPacket \subseteq Item /\ OwnPacket(h) \subseteq Item
      /\ OwnFrame(g) \subseteq HonestFrame /\ HonestArp \cup OwnFrame(g) \subseteq HonestFrame
      /\ HonestIp \subseteq HonestFrame
  BY DEF OwnPacket, SoundPacket, OwnFrame, HonestFrame, Item
<1>2. \A S, T : S \subseteq T => Seq(S) \subseteq Seq(T)
  OBVIOUS
<1>3. \A w \in Seq(HonestFrame) : Contents(w) \in Seq(Item)
  BY ContentsOf
<1>4. F[1] \in Seq(Item) /\ F[2] \in Seq(Item) /\ F[9] \in Seq(Item) /\ F[10] \in Seq(Item)
  <2>1. /\ {p \in OwnPacket(g) : p.proto = u} \subseteq Item
        /\ {p \in SoundPacket : p.proto = u} \subseteq Item
    BY <1>1
  <2>2. /\ Way(g, u, "ip_mux") \in Seq({p \in OwnPacket(g) : p.proto = u})
        /\ Way(g, "ip_mux", "ip_module") \in Seq(OwnPacket(g))
        /\ Way(h, "ip_module", "ip_mux") \in Seq(SoundPacket)
        /\ Way(h, "ip_mux", u) \in Seq({p \in SoundPacket : p.proto = u})
    BY <1>0, WaysTyped
  <2>3. /\ Way(g, u, "ip_mux") \in Seq(Item) /\ Way(g, "ip_mux", "ip_module") \in Seq(Item)
        /\ Way(h, "ip_module", "ip_mux") \in Seq(Item) /\ Way(h, "ip_mux", u) \in Seq(Item)
    BY <1>1, <1>2, <2>1, <2>2
  <2> QED
    BY <2>3, Stages
<1>5. F[3] \in Seq(Item)
  <2>1. sending[g] \in Item
    BY <1>0, <1>1 DEF SendingHonest, Item
  <2>2. InHand(g) \in Seq(Item)
    BY <2>1 DEF InHand
  <2> QED
    BY <2>2, Stages
<1>6. F[4] \in Seq(Item) /\ F[5] \in Seq(Item) /\ F[7] \in Seq(Item) /\ F[8] \in Seq(Item)
  <2>1. /\ Way(g, "ip_module", "ethernet_mux") \in Seq(HonestFrame)
        /\ Way(g, "ethernet_mux", "device_driver") \in Seq(HonestFrame)
        /\ Way(h, "device_driver", "ethernet_mux") \in Seq(HonestFrame)
        /\ Way(h, "ethernet_mux", "ip_module") \in Seq(HonestFrame)
    <3>1. /\ Way(g, "ip_module", "ethernet_mux") \in Seq(OwnFrame(g))
          /\ Way(g, "ethernet_mux", "device_driver") \in Seq(HonestArp \cup OwnFrame(g))
          /\ Way(h, "device_driver", "ethernet_mux") \in Seq(HonestFrame)
          /\ Way(h, "ethernet_mux", "ip_module") \in Seq(HonestIp)
      BY <1>0, WaysTyped
    <3> QED
      BY <1>1, <1>2, <3>1
  <2> QED
    BY <1>3, <2>1, Stages
<1>7. F[6] \in Seq(Item)
  BY <1>0, <1>3, Stages DEF LinkHonest
<1>8. F[11] \in Seq(Item)
  BY <1>0, <1>1, <1>2, Stages DEF TransportsOK
<1> HIDE DEF F
<1>9. \A k \in 1 .. 11 : k \in {1, 2, 9, 10} \/ k = 3 \/ k \in {4, 5, 7, 8} \/ k = 6 \/ k = 11
  OBVIOUS
<1>10. Typed(F)
  BY <1>4, <1>5, <1>6, <1>7, <1>8, <1>9 DEF Typed
<1> QED
  BY <1>10 DEF F

-----------------------------------------------------------------------------
(***************************************************************************)
(* What a handler and a send do to the stages: the handler of m takes the  *)
(* head of the way from n to m, and what it goes on to send is at the end  *)
(* of the way from m at once; the send itself changes no way.              *)
(***************************************************************************)
LEMMA Joined ==
  ASSUME NEW S, NEW q \in Seq(S), NEW x \in S
  PROVE  /\ q \o <<>> = q
         /\ q \o <<x>> = Append(q, x)
         /\ Append(q, x) \o <<>> = q \o <<x>>
         /\ q # <<>> => /\ Tail(q) \o <<x>> = Tail(q \o <<x>>)
                        /\ Head(q \o <<x>>) = Head(q)
                        /\ q \o <<x>> # <<>>
<1>1. /\ q \o <<>> = q /\ q \o <<x>> = Append(q, x) /\ Append(q, x) \o <<>> = q \o <<x>>
  OBVIOUS
<1>2. ASSUME q # <<>>
      PROVE  /\ Tail(q) \o <<x>> = Tail(q \o <<x>>)
             /\ Head(q \o <<x>>) = Head(q) /\ q \o <<x>> # <<>>
  BY <1>2
<1> QED
  BY <1>1, <1>2

LEMMA NothingJoined == ASSUME NEW S, NEW q \in Seq(S) PROVE q \o <<>> = q
OBVIOUS

\* What h's module m holds for n.
Held(h, m, n) ==
  IF out[h][m] # <<>> /\ Head(out[h][m]).to = n THEN <<Head(out[h][m]).msg>> ELSE <<>>

LEMMA HeldWay ==
  ASSUME NEW h, NEW m, NEW n
  PROVE  /\ Way(h, m, n) = pipe[h][<<m, n>>] \o Held(h, m, n)
         /\ Way(h, m, n)' = pipe'[h][<<m, n>>] \o Held(h, m, n)'
BY DEF Way, Held

LEMMA HandlerWays ==
  ASSUME Shape, PipesHonest, NEW f \in Hosts, NEW m \in Module, NEW n \in Peers(m),
         out[f][m] = <<>>, pipe[f][<<n, m>>] # <<>>, NEW sends \in SendLists(f, m),
         MinetReceive(f, m, n, sends)
  PROVE  /\ \A x \in Hosts : \A a \in Module : \A b \in Peers(a) :
              ~ (/\ x = f
                 /\ \/ a = n /\ b = m
                    \/ a = m /\ sends # <<>> /\ Head(sends).to = b)
                => Way(x, a, b)' = Way(x, a, b)
         /\ /\ Way(f, n, m) # <<>> /\ Head(Way(f, n, m)) = Received(f, m, n)
            /\ n # m => Way(f, n, m)' = Tail(Way(f, n, m))
         /\ sends # <<>> /\ n # m
              => Way(f, m, Head(sends).to)' = Append(Way(f, m, Head(sends).to), Head(sends).msg)
<1>1. /\ \A x \in Hosts : \A k \in Module :
           out'[x][k] = IF x = f /\ k = m THEN sends ELSE out[x][k]
      /\ \A x \in Hosts : \A e \in Ends :
           pipe'[x][e] = IF x = f /\ e = <<n, m>> THEN Tail(pipe[x][e]) ELSE pipe[x][e]
  BY ReceiveEffect
<1>2. /\ n \in Module /\ <<n, m>> \in Ends
      /\ \A a \in Module : \A b \in Peers(a) : <<a, b>> \in Ends
  BY PeersMutual
<1>3. ASSUME NEW x \in Hosts, NEW a \in Module, NEW b \in Peers(a),
             ~ (/\ x = f
                /\ \/ a = n /\ b = m
                   \/ a = m /\ sends # <<>> /\ Head(sends).to = b)
      PROVE  Way(x, a, b)' = Way(x, a, b)
  <2>1. pipe'[x][<<a, b>>] = pipe[x][<<a, b>>]
    BY <1>1, <1>2, <1>3
  <2>2. Held(x, a, b)' = Held(x, a, b)
    BY <1>1, <1>3 DEF Held
  <2> QED
    BY <2>1, <2>2, HeldWay
<1>4. /\ Way(f, n, m) # <<>> /\ Head(Way(f, n, m)) = Received(f, m, n)
      /\ n # m => Way(f, n, m)' = Tail(Way(f, n, m))
  <2>1. pipe[f][<<n, m>>] \in Seq(Honest(f, n, m)) /\ out[f][n] \in SendLists(f, n)
    BY <1>2 DEF PipesHonest
  <2>2. pipe'[f][<<n, m>>] = Tail(pipe[f][<<n, m>>])
    BY <1>1, <1>2
  <2>3. n # m => Held(f, n, m)' = Held(f, n, m)
    BY <1>1, <1>2 DEF Held
  <2>4. CASE Held(f, n, m) = <<>>
    <3>1. /\ Tail(pipe[f][<<n, m>>]) \in Seq(Honest(f, n, m))
      BY <2>1, HeadTail
    <3>2. /\ pipe[f][<<n, m>>] \o <<>> = pipe[f][<<n, m>>]
          /\ Tail(pipe[f][<<n, m>>]) \o <<>> = Tail(pipe[f][<<n, m>>])
      BY <2>1, <3>1, NothingJoined
    <3> QED
      BY <2>2, <2>3, <2>4, <3>2, HeldWay DEF Received
  <2>5. CASE Held(f, n, m) # <<>>
    <3>1. /\ Held(f, n, m) = <<Head(out[f][n]).msg>>
          /\ out[f][n] # <<>> /\ Head(out[f][n]).to = m
      BY <2>5 DEF Held
    <3>2. Head(out[f][n]).msg \in Honest(f, n, m)
      BY <2>1, <3>1, TailOfSends, SendsTyped
    <3> DEFINE q == pipe[f][<<n, m>>]
               y == Head(out[f][n]).msg
    <3>3. /\ Tail(q) \o <<y>> = Tail(q \o <<y>>)
          /\ Head(q \o <<y>>) = Head(q) /\ q \o <<y>> # <<>>
      BY <2>1, <3>2, Joined
    <3>4. Way(f, n, m) = q \o <<y>>
      BY <3>1, HeldWay
    <3>5. n # m => Way(f, n, m)' = Tail(q) \o <<y>>
      BY <2>2, <2>3, <3>1, HeldWay
    <3> QED
      BY <3>3, <3>4, <3>5 DEF Received
  <2> QED
    BY <2>4, <2>5
<1>5. ASSUME sends # <<>>, n # m
      PROVE  Way(f, m, Head(sends).to)' = Append(Way(f, m, Head(sends).to), Head(sends).msg)
  <2> DEFINE to == Head(sends).to
             msg == Head(sends).msg
  <2>1. to \in Peers(m) /\ msg \in Honest(f, m, to)
    BY <1>5, TailOfSends, SendsTyped
  <2>2. pipe[f][<<m, to>>] \in Seq(Honest(f, m, to))
    BY <1>2, <2>1 DEF PipesHonest
  <2>3. pipe'[f][<<m, to>>] = pipe[f][<<m, to>>]
    BY <1>1, <1>2, <1>5, <2>1
  <2>4. Held(f, m, to) = <<>> /\ Held(f, m, to)' = <<msg>>
    BY <1>1, <1>5 DEF Held
  <2> HIDE DEF to, msg
  <2>5. Way(f, m, to) = pipe[f][<<m, to>>] \o <<>>
    BY <2>4, HeldWay
  <2>6. Way(f, m, to)' = pipe[f][<<m, to>>] \o <<msg>>
    <3>1. Way(f, m, to)' = pipe'[f][<<m, to>>] \o Held(f, m, to)'
      BY HeldWay DEF to
    <3> QED
      BY <2>3, <2>4, <3>1
  <2>7. Way(f, m, to)' = Append(Way(f, m, to), msg)
    BY <2>1, <2>2, <2>5, <2>6, Joined
  <2> QED
    BY <2>7 DEF to, msg
<1> QED
  BY <1>3, <1>4, <1>5

\* A send of a module with one send to perform changes no way; arp_module's
\* changes those of arp_module only.
LEMMA SendWays ==
  ASSUME Shape, PipesHonest, NEW f \in Hosts, NEW m \in Module, MinetSend(f, m),
         NEW x \in Hosts, NEW a \in Module \ {"arp_module"}, NEW b \in Peers(a)
  PROVE  Way(x, a, b)' = Way(x, a, b)
<1> DEFINE s == Head(out[f][m])
<1>0. <<a, b>> \in Ends
  BY PeersMutual
<1>1. /\ out[f][m] # <<>>
      /\ \A h \in Hosts : \A k \in Module :
           out'[h][k] = IF h = f /\ k = m THEN Tail(out[h][k]) ELSE out[h][k]
      /\ \A h \in Hosts : \A e \in Ends :
           h # f \/ e # <<m, s.to>> => pipe'[h][e] = pipe[h][e]
  BY SendEffect
<1>2. CASE x # f \/ a # m
  <2>1. pipe'[x][<<a, b>>] = pipe[x][<<a, b>>] /\ Held(x, a, b)' = Held(x, a, b)
    BY <1>0, <1>1, <1>2 DEF Held
  <2> QED
    BY <2>1, HeldWay
<1>3. CASE x = f /\ a = m
  <2>1. out[f][m] \in SendLists(f, m)
    BY DEF PipesHonest
  <2>2. out'[f][m] = <<>>
    <3>1. OneSend(f, m)
      BY <1>3, <2>1 DEF SendLists, OneSend
    <3>2. Tail(out[f][m]) = <<>>
      BY <1>1, <3>1, LastSend
    <3> QED
      BY <1>1, <3>2
  <2>3. Held(x, a, b)' = <<>>
    BY <1>3, <2>2 DEF Held
  <2>4. CASE s.to # b
    <3>1. pipe'[x][<<a, b>>] = pipe[x][<<a, b>>] /\ Held(x, a, b) = <<>>
      BY <1>0, <1>1, <1>3, <2>4 DEF Held
    <3> QED
      BY <2>3, <3>1, HeldWay
  <2>5. CASE s.to = b
    <3>1. s.msg \in Honest(f, m, b) /\ pipe[f][<<m, b>>] \in Seq(Honest(f, m, b))
      BY <1>0, <1>1, <1>3, <2>1, <2>5, TailOfSends, SendsTyped DEF PipesHonest
    <3>2. pipe'[f][<<m, b>>] = Append(pipe[f][<<m, b>>], s.msg)
      BY <2>5, SendHonest
    <3>3. Held(f, m, b) = <<s.msg>>
      BY <1>1, <2>5 DEF Held
    <3> HIDE DEF s
    <3>4. Way(f, m, b) = pipe[f][<<m, b>>] \o <<s.msg>>
      BY <3>3, HeldWay
    <3>5. Way(f, m, b)' = Append(pipe[f][<<m, b>>], s.msg) \o <<>>
      BY <1>3, <2>3, <3>2, HeldWay
    <3>6. Append(pipe[f][<<m, b>>], s.msg) \o <<>> = pipe[f][<<m, b>>] \o <<s.msg>>
      <4> DEFINE q == pipe[f][<<m, b>>]
                 y == s.msg
      <4>1. y \in Honest(f, m, b) /\ q \in Seq(Honest(f, m, b))
        BY <3>1
      <4> HIDE DEF q, y
      <4>2. Append(q, y) \o <<>> = q \o <<y>>
        BY <4>1, Joined
      <4> QED
        BY <4>2 DEF q, y
    <3> QED
      BY <1>3, <3>4, <3>5, <3>6
  <2> QED
    BY <2>4, <2>5
<1> QED
  BY <1>2, <1>3

\* The ways among the stages: that of stage k is from Path(u, k)[1] to
\* Path(u, k)[2], on the sender's host or the receiver's.
Piped == {1, 2, 4, 5, 7, 8, 9, 10}

HostOf(g, h, k) == IF k <= 5 THEN g ELSE h

Path(u, k) ==
  CASE k = 1  -> <<u, "ip_mux">>
    [] k = 2  -> <<"ip_mux", "ip_module">>
    [] k = 4  -> <<"ip_module", "ethernet_mux">>
    [] k = 5  -> <<"ethernet_mux", "device_driver">>
    [] k = 7  -> <<"device_driver", "ethernet_mux">>
    [] k = 8  -> <<"ethernet_mux", "ip_module">>
    [] k = 9  -> <<"ip_module", "ip_mux">>
    [] k = 10 -> <<"ip_mux", u>>

\* What a message on the way of stage k is to the flow.
Passing(k, msg) == IF k \in {4, 5, 7, 8} THEN Content(msg) ELSE msg

Stage(k, w) == IF k \in {4, 5, 7, 8} THEN Contents(w) ELSE w

LEMMA PipedStages ==
  ASSUME NEW g, NEW u, NEW h, NEW k \in Piped
  PROVE  /\ Flow(g, u, h)[k] = Stage(k, Way(HostOf(g, h, k), Path(u, k)[1], Path(u, k)[2]))
         /\ Flow(g, u, h)'[k] = Stage(k, Way(HostOf(g, h, k), Path(u, k)[1], Path(u, k)[2])')
<1>1. CASE k = 1
  BY <1>1, Stages, StagesNext DEF Stage, HostOf, Path
<1>2. CASE k = 2
  BY <1>2, Stages, StagesNext DEF Stage, HostOf, Path
<1>3. CASE k = 4
  BY <1>3, Stages, StagesNext DEF Stage, HostOf, Path
<1>4. CASE k = 5
  BY <1>4, Stages, StagesNext DEF Stage, HostOf, Path
<1>5. CASE k = 7
  BY <1>5, Stages, StagesNext DEF Stage, HostOf, Path
<1>6. CASE k = 8
  BY <1>6, Stages, StagesNext DEF Stage, HostOf, Path
<1>7. CASE k = 9
  BY <1>7, Stages, StagesNext DEF Stage, HostOf, Path
<1>8. CASE k = 10
  BY <1>8, Stages, StagesNext DEF Stage, HostOf, Path
<1> QED
  BY <1>1, <1>2, <1>3, <1>4, <1>5, <1>6, <1>7, <1>8 DEF Piped

\* The paths are there, no two are the same, and none begins or ends at
\* arp_module.
LEMMA Paths ==
  ASSUME NEW u \in Transport, NEW k \in Piped
  PROVE  /\ Path(u, k)[1] \in Module \ {"arp_module"} /\ Path(u, k)[2] \in Peers(Path(u, k)[1])
         /\ Path(u, k)[2] # "arp_module"
         /\ Path(u, k) = <<Path(u, k)[1], Path(u, k)[2]>>
         /\ \A l \in Piped : Path(u, l) = Path(u, k) => l = k
<1>1. u \in Module /\ u \notin {"arp_module", "ip_mux", "ip_module", "ethernet_mux", "device_driver"}
  BY DEF Module, Transport
<1>2. /\ Path(u, k)[1] \in Module \ {"arp_module"} /\ Path(u, k)[2] \in Peers(Path(u, k)[1])
      /\ Path(u, k)[2] # "arp_module" /\ Path(u, k) = <<Path(u, k)[1], Path(u, k)[2]>>
  <2>0. ASSUME NEW a \in Module \ {"arp_module"}, NEW b \in Peers(a), b # "arp_module",
               Path(u, k) = <<a, b>>
        PROVE  /\ Path(u, k)[1] \in Module \ {"arp_module"} /\ Path(u, k)[2] \in Peers(Path(u, k)[1])
               /\ Path(u, k)[2] # "arp_module" /\ Path(u, k) = <<Path(u, k)[1], Path(u, k)[2]>>
    BY <2>0
  <2>1. CASE k = 1
    <3>1. Path(u, k) = <<u, "ip_mux">>
      BY <2>1 DEF Path
    <3> QED
      BY <1>1, <2>0, <3>1, PeersOf, ModuleNames
  <2>2. CASE k = 2
    <3>1. Path(u, k) = <<"ip_mux", "ip_module">>
      BY <2>2 DEF Path
    <3> QED
      BY <1>1, <2>0, <3>1, PeersOf, ModuleNames
  <2>3. CASE k = 4
    <3>1. Path(u, k) = <<"ip_module", "ethernet_mux">>
      BY <2>3 DEF Path
    <3> QED
      BY <1>1, <2>0, <3>1, PeersOf, ModuleNames
  <2>4. CASE k = 5
    <3>1. Path(u, k) = <<"ethernet_mux", "device_driver">>
      BY <2>4 DEF Path
    <3> QED
      BY <1>1, <2>0, <3>1, PeersOf, ModuleNames
  <2>5. CASE k = 7
    <3>1. Path(u, k) = <<"device_driver", "ethernet_mux">>
      BY <2>5 DEF Path
    <3> QED
      BY <1>1, <2>0, <3>1, PeersOf, ModuleNames
  <2>6. CASE k = 8
    <3>1. Path(u, k) = <<"ethernet_mux", "ip_module">>
      BY <2>6 DEF Path
    <3> QED
      BY <1>1, <2>0, <3>1, PeersOf, ModuleNames
  <2>7. CASE k = 9
    <3>1. Path(u, k) = <<"ip_module", "ip_mux">>
      BY <2>7 DEF Path
    <3> QED
      BY <1>1, <2>0, <3>1, PeersOf, ModuleNames
  <2>8. CASE k = 10
    <3>1. Path(u, k) = <<"ip_mux", u>>
      BY <2>8 DEF Path
    <3> QED
      BY <1>1, <2>0, <3>1, PeersOf, ModuleNames
  <2> QED
    BY <2>1, <2>2, <2>3, <2>4, <2>5, <2>6, <2>7, <2>8 DEF Piped
<1>3. ASSUME NEW l \in Piped, Path(u, l) = Path(u, k)
      PROVE  l = k
  BY <1>1, <1>3 DEF Piped, Path
<1> QED
  BY <1>2, <1>3

LEMMA FramedPaths ==
  ASSUME NEW x, NEW u, NEW k \in {4, 5, 7, 8}
  PROVE  Honest(x, Path(u, k)[1], Path(u, k)[2]) \subseteq HonestFrame
<1>1. /\ OwnFrame(x) \subseteq HonestFrame /\ HonestArp \cup OwnFrame(x) \subseteq HonestFrame
      /\ HonestIp \subseteq HonestFrame
  BY DEF OwnFrame, HonestFrame
<1>2. /\ Path(u, 4) = <<"ip_module", "ethernet_mux">>
      /\ Path(u, 5) = <<"ethernet_mux", "device_driver">>
      /\ Path(u, 7) = <<"device_driver", "ethernet_mux">>
      /\ Path(u, 8) = <<"ethernet_mux", "ip_module">>
  BY DEF Path
<1> QED
  BY <1>1, <1>2, HonestOf

LEMMA NotOwnPeer == ASSUME NEW m \in Module PROVE m \notin Peers(m)
BY PeersOf DEF Module, Transport

\* A handler takes the head of one stage, and adds to the end of another.
LEMMA HandlerStages ==
  ASSUME Shape, PipesHonest, NEW f \in Hosts, NEW m \in Module, NEW n \in Peers(m),
         out[f][m] = <<>>, pipe[f][<<n, m>>] # <<>>, NEW sends \in SendLists(f, m),
         MinetReceive(f, m, n, sends),
         NEW g \in Hosts, NEW h \in Hosts, NEW u \in Transport, NEW k \in Piped
  PROVE  /\ \/ HostOf(g, h, k) # f
            \/ /\ Path(u, k) # <<n, m>>
               /\ sends = <<>> \/ Path(u, k) # <<m, Head(sends).to>>
            => Flow(g, u, h)'[k] = Flow(g, u, h)[k]
         /\ HostOf(g, h, k) = f /\ Path(u, k) = <<n, m>>
              => /\ Flow(g, u, h)[k] # <<>>
                 /\ Head(Flow(g, u, h)[k]) = Passing(k, Received(f, m, n))
                 /\ Flow(g, u, h)'[k] = Tail(Flow(g, u, h)[k])
         /\ HostOf(g, h, k) = f /\ sends # <<>> /\ Path(u, k) = <<m, Head(sends).to>>
              => Flow(g, u, h)'[k] = Append(Flow(g, u, h)[k], Passing(k, Head(sends).msg))
<1> DEFINE a == Path(u, k)[1]
           b == Path(u, k)[2]
           x == HostOf(g, h, k)
<1>0. x \in Hosts
  BY DEF HostOf
<1>1. a \in Module /\ b \in Peers(a) /\ Path(u, k) = <<a, b>> /\ n # m
  BY Paths, NotOwnPeer
<1>2. Way(x, a, b) \in Seq(Honest(x, a, b))
  BY <1>0, <1>1, WayTyped
<1>3. k \in {4, 5, 7, 8} => Way(x, a, b) \in Seq(HonestFrame) /\ Honest(x, a, b) \subseteq HonestFrame
  <2>1. ASSUME NEW S, NEW T, S \subseteq T PROVE Seq(S) \subseteq Seq(T)
    BY <2>1
  <2>2. k \in {4, 5, 7, 8} => Honest(x, a, b) \subseteq HonestFrame
    BY FramedPaths
  <2> HIDE DEF a, b, x
  <2> QED
    BY <1>2, <2>1, <2>2
<1>4. /\ Flow(g, u, h)[k] = Stage(k, Way(x, a, b))
      /\ Flow(g, u, h)'[k] = Stage(k, Way(x, a, b)')
  BY PipedStages
<1> HIDE DEF a, b
<1>5. ASSUME \/ x # f
             \/ /\ a # n \/ b # m
                /\ sends = <<>> \/ a # m \/ Head(sends).to # b
      PROVE  Flow(g, u, h)'[k] = Flow(g, u, h)[k]
  <2>1. Way(x, a, b)' = Way(x, a, b)
    BY <1>0, <1>1, <1>5, HandlerWays
  <2> QED
    BY <1>4, <2>1
<1>6. ASSUME x = f, a = n, b = m
      PROVE  /\ Flow(g, u, h)[k] # <<>>
             /\ Head(Flow(g, u, h)[k]) = Passing(k, Received(f, m, n))
             /\ Flow(g, u, h)'[k] = Tail(Flow(g, u, h)[k])
  <2>1. /\ Way(f, n, m) # <<>> /\ Head(Way(f, n, m)) = Received(f, m, n)
        /\ Way(f, n, m)' = Tail(Way(f, n, m))
    BY <1>1, HandlerWays
  <2>2. CASE k \in {4, 5, 7, 8}
    <3>1. Way(f, n, m) \in Seq(HonestFrame)
      BY <1>3, <1>6, <2>2
    <3>2. /\ Contents(Way(f, n, m)) # <<>>
          /\ Contents(Tail(Way(f, n, m))) = Tail(Contents(Way(f, n, m)))
          /\ Head(Contents(Way(f, n, m))) = Content(Head(Way(f, n, m)))
      BY <2>1, <3>1, ContentsOf
    <3> QED
      BY <1>4, <1>6, <2>1, <2>2, <3>2 DEF Stage, Passing
  <2>3. CASE k \notin {4, 5, 7, 8}
    BY <1>4, <1>6, <2>1, <2>3 DEF Stage, Passing
  <2> QED
    BY <2>2, <2>3
<1>7. ASSUME x = f, sends # <<>>, a = m, b = Head(sends).to
      PROVE  Flow(g, u, h)'[k] = Append(Flow(g, u, h)[k], Passing(k, Head(sends).msg))
  <2> DEFINE y == Head(sends).msg
  <2>1. Way(f, m, b)' = Append(Way(f, m, b), y)
    BY <1>1, <1>7, HandlerWays
  <2>2. y \in Honest(f, m, b)
    BY <1>7, TailOfSends, SendsTyped
  <2> HIDE DEF y
  <2>3. CASE k \in {4, 5, 7, 8}
    <3>1. Way(f, m, b) \in Seq(HonestFrame) /\ y \in HonestFrame
      BY <1>3, <1>7, <2>2, <2>3
    <3>2. Contents(Append(Way(f, m, b), y)) = Append(Contents(Way(f, m, b)), Content(y))
      BY <3>1, ContentsOf
    <3>3. Flow(g, u, h)'[k] = Append(Flow(g, u, h)[k], Passing(k, y))
      BY <1>4, <1>7, <2>1, <2>3, <3>2 DEF Stage, Passing
    <3> QED
      BY <3>3 DEF y
  <2>4. CASE k \notin {4, 5, 7, 8}
    <3>1. Flow(g, u, h)'[k] = Append(Flow(g, u, h)[k], Passing(k, y))
      BY <1>4, <1>7, <2>1, <2>4 DEF Stage, Passing
    <3> QED
      BY <3>1 DEF y
  <2> QED
    BY <2>3, <2>4
<1>8. Path(u, k) = <<n, m>> <=> a = n /\ b = m
  BY <1>1
<1>9. Path(u, k) = <<m, Head(sends).to>> <=> a = m /\ b = Head(sends).to
  BY <1>1
<1>10. \/ x # f
       \/ /\ Path(u, k) # <<n, m>>
          /\ sends = <<>> \/ Path(u, k) # <<m, Head(sends).to>>
       => Flow(g, u, h)'[k] = Flow(g, u, h)[k]
  BY <1>5, <1>8, <1>9
<1>11. x = f /\ Path(u, k) = <<n, m>>
         => /\ Flow(g, u, h)[k] # <<>>
            /\ Head(Flow(g, u, h)[k]) = Passing(k, Received(f, m, n))
            /\ Flow(g, u, h)'[k] = Tail(Flow(g, u, h)[k])
  BY <1>6, <1>8
<1>12. x = f /\ sends # <<>> /\ Path(u, k) = <<m, Head(sends).to>>
         => Flow(g, u, h)'[k] = Append(Flow(g, u, h)[k], Passing(k, Head(sends).msg))
  BY <1>7, <1>9
<1> QED
  BY <1>10, <1>11, <1>12

\* m's handler has read a message of n and goes on to "sends".
Handler(f, m, n, sends) ==
  /\ n \in Peers(m) /\ out[f][m] = <<>> /\ pipe[f][<<n, m>>] # <<>>
  /\ sends \in SendLists(f, m)
  /\ MinetReceive(f, m, n, sends)

\* What a step does to a flow.
FlowStep(g, u, h) ==
  \/ AllQuiet(g, u, Flow(g, u, h), Flow(g, u, h)')
  \/ \E k \in 1 .. 10 : Moves(Flow(g, u, h), Flow(g, u, h)', k)

LEMMA HandlerStage ==
  ASSUME HonestInv, NEW f \in Hosts, NEW m \in Module, NEW n, NEW sends,
         Handler(f, m, n, sends),
         NEW g \in Hosts, NEW h \in Hosts, NEW u \in Transport, NEW k \in Piped
  PROVE  /\ \/ HostOf(g, h, k) # f
            \/ /\ Path(u, k) # <<n, m>>
               /\ sends = <<>> \/ Path(u, k) # <<m, Head(sends).to>>
            => Flow(g, u, h)'[k] = Flow(g, u, h)[k]
         /\ HostOf(g, h, k) = f /\ Path(u, k) = <<n, m>>
              => /\ Flow(g, u, h)[k] # <<>>
                 /\ Head(Flow(g, u, h)[k]) = Passing(k, Received(f, m, n))
                 /\ Flow(g, u, h)'[k] = Tail(Flow(g, u, h)[k])
         /\ HostOf(g, h, k) = f /\ sends # <<>> /\ Path(u, k) = <<m, Head(sends).to>>
              => Flow(g, u, h)'[k] = Append(Flow(g, u, h)[k], Passing(k, Head(sends).msg))
<1>1. Shape /\ PipesHonest
  BY DEF HonestInv
<1>2. /\ n \in Peers(m) /\ out[f][m] = <<>> /\ pipe[f][<<n, m>>] # <<>>
      /\ sends \in SendLists(f, m) /\ MinetReceive(f, m, n, sends)
  BY DEF Handler
<1> QED
  BY <1>1, <1>2, HandlerStages

\* What neither comes from nor goes to another host or module stays.
SameElsewhere(g, u, h) ==
  LET F == Flow(g, u, h)
      G == Flow(g, u, h)'
  IN G[3] = F[3] /\ G[6] = F[6] /\ G[11] = F[11]

\* What m's handler sends is no numbered packet of the flow.
SendsNoneOf(g, u, m, sends) ==
  \A k \in Piped :
    sends # <<>> /\ Path(u, k) = <<m, Head(sends).to>>
      => /\ Passing(k, Head(sends).msg) \in Item
         /\ ~ Numbered(g, u, Passing(k, Head(sends).msg))

LEMMA AllStages == \A k \in 1 .. 11 : k \in Piped \/ k = 3 \/ k = 6 \/ k = 11
BY DEF Piped

\* A handler whose send is no packet of the flow.
LEMMA QuietHandler ==
  ASSUME HonestInv, NEW f \in Hosts, NEW m \in Module, NEW n, NEW sends,
         Handler(f, m, n, sends),
         NEW g \in Hosts, NEW h \in Hosts, NEW u \in Transport,
         \A k \in {3, 6, 11} : Quietly(g, u, Flow(g, u, h)[k], Flow(g, u, h)'[k]),
         SendsNoneOf(g, u, m, sends)
  PROVE  FlowStep(g, u, h)
<1> DEFINE F == Flow(g, u, h)
           G == Flow(g, u, h)'
<1>1. ASSUME NEW k \in Piped PROVE Quietly(g, u, F[k], G[k])
  <2>1. CASE \/ HostOf(g, h, k) # f
             \/ /\ Path(u, k) # <<n, m>>
                /\ sends = <<>> \/ Path(u, k) # <<m, Head(sends).to>>
    <3>1. G[k] = F[k]
      BY <2>1, HandlerStage
    <3> QED
      BY <3>1 DEF Quietly
  <2>2. CASE HostOf(g, h, k) = f /\ Path(u, k) = <<n, m>>
    <3>1. F[k] # <<>> /\ G[k] = Tail(F[k])
      BY <2>2, HandlerStage
    <3> QED
      BY <3>1 DEF Quietly
  <2>3. CASE HostOf(g, h, k) = f /\ sends # <<>> /\ Path(u, k) = <<m, Head(sends).to>>
    <3>1. G[k] = Append(F[k], Passing(k, Head(sends).msg))
      BY <2>3, HandlerStage
    <3>2. /\ Passing(k, Head(sends).msg) \in Item
          /\ ~ Numbered(g, u, Passing(k, Head(sends).msg))
      BY <2>3 DEF SendsNoneOf
    <3> QED
      BY <3>1, <3>2 DEF Quietly
  <2> QED
    BY <2>1, <2>2, <2>3
<1>2. \A k \in 1 .. 11 : Quietly(g, u, F[k], G[k])
  BY <1>1, AllStages
<1> QED
  BY <1>2 DEF FlowStep, AllQuiet

\* A handler that passes a packet of one stage on to the next.
LEMMA MoveHandler ==
  ASSUME HonestInv, NEW f \in Hosts, NEW m \in Module, NEW n, NEW sends,
         Handler(f, m, n, sends), sends # <<>>,
         NEW g \in Hosts, NEW h \in Hosts, NEW u \in Transport,
         SameElsewhere(g, u, h),
         NEW k \in Piped, k + 1 \in Piped, k # 5,
         Path(u, k) = <<n, m>>, Path(u, k + 1) = <<m, Head(sends).to>>,
         Passing(k + 1, Head(sends).msg) = Passing(k, Received(f, m, n))
  PROVE  FlowStep(g, u, h)
<1> DEFINE F == Flow(g, u, h)
           G == Flow(g, u, h)'
<1>1. HostOf(g, h, k + 1) = HostOf(g, h, k) /\ k \in 1 .. 10
  BY DEF HostOf, Piped
<1>2. \A l \in Piped \ {k, k + 1} : Path(u, l) # <<n, m>> /\ Path(u, l) # <<m, Head(sends).to>>
  BY Paths
<1>3. \A l \in Piped \ {k, k + 1} : G[l] = F[l]
  BY <1>2, HandlerStage
<1>4. \A l \in (1 .. 11) \ {k, k + 1} : G[l] = F[l]
  BY <1>3, AllStages DEF SameElsewhere
<1>5. CASE HostOf(g, h, k) = f
  <2>1. F[k] # <<>> /\ G[k] = Tail(F[k]) /\ Head(F[k]) = Passing(k, Received(f, m, n))
    BY <1>5, HandlerStage
  <2>2. G[k + 1] = Append(F[k + 1], Passing(k + 1, Head(sends).msg))
    BY <1>1, <1>5, HandlerStage
  <2>3. Moves(F, G, k)
    BY <1>4, <2>1, <2>2 DEF Moves
  <2> QED
    BY <1>1, <2>3 DEF FlowStep
<1>6. CASE HostOf(g, h, k) # f
  <2>1. G[k] = F[k] /\ G[k + 1] = F[k + 1]
    BY <1>1, <1>6, HandlerStage
  <2>2. \A l \in 1 .. 11 : Quietly(g, u, F[l], G[l])
    BY <1>4, <2>1 DEF Quietly
  <2> QED
    BY <2>2 DEF FlowStep, AllQuiet
<1> QED
  BY <1>5, <1>6

LEMMA EventHandler ==
  ASSUME HonestInv, PipesHonest', NEW f \in Hosts, NEW m \in Module, NEW n, NEW sends,
         MinetGetNextEvent(f, m, n), MinetReceive(f, m, n, sends)
  PROVE  Handler(f, m, n, sends) /\ Received(f, m, n) \in Honest(f, n, m)
<1>1. n \in Peers(m) /\ out[f][m] = <<>> /\ pipe[f][<<n, m>>] # <<>>
  BY EventIsThere
<1>2. out'[f][m] = sends
  BY ReceiveEffect DEF HonestInv
<1>3. sends \in SendLists(f, m)
  BY <1>2 DEF PipesHonest
<1> QED
  BY <1>1, <1>3, EventHonest DEF Handler, HonestInv

LEMMA ElsewhereStays ==
  ASSUME NEW g \in Hosts, NEW h \in Hosts, NEW u \in Transport,
         UNCHANGED <<sending, wire, received>>
  PROVE  /\ SameElsewhere(g, u, h)
         /\ \A k \in {3, 6, 11} : Quietly(g, u, Flow(g, u, h)[k], Flow(g, u, h)'[k])
<1>1. InHand(g)' = InHand(g)
  BY DEF InHand
<1> QED
  BY <1>1, Stages, StagesNext DEF SameElsewhere, Quietly

\* arp_module has no packet of any flow.
LEMMA ArpFlow ==
  ASSUME HonestInv, PipesHonest', NEW f \in Hosts, ArpModuleStep(f),
         UNCHANGED <<sending, wire, received>>,
         NEW g \in Hosts, NEW h \in Hosts, NEW u \in Transport
  PROVE  FlowStep(g, u, h)
<1>1. PICK n, sends : /\ MinetGetNextEvent(f, "arp_module", n)
                      /\ MinetReceive(f, "arp_module", n, sends)
  BY DEF ArpModuleStep, LocalRequest, RemotePacket
<1>2. Handler(f, "arp_module", n, sends)
  BY <1>1, EventHandler, ModuleNames
<1>3. \A k \in Piped : \A to : Path(u, k) # <<"arp_module", to>>
  BY Paths
<1>4. SendsNoneOf(g, u, "arp_module", sends)
  BY <1>3 DEF SendsNoneOf
<1> QED
  BY <1>2, <1>4, ElsewhereStays, QuietHandler, ModuleNames

\* The muxes pass every message on, but for what ip_mux drops or answers with
\* an ICMP error.
LEMMA MuxesFlow ==
  ASSUME HonestInv, PipesHonest', NEW f \in Hosts, EthernetMuxStep(f) \/ IpMuxStep(f),
         UNCHANGED <<sending, wire, received>>,
         NEW g \in Hosts, NEW h \in Hosts, NEW u \in Transport
  PROVE  FlowStep(g, u, h)
<1>0. SameElsewhere(g, u, h) /\ \A k \in {3, 6, 11} : Quietly(g, u, Flow(g, u, h)[k], Flow(g, u, h)'[k])
  BY ElsewhereStays
<1>1. CASE Dispatch(f)
  <2> DEFINE x == Received(f, "ethernet_mux", "device_driver")
             sends == <<Send(Upward(x), x)>>
  <2>1. Handler(f, "ethernet_mux", "device_driver", sends)
    BY <1>1, EventHandler, ModuleNames DEF Dispatch
  <2>2. sends # <<>> /\ Head(sends).to = Upward(x) /\ Head(sends).msg = x
    BY DEF Send
  <2> HIDE DEF sends
  <2>3. CASE Upward(x) = "arp_module"
    <3>1. \A k \in Piped : \A m : Path(u, k) # <<m, "arp_module">>
      BY Paths
    <3>7. SendsNoneOf(g, u, "ethernet_mux", sends)
      BY <2>2, <2>3, <3>1 DEF SendsNoneOf
    <3> QED
      BY <1>0, <2>1, <3>7, QuietHandler, ModuleNames
  <2>4. CASE Upward(x) = "ip_module"
    <3>1. 7 \in Piped /\ 7 + 1 \in Piped /\ 7 # 5
      BY DEF Piped
    <3>2. /\ Path(u, 7) = <<"device_driver", "ethernet_mux">>
          /\ Path(u, 7 + 1) = <<"ethernet_mux", "ip_module">>
      BY DEF Path
    <3>3. Passing(7 + 1, Head(sends).msg) = Passing(7, x)
      BY <2>2 DEF Passing
    <3> HIDE DEF x
    <3> QED
      BY <1>0, <2>1, <2>2, <2>4, <3>1, <3>2, <3>3, MoveHandler, ModuleNames DEF x
  <2> QED
    BY <2>3, <2>4 DEF Upward
<1>2. CASE PassDown(f, "ip_module")
  <2> DEFINE x == Received(f, "ethernet_mux", "ip_module")
             sends == <<Send("device_driver", x)>>
  <2>1. Handler(f, "ethernet_mux", "ip_module", sends)
    BY <1>2, EventHandler, ModuleNames DEF PassDown
  <2>2. sends # <<>> /\ Head(sends).to = "device_driver" /\ Head(sends).msg = x
    BY DEF Send
  <2> HIDE DEF sends
  <2>3. 4 \in Piped /\ 4 + 1 \in Piped /\ 4 # 5
    BY DEF Piped
  <2>4. /\ Path(u, 4) = <<"ip_module", "ethernet_mux">>
        /\ Path(u, 4 + 1) = <<"ethernet_mux", "device_driver">>
    BY DEF Path
  <2>5. Passing(4 + 1, Head(sends).msg) = Passing(4, x)
    BY <2>2 DEF Passing
  <2> QED
    BY <1>0, <2>1, <2>2, <2>3, <2>4, <2>5, MoveHandler, ModuleNames
<1>3. CASE PassDown(f, "arp_module")
  <2> DEFINE x == Received(f, "ethernet_mux", "arp_module")
             sends == <<Send("device_driver", x)>>
  <2>1. Handler(f, "ethernet_mux", "arp_module", sends) /\ x \in Honest(f, "arp_module", "ethernet_mux")
    BY <1>3, EventHandler, ModuleNames DEF PassDown
  <2>2. sends # <<>> /\ Head(sends).to = "device_driver" /\ Head(sends).msg = x
    BY DEF Send
  <2>3. Content(x) = NoPacket
    BY <2>1, HonestOf, ContentItem DEF HonestFrame
  <2>4. \A k \in Piped : Path(u, k) = <<"ethernet_mux", "device_driver">> => k = 5
    <3>1. Path(u, 5) = <<"ethernet_mux", "device_driver">> /\ 5 \in Piped
      BY DEF Path, Piped
    <3> QED
      BY <3>1, Paths
  <2>5. Passing(5, x) = NoPacket
    BY <2>3 DEF Passing
  <2>6. NoPacket \in Item /\ ~ Numbered(g, u, NoPacket)
    BY IpModuleAssumption DEF Item, Numbered
  <2> HIDE DEF sends, x
  <2>7. SendsNoneOf(g, u, "ethernet_mux", sends)
    BY <2>2, <2>4, <2>5, <2>6 DEF SendsNoneOf
  <2> QED
    BY <1>0, <2>1, <2>7, QuietHandler, ModuleNames
<1>4. CASE Deliver(f)
  <2> DEFINE p == Received(f, "ip_mux", "ip_module")
             sends == Delivery(f, p)
  <2>1. Handler(f, "ip_mux", "ip_module", sends) /\ p \in Honest(f, "ip_module", "ip_mux")
    BY <1>4, EventHandler, ModuleNames DEF Deliver
  <2>2. p \in Packet
    BY <2>1, HonestOf DEF SoundPacket
  <2> HIDE DEF p
  <2>3. CASE sends = <<>>
    BY <1>0, <2>1, <2>3, QuietHandler, ModuleNames DEF SendsNoneOf
  <2>4. CASE sends = <<Send("ip_module", ICMPError(f, p))>>
    <3>1. sends # <<>> /\ Head(sends).to = "ip_module" /\ Head(sends).msg = ICMPError(f, p)
      BY <2>4 DEF Send
    <3>2. \A k \in Piped : Path(u, k) = <<"ip_mux", "ip_module">> => k = 2
      <4>1. Path(u, 2) = <<"ip_mux", "ip_module">> /\ 2 \in Piped
        BY DEF Path, Piped
      <4> QED
        BY <4>1, Paths
    <3>3. Passing(2, ICMPError(f, p)) = ICMPError(f, p)
      BY DEF Passing
    <3>4. ICMPError(f, p) \in Item /\ ~ Numbered(g, u, ICMPError(f, p))
      <4>1. ICMPError(f, p) \in Packet
        BY <2>2, ICMPErrorOwn DEF OwnPacket
      <4> QED
        BY <4>1 DEF Item, Numbered, ICMPError
    <3> HIDE DEF sends
    <3>7. SendsNoneOf(g, u, "ip_mux", sends)
      BY <3>1, <3>2, <3>3, <3>4 DEF SendsNoneOf
    <3> QED
      BY <1>0, <2>1, <3>7, QuietHandler, ModuleNames
  <2>5. CASE sends = <<Send(p.proto, p)>>
    <3>1. sends # <<>> /\ Head(sends).to = p.proto /\ Head(sends).msg = p
      BY <2>5 DEF Send
    <3>2. p.proto \in Transport
      BY <2>2 DEF Packet
    <3> HIDE DEF sends
    <3>3. CASE p.proto = u
      <4>1. 9 \in Piped /\ 9 + 1 \in Piped /\ 9 # 5
        BY DEF Piped
      <4>2. Path(u, 9) = <<"ip_module", "ip_mux">> /\ Path(u, 9 + 1) = <<"ip_mux", u>>
        BY DEF Path
      <4>3. Passing(9 + 1, Head(sends).msg) = Passing(9, Received(f, "ip_mux", "ip_module"))
        BY <3>1 DEF Passing, p
      <4> QED
        BY <1>0, <2>1, <3>1, <3>3, <4>1, <4>2, <4>3, MoveHandler, ModuleNames
    <3>4. CASE p.proto # u
      <4>1. \A k \in Piped : Path(u, k) = <<"ip_mux", p.proto>> => Path(u, k) = Path(u, 2) \/ Path(u, k) = Path(u, 10)
        BY <3>2 DEF Path, Piped, Transport
      <4>2. \A k \in Piped : Path(u, k) # <<"ip_mux", p.proto>>
        <5>1. Path(u, 2) = <<"ip_mux", "ip_module">> /\ Path(u, 10) = <<"ip_mux", u>>
          BY DEF Path
        <5>2. p.proto # "ip_module"
          BY <3>2 DEF Transport
        <5> QED
          BY <3>4, <4>1, <5>1, <5>2
      <4>7. SendsNoneOf(g, u, "ip_mux", sends)
        BY <3>1, <4>2 DEF SendsNoneOf
      <4> QED
        BY <1>0, <2>1, <4>7, QuietHandler, ModuleNames
    <3> QED
      BY <3>3, <3>4
  <2> QED
    BY <2>3, <2>4, <2>5 DEF Delivery
<1>5. ASSUME NEW v \in TransportsOf[f], FromTransport(f, v)
      PROVE  FlowStep(g, u, h)
  <2> DEFINE p == Received(f, "ip_mux", v)
             sends == <<Send("ip_module", p)>>
  <2>0. v \in Transport
    BY IpMuxAssumption
  <2>1. Handler(f, "ip_mux", v, sends) /\ p \in Honest(f, v, "ip_mux")
    BY <1>5, EventHandler, ModuleNames DEF FromTransport
  <2>2. p \in Packet /\ p.proto = v
    BY <2>0, <2>1, HonestOf DEF OwnPacket
  <2>3. sends # <<>> /\ Head(sends).to = "ip_module" /\ Head(sends).msg = p
    BY DEF Send
  <2> HIDE DEF sends
  <2>4. CASE v = u
    <3>1. 1 \in Piped /\ 1 + 1 \in Piped /\ 1 # 5
      BY DEF Piped
    <3>2. Path(u, 1) = <<u, "ip_mux">> /\ Path(u, 1 + 1) = <<"ip_mux", "ip_module">>
      BY DEF Path
    <3>3. Passing(1 + 1, Head(sends).msg) = Passing(1, p)
      BY <2>3 DEF Passing
    <3> QED
      BY <1>0, <2>1, <2>3, <2>4, <3>1, <3>2, <3>3, MoveHandler, ModuleNames
  <2>5. CASE v # u
    <3>1. \A k \in Piped : Path(u, k) = <<"ip_mux", "ip_module">> => k = 2
      <4>1. Path(u, 2) = <<"ip_mux", "ip_module">> /\ 2 \in Piped
        BY DEF Path, Piped
      <4> QED
        BY <4>1, Paths
    <3>2. Passing(2, p) = p
      BY DEF Passing
    <3>3. p \in Item /\ ~ Numbered(g, u, p)
      BY <2>2, <2>5 DEF Item, Numbered
    <3> HIDE DEF p
    <3>7. SendsNoneOf(g, u, "ip_mux", sends)
      BY <2>3, <3>1, <3>2, <3>3 DEF SendsNoneOf
    <3> QED
      BY <1>0, <2>1, <3>7, QuietHandler, ModuleNames
  <2> QED
    BY <2>4, <2>5
<1> QED
  BY <1>1, <1>2, <1>3, <1>4, <1>5 DEF EthernetMuxStep, IpMuxStep

\* No path ends at arp_module, and each goes its own way.
LEMMA PathsApart ==
  ASSUME NEW u \in Transport
  PROVE  /\ \A k \in Piped : \A m : /\ Path(u, k) # <<m, "arp_module">>
                                   /\ Path(u, k) # <<"arp_module", m>>
         /\ \A k, l \in Piped : Path(u, k) = Path(u, l) => k = l
         /\ 2 \in Piped /\ Path(u, 2) = <<"ip_mux", "ip_module">>
         /\ 4 \in Piped /\ Path(u, 4) = <<"ip_module", "ethernet_mux">>
         /\ 5 \in Piped /\ Path(u, 5) = <<"ethernet_mux", "device_driver">>
         /\ 7 \in Piped /\ Path(u, 7) = <<"device_driver", "ethernet_mux">>
         /\ 8 \in Piped /\ Path(u, 8) = <<"ethernet_mux", "ip_module">>
         /\ 9 \in Piped /\ Path(u, 9) = <<"ip_module", "ip_mux">>
         /\ 10 \in Piped /\ Path(u, 10) = <<"ip_mux", u>>
         /\ 1 \in Piped /\ Path(u, 1) = <<u, "ip_mux">>
<1>1. \A k \in Piped : \A m : Path(u, k) # <<m, "arp_module">> /\ Path(u, k) # <<"arp_module", m>>
  BY Paths
<1>2. \A k, l \in Piped : Path(u, k) = Path(u, l) => k = l
  BY Paths
<1>3. \A k \in {1, 2, 4, 5, 7, 8, 9, 10} : k \in Piped
  BY DEF Piped
<1>4. /\ Path(u, 1) = <<u, "ip_mux">> /\ Path(u, 2) = <<"ip_mux", "ip_module">>
      /\ Path(u, 4) = <<"ip_module", "ethernet_mux">>
      /\ Path(u, 5) = <<"ethernet_mux", "device_driver">>
      /\ Path(u, 7) = <<"device_driver", "ethernet_mux">>
      /\ Path(u, 8) = <<"ethernet_mux", "ip_module">>
      /\ Path(u, 9) = <<"ip_module", "ip_mux">> /\ Path(u, 10) = <<"ip_mux", u>>
  BY DEF Path
<1> QED
  BY <1>1, <1>2, <1>3, <1>4

\* A packet in ip_module's hands is a stage by itself.
LEMMA InHandStage ==
  ASSUME NEW g, NEW u, NEW h
  PROVE  /\ sending[g] = NoPacket => Flow(g, u, h)[3] = <<>>
         /\ sending[g] # NoPacket => Flow(g, u, h)[3] = <<sending[g]>>
         /\ sending'[g] = NoPacket => Flow(g, u, h)'[3] = <<>>
         /\ sending'[g] # NoPacket => Flow(g, u, h)'[3] = <<sending'[g]>>
         /\ sending'[g] = sending[g] => Flow(g, u, h)'[3] = Flow(g, u, h)[3]
<1>1. Flow(g, u, h)[3] = InHand(g)
  BY Stages
<1>2. Flow(g, u, h)'[3] = InHand(g)'
  BY StagesNext
<1>3. /\ sending[g] = NoPacket => InHand(g) = <<>>
      /\ sending[g] # NoPacket => InHand(g) = <<sending[g]>>
  BY DEF InHand
<1>4. /\ sending'[g] = NoPacket => InHand(g)' = <<>>
      /\ sending'[g] # NoPacket => InHand(g)' = <<sending'[g]>>
  BY DEF InHand
<1>5. sending'[g] = sending[g] => InHand(g)' = InHand(g)
  BY DEF InHand
<1> QED
  BY <1>1, <1>2, <1>3, <1>4, <1>5

\* ip_module takes a packet in hand with a question, and sends it with the
\* answer or drops it; it passes the packets of the link on, drops them or takes
\* an ICMP error in hand.
LEMMA IpFlow ==
  ASSUME HonestInv, PipesHonest', NEW f \in Hosts, IpModuleStep(f),
         UNCHANGED <<wire, received>>,
         NEW g \in Hosts, NEW h \in Hosts, NEW u \in Transport
  PROVE  FlowStep(g, u, h)
<1> DEFINE F == Flow(g, u, h)
           G == Flow(g, u, h)'
<1>0. /\ G[6] = F[6] /\ G[11] = F[11]
      /\ \A k \in {6, 11} : Quietly(g, u, F[k], G[k])
  BY Stages, StagesNext DEF Quietly
<1>00. /\ sending = [x \in Hosts |-> sending[x]]
       /\ \A x \in Hosts : sending[x] # NoPacket => sending[x] \in Packet /\ sending[x].from = x
  BY DEF HonestInv, SendingHonest, OwnPacket
<1>1. CASE TakeAnswer(f)
  <2> DEFINE frame == EthernetFrame(f, Received(f, "ip_module", "arp_module").ethernetaddr, sending[f])
  <2>1. PICK sends :
          /\ sends = <<Send("ethernet_mux", frame)>> \/ sends = <<>>
          /\ MinetReceive(f, "ip_module", "arp_module", sends)
          /\ sending[f] # NoPacket /\ out[f]["ip_module"] = <<>>
          /\ pipe[f][<<"arp_module", "ip_module">>] # <<>>
          /\ sending' = [sending EXCEPT ![f] = NoPacket]
    BY <1>1 DEF TakeAnswer
  <2>2. Handler(f, "ip_module", "arp_module", sends)
    <3>1. out'[f]["ip_module"] = sends
      <4>1. Shape /\ "ip_module" \in Module /\ MinetReceive(f, "ip_module", "arp_module", sends)
        BY <2>1, ModuleNames DEF HonestInv
      <4> QED
        BY <4>1, ReceiveEffect
    <3>2. sends \in SendLists(f, "ip_module")
      BY <3>1, ModuleNames DEF PipesHonest
    <3> QED
      BY <2>1, <3>2, PeersOf DEF Handler
  <2>3. sending'[f] = NoPacket /\ \A x \in Hosts \ {f} : sending'[x] = sending[x]
    BY <1>00, <2>1
  <2>4. Content(frame) = sending[f] /\ sending[f] \in Packet /\ sending[f].from = f
    BY <1>00, <2>1 DEF Content, EthernetFrame
  <2> HIDE DEF frame
  <2>5. CASE sends = <<>>
    <3>1. SendsNoneOf(g, u, "ip_module", sends)
      BY <2>5 DEF SendsNoneOf
    <3>2. Quietly(g, u, F[3], G[3])
      <4>1. CASE g = f
        <5>1. F[3] = <<sending[f]>> /\ G[3] = <<>>
          BY <2>1, <2>3, <4>1, InHandStage
        <5>2. F[3] # <<>> /\ G[3] = Tail(F[3])
          BY <5>1, TailOfOne
        <5> QED
          BY <5>2 DEF Quietly
      <4>2. CASE g # f
        BY <2>3, <4>2, InHandStage DEF Quietly
      <4> QED
        BY <4>1, <4>2
    <3> QED
      BY <1>0, <2>2, <3>1, <3>2, QuietHandler, ModuleNames
  <2>6. CASE sends = <<Send("ethernet_mux", frame)>>
    <3>1. sends # <<>> /\ Head(sends).to = "ethernet_mux" /\ Head(sends).msg = frame
      BY <2>6 DEF Send
    <3>2. \A k \in Piped : Path(u, k) = <<"ip_module", "ethernet_mux">> => k = 4
      BY PathsApart
    <3>3. CASE g = f
      <4>1. F[3] = <<sending[f]>> /\ G[3] = <<>>
        BY <2>1, <2>3, <3>3, InHandStage
      <4>2. F[3] # <<>> /\ G[3] = Tail(F[3]) /\ Head(F[3]) = sending[f]
        BY <4>1, TailOfOne
      <4>3. G[4] = Append(F[4], sending[f])
        <5>1. PICK k \in Piped :
                k = 4 /\ HostOf(g, h, k) = f /\ Path(u, k) = <<"ip_module", Head(sends).to>>
          BY <3>1, <3>3, PathsApart DEF HostOf
        <5>2. Passing(4, Head(sends).msg) = sending[f]
          BY <2>4, <3>1 DEF Passing
        <5>3. G[k] = Append(F[k], Passing(k, Head(sends).msg))
          <6>1. /\ HostOf(g, h, k) = f /\ sends # <<>> /\ "ip_module" \in Module
                /\ Path(u, k) = <<"ip_module", Head(sends).to>>
            BY <3>1, <5>1, ModuleNames
          <6> QED
            BY <2>2, <6>1, HandlerStage
        <5> QED
          BY <5>1, <5>2, <5>3
      <4>4. ASSUME NEW k \in Piped \ {4} PROVE G[k] = F[k]
        <5>1. Path(u, k) # <<"arp_module", "ip_module">>
          BY PathsApart
        <5>2. Path(u, k) # <<"ip_module", Head(sends).to>>
          BY <3>1, <3>2
        <5> QED
          BY <2>2, <5>1, <5>2, HandlerStage, ModuleNames
      <4>5. \A k \in (1 .. 11) \ {3, 3 + 1} : G[k] = F[k]
        BY <1>0, <4>4, AllStages
      <4>6. Moves(F, G, 3)
        BY <4>2, <4>3, <4>5 DEF Moves
      <4> QED
        BY <4>6 DEF FlowStep
    <3>4. CASE g # f
      <4>1. Quietly(g, u, F[3], G[3])
        BY <2>3, <3>4, InHandStage DEF Quietly
      <4>2. Passing(4, Head(sends).msg) = sending[f]
        BY <2>4, <3>1 DEF Passing
      <4>3. sending[f] \in Item /\ ~ Numbered(g, u, sending[f])
        BY <2>4, <3>4 DEF Item, Numbered
      <4>4. SendsNoneOf(g, u, "ip_module", sends)
        BY <3>1, <3>2, <4>2, <4>3 DEF SendsNoneOf
      <4> QED
        BY <1>0, <2>2, <4>1, <4>4, QuietHandler, ModuleNames
    <3> QED
      BY <3>3, <3>4
  <2> QED
    BY <2>1, <2>5, <2>6
<1>2. ASSUME NEW n, NEW p \in Packet, MinetGetNextEvent(f, "ip_module", n), SendPacket(f, n, p)
      PROVE  LET sends == <<Send("arp_module", Question(p))>> IN
             /\ Handler(f, "ip_module", n, sends) /\ SendsNoneOf(g, u, "ip_module", sends)
             /\ sends # <<>> /\ Head(sends).to = "arp_module"
             /\ sending'[f] = p /\ \A x \in Hosts \ {f} : sending'[x] = sending[x]
  <2> DEFINE sends == <<Send("arp_module", Question(p))>>
  <2>1. sends # <<>> /\ Head(sends).to = "arp_module"
    BY DEF Send
  <2>2. MinetReceive(f, "ip_module", n, sends) /\ sending' = [sending EXCEPT ![f] = p]
    BY <1>2 DEF SendPacket
  <2> HIDE DEF sends
  <2>3. Handler(f, "ip_module", n, sends)
    BY <1>2, <2>2, EventHandler, ModuleNames
  <2>4. SendsNoneOf(g, u, "ip_module", sends)
    BY <2>1, PathsApart DEF SendsNoneOf
  <2>5. sending'[f] = p /\ \A x \in Hosts \ {f} : sending'[x] = sending[x]
    BY <1>00, <2>2
  <2> QED
    BY <2>1, <2>3, <2>4, <2>5 DEF sends
<1>3. CASE FromIpMux(f)
  <2> DEFINE p == Received(f, "ip_module", "ip_mux")
             sends == <<Send("arp_module", Question(p))>>
  <2>1. /\ sending[f] = NoPacket /\ MinetGetNextEvent(f, "ip_module", "ip_mux")
        /\ SendPacket(f, "ip_mux", p)
    BY <1>3 DEF FromIpMux, InLoop
  <2>2. p \in Packet
    <3>1. p \in Honest(f, "ip_mux", "ip_module")
      BY <2>1, EventHonest, ModuleNames DEF HonestInv
    <3> QED
      BY <3>1, HonestOf DEF OwnPacket
  <2>3. /\ Handler(f, "ip_module", "ip_mux", sends) /\ SendsNoneOf(g, u, "ip_module", sends)
        /\ sends # <<>> /\ Head(sends).to = "arp_module"
        /\ sending'[f] = p /\ \A x \in Hosts \ {f} : sending'[x] = sending[x]
    BY <1>2, <2>1, <2>2
  <2> HIDE DEF sends
  <2>4. CASE g = f
    <3>1. F[3] = <<>> /\ G[3] = <<p>>
      BY <2>1, <2>2, <2>3, <2>4, InHandStage, IpModuleAssumption
    <3>2. F[2] # <<>> /\ G[2] = Tail(F[2]) /\ Head(F[2]) = p
      <4>1. 2 \in Piped /\ HostOf(g, h, 2) = f /\ Path(u, 2) = <<"ip_mux", "ip_module">>
        BY <2>4, PathsApart DEF HostOf
      <4>2. Passing(2, p) = p
        BY DEF Passing
      <4>3. F[2] # <<>> /\ G[2] = Tail(F[2]) /\ Head(F[2]) = Passing(2, p)
        BY <2>3, <4>1, HandlerStage, ModuleNames
      <4> QED
        BY <4>2, <4>3
    <3>3. \A k \in Piped \ {2} : G[k] = F[k]
      <4>1. \A k \in Piped \ {2} : Path(u, k) # <<"ip_mux", "ip_module">>
        BY PathsApart
      <4>2. \A k \in Piped : Path(u, k) # <<"ip_module", Head(sends).to>>
        BY <2>3, PathsApart
      <4> TAKE k \in Piped \ {2}
      <4>3. Path(u, k) # <<"ip_mux", "ip_module">> /\ Path(u, k) # <<"ip_module", Head(sends).to>>
        BY <4>1, <4>2
      <4> QED
        BY <2>3, <4>3, HandlerStage, ModuleNames
    <3>4. \A k \in (1 .. 11) \ {2, 2 + 1} : G[k] = F[k]
      BY <1>0, <3>3, AllStages
    <3>5. G[2 + 1] = Append(F[2 + 1], Head(F[2]))
      <4>1. Append(<<>>, p) = <<p>> /\ 2 + 1 = 3
        BY AppendToNone
      <4> QED
        BY <3>1, <3>2, <4>1
    <3>6. Moves(F, G, 2)
      BY <3>2, <3>4, <3>5 DEF Moves
    <3> QED
      BY <3>6 DEF FlowStep
  <2>5. CASE g # f
    <3>1. Quietly(g, u, F[3], G[3])
      BY <2>3, <2>5, InHandStage DEF Quietly
    <3> QED
      BY <1>0, <2>3, <3>1, QuietHandler, ModuleNames
  <2> QED
    BY <2>4, <2>5
<1>4. CASE FromEthernet(f)
  <2> DEFINE x == Received(f, "ip_module", "ethernet_mux")
             p == x.packet
  <2>1. MinetGetNextEvent(f, "ip_module", "ethernet_mux") /\ sending[f] = NoPacket
    BY <1>4 DEF FromEthernet, InLoop
  <2>2. p \in Packet /\ Content(x) = p
    <3>1. x \in Honest(f, "ethernet_mux", "ip_module")
      BY <2>1, EventHonest, ModuleNames DEF HonestInv
    <3> QED
      BY <3>1, HonestOf, ContentItem DEF HonestFrame
  <2> HIDE DEF x
  <2>3. \/ MinetReceive(f, "ip_module", "ethernet_mux", <<>>) /\ UNCHANGED sending
        \/ SendPacket(f, "ethernet_mux", ICMPError(f, p))
        \/ /\ UNCHANGED sending
           /\ MinetReceive(f, "ip_module", "ethernet_mux", <<Send("ip_mux", p)>>)
    BY <1>4 DEF FromEthernet, x
  <2> HIDE DEF p
  <2>4. CASE MinetReceive(f, "ip_module", "ethernet_mux", <<>>) /\ UNCHANGED sending
    <3>1. Handler(f, "ip_module", "ethernet_mux", <<>>)
      BY <2>1, <2>4, EventHandler, ModuleNames
    <3>2. SendsNoneOf(g, u, "ip_module", <<>>)
      BY DEF SendsNoneOf
    <3> QED
      BY <2>4, <3>1, <3>2, ElsewhereStays, QuietHandler, ModuleNames
  <2>5. CASE SendPacket(f, "ethernet_mux", ICMPError(f, p))
    <3> DEFINE e == ICMPError(f, p)
               sends == <<Send("arp_module", Question(e))>>
    <3>1. e \in Packet /\ e.id = 0
      BY <2>2, ICMPErrorOwn DEF OwnPacket, ICMPError
    <3> HIDE DEF e
    <3>2. /\ Handler(f, "ip_module", "ethernet_mux", sends)
          /\ SendsNoneOf(g, u, "ip_module", sends)
          /\ sending'[f] = e /\ \A y \in Hosts \ {f} : sending'[y] = sending[y]
      BY <1>2, <2>1, <2>5, <3>1 DEF e
    <3> HIDE DEF sends
    <3>3. Quietly(g, u, F[3], G[3])
      <4>1. CASE g = f
        <5>1. F[3] = <<>> /\ G[3] = <<e>>
          BY <2>1, <3>1, <3>2, <4>1, InHandStage, IpModuleAssumption
        <5>2. G[3] = Append(F[3], e)
          BY <5>1, AppendToNone
        <5>3. e \in Item /\ ~ Numbered(g, u, e)
          BY <3>1 DEF Item, Numbered
        <5> QED
          BY <5>2, <5>3 DEF Quietly
      <4>2. CASE g # f
        BY <3>2, <4>2, InHandStage DEF Quietly
      <4> QED
        BY <4>1, <4>2
    <3> QED
      BY <1>0, <3>2, <3>3, QuietHandler, ModuleNames
  <2>6. CASE /\ UNCHANGED sending
             /\ MinetReceive(f, "ip_module", "ethernet_mux", <<Send("ip_mux", p)>>)
    <3> DEFINE sends == <<Send("ip_mux", p)>>
    <3>1. sends # <<>> /\ Head(sends).to = "ip_mux" /\ Head(sends).msg = p
      BY DEF Send
    <3>2. Handler(f, "ip_module", "ethernet_mux", sends)
      BY <2>1, <2>6, EventHandler, ModuleNames
    <3> HIDE DEF sends
    <3>3. SameElsewhere(g, u, h)
      BY <2>6, ElsewhereStays
    <3>4. 8 \in Piped /\ 8 + 1 \in Piped /\ 8 # 5
      BY DEF Piped
    <3>5. /\ Path(u, 8) = <<"ethernet_mux", "ip_module">>
          /\ Path(u, 8 + 1) = <<"ip_module", Head(sends).to>>
      BY <3>1 DEF Path
    <3>6. Passing(8 + 1, Head(sends).msg) = Passing(8, Received(f, "ip_module", "ethernet_mux"))
      BY <2>2, <3>1 DEF Passing, x
    <3> QED
      BY <3>1, <3>2, <3>3, <3>4, <3>5, <3>6, MoveHandler, ModuleNames
  <2> QED
    BY <2>3, <2>4, <2>5, <2>6
<1> QED
  BY <1>1, <1>3, <1>4 DEF IpModuleStep

\* m, which has nothing to send, starts a send of its own.
OwnSend(f, m, n, x) ==
  out[f][m] = <<>> /\ out' = [out EXCEPT ![f][m] = <<Send(n, x)>>] /\ pipe' = pipe

LEMMA OwnSendStage ==
  ASSUME HonestInv, PipesHonest', NEW f \in Hosts, NEW m \in Module, NEW n, NEW x,
         OwnSend(f, m, n, x),
         NEW g \in Hosts, NEW h \in Hosts, NEW u \in Transport, NEW k \in Piped
  PROVE  /\ HostOf(g, h, k) # f \/ Path(u, k) # <<m, n>>
              => Flow(g, u, h)'[k] = Flow(g, u, h)[k]
         /\ HostOf(g, h, k) = f /\ Path(u, k) = <<m, n>>
              => Flow(g, u, h)'[k] = Append(Flow(g, u, h)[k], Passing(k, x))
<1> DEFINE a == Path(u, k)[1]
           b == Path(u, k)[2]
           y == HostOf(g, h, k)
<1>0. y \in Hosts
  BY DEF HostOf
<1>00. out[f][m] = <<>> /\ out' = [out EXCEPT ![f][m] = <<Send(n, x)>>] /\ pipe' = pipe
  BY DEF OwnSend
<1>1. a \in Module /\ b \in Peers(a) /\ Path(u, k) = <<a, b>> /\ <<a, b>> \in Ends
  BY Paths, PeersMutual
<1>2. Way(y, a, b) \in Seq(Honest(y, a, b))
  BY <1>0, <1>1, WayTyped DEF HonestInv
<1>3. k \in {4, 5, 7, 8} => Way(y, a, b) \in Seq(HonestFrame) /\ Honest(y, a, b) \subseteq HonestFrame
  <2>1. ASSUME NEW S, NEW T, S \subseteq T PROVE Seq(S) \subseteq Seq(T)
    BY <2>1
  <2>2. k \in {4, 5, 7, 8} => Honest(y, a, b) \subseteq HonestFrame
    BY FramedPaths
  <2> HIDE DEF a, b, y
  <2> QED
    BY <1>2, <2>1, <2>2
<1>4. /\ Flow(g, u, h)[k] = Stage(k, Way(y, a, b))
      /\ Flow(g, u, h)'[k] = Stage(k, Way(y, a, b)')
  BY PipedStages
<1> HIDE DEF a, b, y
<1>5. \A z \in Hosts : \A j \in Module :
        out'[z][j] = IF z = f /\ j = m THEN <<Send(n, x)>> ELSE out[z][j]
  BY <1>00 DEF HonestInv, Shape
<1>6. ASSUME y # f \/ a # m \/ b # n
      PROVE  Flow(g, u, h)'[k] = Flow(g, u, h)[k]
  <2>1. Held(y, a, b)' = Held(y, a, b)
    <3>1. CASE y # f \/ a # m
      BY <1>0, <1>1, <1>5, <3>1 DEF Held
    <3>2. CASE y = f /\ a = m
      <4>1. Held(y, a, b) = <<>>
        BY <1>00, <3>2 DEF Held
      <4>2. out'[y][a] = <<Send(n, x)>> /\ Head(<<Send(n, x)>>).to = n
        BY <1>5, <3>2 DEF Send
      <4>3. Held(y, a, b)' = <<>>
        BY <1>6, <3>2, <4>2 DEF Held
      <4> QED
        BY <4>1, <4>3
    <3> QED
      BY <3>1, <3>2
  <2>2. Way(y, a, b)' = Way(y, a, b)
    BY <1>00, <2>1, HeldWay
  <2> QED
    BY <1>4, <2>2
<1>7. ASSUME y = f, a = m, b = n
      PROVE  Flow(g, u, h)'[k] = Append(Flow(g, u, h)[k], Passing(k, x))
  <2>1. x \in Honest(f, m, n)
    <3>1. out'[f][m] = <<Send(n, x)>> /\ out'[f][m] \in SendLists(f, m)
      BY <1>5 DEF PipesHonest
    <3>2. <<Send(n, x)>> # <<>> /\ Head(<<Send(n, x)>>) = Send(n, x)
      OBVIOUS
    <3>3. Send(n, x) \in SendsOf(f, m)
      BY <3>1, <3>2, TailOfSends
    <3> QED
      BY <3>3, SendsTyped DEF Send
  <2>2. pipe[f][<<m, n>>] \in Seq(Honest(f, m, n))
    BY <1>1, <1>7 DEF HonestInv, PipesHonest
  <2>3. Way(f, m, n)' = Append(Way(f, m, n), x)
    <3>1. Held(f, m, n) = <<>>
      BY <1>00 DEF Held
    <3>2. Held(f, m, n)' = <<x>>
      BY <1>5 DEF Held, Send
    <3>3. Way(f, m, n) = pipe[f][<<m, n>>] \o <<>> /\ Way(f, m, n)' = pipe[f][<<m, n>>] \o <<x>>
      BY <1>00, <3>1, <3>2, HeldWay
    <3> QED
      BY <2>1, <2>2, <3>3, Joined
  <2>4. CASE k \in {4, 5, 7, 8}
    <3>1. Way(f, m, n) \in Seq(HonestFrame) /\ x \in HonestFrame
      BY <1>3, <1>7, <2>1, <2>4
    <3>2. Contents(Append(Way(f, m, n), x)) = Append(Contents(Way(f, m, n)), Content(x))
      BY <3>1, ContentsOf
    <3> QED
      BY <1>4, <1>7, <2>3, <2>4, <3>2 DEF Stage, Passing
  <2>5. CASE k \notin {4, 5, 7, 8}
    BY <1>4, <1>7, <2>3, <2>5 DEF Stage, Passing
  <2> QED
    BY <2>4, <2>5
<1>8. Path(u, k) = <<m, n>> <=> a = m /\ b = n
  BY <1>1
<1>9. y # f \/ Path(u, k) # <<m, n>> => Flow(g, u, h)'[k] = Flow(g, u, h)[k]
  BY <1>6, <1>8
<1>10. y = f /\ Path(u, k) = <<m, n>>
         => Flow(g, u, h)'[k] = Append(Flow(g, u, h)[k], Passing(k, x))
  BY <1>7, <1>8
<1> QED
  BY <1>9, <1>10 DEF y

LEMMA WireStage ==
  ASSUME NEW g, NEW u, NEW h
  PROVE  /\ Flow(g, u, h)[6] = Contents(wire[h])
         /\ Flow(g, u, h)'[6] = Contents(wire'[h])
         /\ wire'[h] = wire[h] => Flow(g, u, h)'[6] = Flow(g, u, h)[6]
BY Stages, StagesNext

\* A damaged packet has no number.
LEMMA DamagedItem ==
  ASSUME NEW f \in HonestFrame, NEW x \in Arrivals(f), x # f, NEW g, NEW u
  PROVE  Content(x) \in Item /\ ~ Numbered(g, u, Content(x))
<1>1. f.type = "PROTO_IP" /\ x \in Damaged(f)
  BY DEF Arrivals
<1>2. f \in IpFrame
  BY <1>1 DEF HonestFrame, HonestArp, HonestIp, ArpFrame
<1>3. x.type = "PROTO_IP" /\ x.packet.fault # "none"
  <2>1. f.packet \in Packet
    BY <1>2 DEF IpFrame
  <2>2. CASE \E y \in Fault \ {"none"} : x = [f EXCEPT !.packet.fault = y]
    BY <1>2, <2>1, <2>2 DEF IpFrame, Packet
  <2>3. CASE \E y \in Hosts : x = [f EXCEPT !.packet.fault = "checksum", !.packet.from = y]
    BY <1>2, <2>1, <2>3 DEF IpFrame, Packet
  <2> QED
    BY <1>1, <2>2, <2>3 DEF Damaged
<1>4. Content(x) = x.packet
  BY <1>3 DEF Content
<1>5. Content(x) \in Item
  BY ArrivalsHonest, ContentItem
<1> QED
  BY <1>3, <1>4, <1>5 DEF Numbered

\* The driver puts frames on the link and takes them off; the link damages some.
LEMMA DriverFlow ==
  ASSUME HonestInv, PipesHonest', NEW f \in Hosts, DriverStep(f),
         UNCHANGED <<sending, received>>,
         NEW g \in Hosts, NEW h \in Hosts, NEW u \in Transport
  PROVE  FlowStep(g, u, h)
<1> DEFINE F == Flow(g, u, h)
           G == Flow(g, u, h)'
<1>0. /\ G[3] = F[3] /\ G[11] = F[11]
      /\ \A k \in {3, 11} : Quietly(g, u, F[k], G[k])
  BY InHandStage, Stages, StagesNext DEF Quietly
<1>00. wire \in [Hosts -> Seq(HonestFrame)] /\ wire[h] \in Seq(HonestFrame)
  BY DEF HonestInv, LinkHonest
<1>000. "device_driver" \in Module
  BY ModuleNames
<1>1. CASE ProcessOutgoing(f)
  <2> DEFINE x == Received(f, "device_driver", "ethernet_mux")
  <2>1. /\ MinetGetNextEvent(f, "device_driver", "ethernet_mux")
        /\ MinetReceive(f, "device_driver", "ethernet_mux", <<>>)
    BY <1>1 DEF ProcessOutgoing
  <2>2. PICK captured :
          wire' = [y \in Hosts |-> IF y \in captured THEN Append(wire[y], x) ELSE wire[y]]
    BY <1>1 DEF ProcessOutgoing
  <2>3. Handler(f, "device_driver", "ethernet_mux", <<>>)
    BY <1>000, <2>1, EventHandler
  <2>4. x \in HonestFrame /\ x \in HonestArp \cup OwnFrame(f)
    <3>1. x \in Honest(f, "ethernet_mux", "device_driver")
      BY <1>000, <2>1, EventHandler
    <3> QED
      BY <3>1, HonestOf DEF OwnFrame, HonestFrame
  <2> HIDE DEF x
  <2>5. SendsNoneOf(g, u, "device_driver", <<>>)
    BY DEF SendsNoneOf
  <2>6. /\ h \in captured => G[6] = Append(F[6], Content(x))
        /\ h \notin captured => G[6] = F[6]
    <3>1. /\ h \in captured => wire'[h] = Append(wire[h], x)
          /\ h \notin captured => wire'[h] = wire[h]
      BY <2>2
    <3>2. Contents(Append(wire[h], x)) = Append(Contents(wire[h]), Content(x))
      BY <1>00, <2>4, ContentsOf
    <3>3. /\ F[6] = Contents(wire[h]) /\ G[6] = Contents(wire'[h])
          /\ wire'[h] = wire[h] => G[6] = F[6]
      BY WireStage
    <3> HIDE DEF F, G
    <3>4. h \in captured => G[6] = Append(F[6], Content(x))
      BY <3>1, <3>2, <3>3
    <3> QED
      BY <3>1, <3>3, <3>4
  <2>7. CASE h \notin captured
    <3>1. Quietly(g, u, F[6], G[6])
      BY <2>6, <2>7 DEF Quietly
    <3> QED
      BY <1>0, <1>000, <2>3, <2>5, <3>1, QuietHandler
  <2>8. CASE h \in captured /\ g # f
    <3>1. Content(x) \in Item /\ ~ Numbered(g, u, Content(x))
      <4>1. CASE x \in HonestArp
        BY <2>4, <4>1, ContentItem, IpModuleAssumption DEF Numbered
      <4>2. CASE x \in OwnFrame(f)
        BY <2>4, <2>8, <4>2, ContentItem DEF Numbered, OwnFrame
      <4> QED
        BY <2>4, <4>1, <4>2
    <3>2. Quietly(g, u, F[6], G[6])
      BY <2>6, <2>8, <3>1 DEF Quietly
    <3> QED
      BY <1>0, <1>000, <2>3, <2>5, <3>2, QuietHandler
  <2>9. CASE h \in captured /\ g = f
    <3>1. \A k \in Piped \ {5} : Path(u, k) # <<"ethernet_mux", "device_driver">>
      BY PathsApart
    <3>2. ASSUME NEW k \in Piped \ {5} PROVE G[k] = F[k]
      BY <1>000, <2>3, <3>1, HandlerStage
    <3>3. PICK k \in Piped : /\ k = 5 /\ HostOf(g, h, k) = f
                             /\ Path(u, k) = <<"ethernet_mux", "device_driver">>
      BY <2>9, PathsApart DEF HostOf
    <3>4. F[k] # <<>> /\ G[k] = Tail(F[k]) /\ Head(F[k]) = Passing(k, x)
      BY <1>000, <2>3, <3>3, HandlerStage DEF x
    <3>5. Passing(k, x) = Content(x)
      BY <3>3 DEF Passing
    <3>6. \A l \in (1 .. 11) \ {k, k + 1} : G[l] = F[l]
      BY <1>0, <3>2, <3>3, AllStages
    <3>7. G[k + 1] = Append(F[k + 1], Head(F[k]))
      <4>1. k + 1 = 6
        BY <3>3
      <4> QED
        BY <2>6, <2>9, <3>4, <3>5, <4>1
    <3>8. Moves(F, G, k) /\ k \in 1 .. 10
      BY <3>3, <3>4, <3>6, <3>7 DEF Moves
    <3> QED
      BY <3>8 DEF FlowStep
  <2> QED
    BY <2>7, <2>8, <2>9
<1>2. CASE ProcessIncoming(f)
  <2>1. PICK x \in Arrivals(Head(wire[f])) :
          out' = [out EXCEPT ![f]["device_driver"] = <<Send("ethernet_mux", x)>>]
    BY <1>2 DEF ProcessIncoming
  <2>2. /\ wire[f] # <<>> /\ wire' = [wire EXCEPT ![f] = Tail(@)] /\ pipe' = pipe
        /\ out[f]["device_driver"] = <<>>
    BY <1>2 DEF ProcessIncoming, PcapIsNext
  <2>3. wire[f] \in Seq(HonestFrame) /\ Head(wire[f]) \in HonestFrame
    BY <1>00, <2>2, HeadTail
  <2>4. /\ wire'[f] = Tail(wire[f])
        /\ h # f => wire'[h] = wire[h]
    BY <1>00, <2>2
  <2>5. \A k \in Piped : Path(u, k) = <<"device_driver", "ethernet_mux">> => k = 7
    BY PathsApart
  <2>0. ASSUME NEW k \in Piped
        PROVE  /\ HostOf(g, h, k) # f \/ Path(u, k) # <<"device_driver", "ethernet_mux">>
                    => G[k] = F[k]
               /\ HostOf(g, h, k) = f /\ Path(u, k) = <<"device_driver", "ethernet_mux">>
                    => G[k] = Append(F[k], Passing(k, x))
    <3>1. OwnSend(f, "device_driver", "ethernet_mux", x)
      BY <2>1, <2>2 DEF OwnSend
    <3> QED
      BY <1>000, <3>1, OwnSendStage
  <2>6. ASSUME NEW k \in Piped, HostOf(g, h, k) # f \/ Path(u, k) # <<"device_driver", "ethernet_mux">>
        PROVE  G[k] = F[k]
    BY <2>0, <2>6
  <2>7. CASE h # f
    <3>1. ASSUME NEW k \in Piped PROVE G[k] = F[k]
      <4>1. CASE k = 7
        <5>1. HostOf(g, h, k) = h
          BY <4>1 DEF HostOf
        <5> QED
          BY <2>6, <2>7, <5>1
      <4>2. CASE k # 7
        BY <2>5, <2>6, <4>2
      <4> QED
        BY <4>1, <4>2
    <3>2. G[6] = F[6]
      BY <2>4, <2>7, WireStage
    <3>3. \A k \in 1 .. 11 : Quietly(g, u, F[k], G[k])
      BY <1>0, <3>1, <3>2, AllStages DEF Quietly
    <3> QED
      BY <3>3 DEF FlowStep, AllQuiet
  <2>8. CASE h = f
    <3>1. ASSUME NEW k \in Piped \ {7} PROVE G[k] = F[k]
      BY <2>5, <2>6
    <3>2. PICK k \in Piped : /\ k = 7 /\ HostOf(g, h, k) = f
                             /\ Path(u, k) = <<"device_driver", "ethernet_mux">>
      BY <2>8, PathsApart DEF HostOf
    <3>3. G[k] = Append(F[k], Passing(k, x))
      BY <2>0, <3>2
    <3>4. G[7] = Append(F[7], Content(x))
      BY <3>2, <3>3 DEF Passing
    <3>5. F[6] # <<>> /\ G[6] = Tail(F[6]) /\ Head(F[6]) = Content(Head(wire[f]))
      <4>1. /\ Contents(wire[f]) # <<>> /\ Contents(Tail(wire[f])) = Tail(Contents(wire[f]))
            /\ Head(Contents(wire[f])) = Content(Head(wire[f]))
        BY <2>2, <2>3, ContentsOf
      <4>2. F[6] = Contents(wire[f]) /\ G[6] = Contents(Tail(wire[f]))
        BY <2>4, <2>8, WireStage
      <4> QED
        BY <4>1, <4>2
    <3>6. CASE x = Head(wire[f])
      <4>1. \A l \in (1 .. 11) \ {6, 6 + 1} : G[l] = F[l]
        BY <1>0, <3>1, AllStages
      <4>2. 6 + 1 = 7 /\ 6 \in 1 .. 10
        OBVIOUS
      <4>3. Moves(F, G, 6)
        BY <3>4, <3>5, <3>6, <4>1, <4>2 DEF Moves
      <4> QED
        BY <4>2, <4>3 DEF FlowStep
    <3>7. CASE x # Head(wire[f])
      <4>1. Content(x) \in Item /\ ~ Numbered(g, u, Content(x))
        BY <2>3, <3>7, DamagedItem
      <4>2. Quietly(g, u, F[6], G[6]) /\ Quietly(g, u, F[7], G[7])
        BY <3>4, <3>5, <4>1 DEF Quietly
      <4>3. \A l \in Piped \ {7} : Quietly(g, u, F[l], G[l])
        BY <3>1 DEF Quietly
      <4>4. \A l \in 1 .. 11 : Quietly(g, u, F[l], G[l])
        BY <1>0, <4>2, <4>3, AllStages
      <4> QED
        BY <4>4 DEF FlowStep, AllQuiet
    <3> QED
      BY <3>6, <3>7
  <2> QED
    BY <2>7, <2>8
<1> QED
  BY <1>1, <1>2 DEF DriverStep

LEMMA ReceivedStage ==
  ASSUME NEW g, NEW u, NEW h
  PROVE  /\ Flow(g, u, h)[11] = received[h]
         /\ Flow(g, u, h)'[11] = received'[h]
BY Stages, StagesNext

\* A transport takes a packet at the end of its way.
LEMMA TransportReceiveFlow ==
  ASSUME HonestInv, PipesHonest', NEW f \in Hosts, NEW v \in TransportsOf[f],
         TransportReceive(f, v), UNCHANGED <<sending, wire>>,
         NEW g \in Hosts, NEW h \in Hosts, NEW u \in Transport
  PROVE  FlowStep(g, u, h)
<1> DEFINE F == Flow(g, u, h)
           G == Flow(g, u, h)'
           p == Received(f, v, "ip_mux")
<1>0. /\ G[3] = F[3] /\ G[6] = F[6]
      /\ \A k \in {3, 6} : Quietly(g, u, F[k], G[k])
  BY InHandStage, WireStage DEF Quietly
<1>1. /\ MinetGetNextEvent(f, v, "ip_mux") /\ MinetReceive(f, v, "ip_mux", <<>>)
      /\ received' = [received EXCEPT ![f] = Append(@, p)]
  BY DEF TransportReceive
<1>2. v \in Transport /\ v \in Module
  BY IpMuxAssumption, ModuleNames
<1>3. Handler(f, v, "ip_mux", <<>>) /\ p \in Honest(f, "ip_mux", v)
  BY <1>1, <1>2, EventHandler
<1>4. p \in Packet /\ p.proto = v
  BY <1>2, <1>3, HonestOf DEF SoundPacket
<1> HIDE DEF p
<1>5. SendsNoneOf(g, u, v, <<>>)
  BY DEF SendsNoneOf
<1>6. /\ received'[f] = Append(received[f], p)
      /\ h # f => received'[h] = received[h]
  BY <1>1 DEF HonestInv, TransportsOK
<1>7. CASE h # f
  <2>1. Quietly(g, u, F[11], G[11])
    BY <1>6, <1>7, ReceivedStage DEF Quietly
  <2> QED
    BY <1>0, <1>2, <1>3, <1>5, <2>1, QuietHandler
<1>8. CASE h = f /\ v # u
  <2>1. p \in Item /\ ~ Numbered(g, u, p)
    BY <1>4, <1>8 DEF Item, Numbered
  <2>2. G[11] = Append(F[11], p)
    BY <1>6, <1>8, ReceivedStage
  <2>3. Quietly(g, u, F[11], G[11])
    BY <2>1, <2>2 DEF Quietly
  <2> QED
    BY <1>0, <1>2, <1>3, <1>5, <2>3, QuietHandler
<1>9. CASE h = f /\ v = u
  <2>1. G[11] = Append(F[11], p)
    BY <1>6, <1>9, ReceivedStage
  <2>2. \A k \in Piped \ {10} : Path(u, k) # <<"ip_mux", v>>
    BY <1>9, PathsApart
  <2>3. ASSUME NEW k \in Piped \ {10} PROVE G[k] = F[k]
    BY <1>2, <1>3, <2>2, HandlerStage
  <2>4. PICK k \in Piped : k = 10 /\ HostOf(g, h, k) = f /\ Path(u, k) = <<"ip_mux", v>>
    BY <1>9, PathsApart DEF HostOf
  <2>5. F[k] # <<>> /\ G[k] = Tail(F[k]) /\ Head(F[k]) = Passing(k, p)
    BY <1>2, <1>3, <2>4, HandlerStage DEF p
  <2>6. Passing(k, p) = p /\ k + 1 = 11 /\ k \in 1 .. 10
    BY <2>4 DEF Passing
  <2>7. \A l \in (1 .. 11) \ {k, k + 1} : G[l] = F[l]
    BY <1>0, <2>3, <2>4, <2>6, AllStages
  <2>8. Moves(F, G, k)
    BY <2>1, <2>5, <2>6, <2>7 DEF Moves
  <2> QED
    BY <2>6, <2>8 DEF FlowStep
<1> QED
  BY <1>7, <1>8, <1>9

\* A transport's next packet comes in at the first stage of its flows.
LEMMA TransportSendFlow ==
  ASSUME HonestInv, HonestInv', NEW f \in Hosts, NEW v \in TransportsOf[f], NEW to \in Destinations,
         TransportSend(f, v, to), UNCHANGED <<sending, wire>>,
         NEW g \in Hosts, NEW h \in Hosts, NEW u \in Transport,
         InOrder(Flow(g, u, h), g, u, sent[g][u])
  PROVE  InOrder(Flow(g, u, h)', g, u, sent'[g][u])
<1> DEFINE F == Flow(g, u, h)
           G == Flow(g, u, h)'
           p == [from |-> f, to |-> to, proto |-> v, fault |-> "none", id |-> sent[f][v] + 1]
<1>0. /\ sent \in [Hosts -> [Transport -> Nat]] /\ sent[g][u] \in Nat
      /\ v \in Transport /\ v \in Module /\ v # "ip_mux" /\ PipesHonest'
  BY IpMuxAssumption, ModuleNames DEF HonestInv, TransportsOK, Transport
<1>1. /\ OwnSend(f, v, "ip_mux", p) /\ received' = received
      /\ sent' = [sent EXCEPT ![f][v] = @ + 1]
  BY DEF TransportSend, OwnSend
<1>2. p \in Item /\ p.id = sent[f][v] + 1
  BY <1>0, LinkLayerAssumption DEF Item, Packet, Fault
<1> HIDE DEF p
<1>3. G[3] = F[3] /\ G[6] = F[6] /\ G[11] = F[11]
  <2>1. received'[h] = received[h]
    BY <1>1
  <2> QED
    BY <2>1, InHandStage, WireStage, ReceivedStage
<1>4. ASSUME NEW k \in Piped
      PROVE  /\ HostOf(g, h, k) # f \/ Path(u, k) # <<v, "ip_mux">> => G[k] = F[k]
             /\ HostOf(g, h, k) = f /\ Path(u, k) = <<v, "ip_mux">>
                  => G[k] = Append(F[k], Passing(k, p))
  BY <1>0, <1>1, OwnSendStage
<1>5. Typed(F)
  BY FlowTyped
<1>6. \A k \in Piped : Path(u, k) = <<v, "ip_mux">> => k = 1 /\ v = u
  <2> TAKE k \in Piped
  <2>1. CASE k = 9
    BY <1>0, <2>1, PathsApart DEF Transport
  <2>2. CASE k # 9
    BY <1>0, <2>2, PathsApart DEF Piped, Path, Transport
  <2> QED
    BY <2>1, <2>2
<1>7. CASE g = f /\ u = v
  <2>1. ASSUME NEW k \in Piped \ {1} PROVE G[k] = F[k]
    BY <1>4, <1>6
  <2>2. PICK k \in Piped : k = 1 /\ HostOf(g, h, k) = f /\ Path(u, k) = <<v, "ip_mux">>
    BY <1>7, PathsApart DEF HostOf
  <2>3. G[1] = Append(F[1], p)
    <3>1. Passing(k, p) = p
      BY <2>2 DEF Passing
    <3> QED
      BY <1>4, <2>2, <3>1
  <2>4. \A l \in 2 .. 11 : l \in Piped \ {1} \/ l = 3 \/ l = 6 \/ l = 11
    BY DEF Piped
  <2>5. \A l \in 2 .. 11 : G[l] = F[l]
    BY <1>3, <2>1, <2>4
  <2>6. Enters(F, G, p)
    BY <2>3, <2>5 DEF Enters
  <2>7. sent'[g][u] = sent[g][u] + 1 /\ p.id = sent[g][u] + 1
    BY <1>0, <1>1, <1>2, <1>7
  <2>8. InOrder(G, g, u, sent[g][u] + 1)
    BY <1>0, <1>2, <1>5, <2>6, <2>7, NewStep
  <2> QED
    BY <2>7, <2>8
<1>8. CASE ~ (g = f /\ u = v)
  <2>1. ASSUME NEW k \in Piped PROVE G[k] = F[k]
    <3>1. HostOf(g, h, k) # f \/ Path(u, k) # <<v, "ip_mux">>
      BY <1>6, <1>8 DEF HostOf
    <3> QED
      BY <1>4, <3>1
  <2>2. \A k \in 1 .. 11 : Quietly(g, u, F[k], G[k])
    BY <1>3, <2>1, AllStages DEF Quietly
  <2>3. sent'[g][u] = sent[g][u]
    BY <1>0, <1>1, <1>8
  <2>4. AllQuiet(g, u, F, G) /\ sent[g][u] <= sent[g][u]
    BY <1>0, <2>2 DEF AllQuiet
  <2>5. InOrder(G, g, u, sent[g][u])
    BY <1>0, <1>5, <2>4, QuietStep
  <2> QED
    BY <2>3, <2>5
<1> QED
  BY <1>7, <1>8

\* A send changes no way, since what a module holds counts with the pipe.
LEMMA SendingFlow ==
  ASSUME HonestInv, NEW f \in Hosts, NEW m \in Module, MinetSend(f, m),
         UNCHANGED <<sending, wire, received>>,
         NEW g \in Hosts, NEW h \in Hosts, NEW u \in Transport
  PROVE  FlowStep(g, u, h)
<1> DEFINE F == Flow(g, u, h)
           G == Flow(g, u, h)'
<1>1. ASSUME NEW k \in Piped PROVE G[k] = F[k]
  <2> DEFINE a == Path(u, k)[1]
             b == Path(u, k)[2]
             y == HostOf(g, h, k)
  <2>1. y \in Hosts /\ a \in Module \ {"arp_module"} /\ b \in Peers(a)
    BY Paths DEF HostOf
  <2>2. F[k] = Stage(k, Way(y, a, b)) /\ G[k] = Stage(k, Way(y, a, b)')
    BY PipedStages
  <2> HIDE DEF a, b, y
  <2>3. Way(y, a, b)' = Way(y, a, b)
    BY <2>1, SendWays DEF HonestInv
  <2> QED
    BY <2>2, <2>3
<1>2. \A k \in {3, 6, 11} : Quietly(g, u, F[k], G[k])
  BY ElsewhereStays
<1>3. \A k \in 1 .. 11 : Quietly(g, u, F[k], G[k])
  BY <1>1, <1>2, AllStages DEF Quietly
<1> QED
  BY <1>3 DEF FlowStep, AllQuiet

\* Every step of every host keeps every flow in order.
LEMMA NextFlows ==
  ASSUME LinkInv, LinkInv', FlowsInOrder, [Next]_vars
  PROVE  FlowsInOrder'
<1>0. HonestInv /\ HonestInv' /\ PipesHonest'
  BY DEF LinkInv, HonestInv
<1> SUFFICES ASSUME NEW g \in Hosts, NEW h \in Hosts, NEW u \in Transport
             PROVE  InOrder(Flow(g, u, h)', g, u, sent'[g][u])
  BY DEF FlowsInOrder, InOrder, Numbered
<1>1. InOrder(Flow(g, u, h), g, u, sent[g][u]) /\ Typed(Flow(g, u, h)) /\ sent[g][u] \in Nat
  BY <1>0, FlowTyped DEF FlowsInOrder, HonestInv, TransportsOK
<1>2. ASSUME FlowStep(g, u, h), sent' = sent
      PROVE  InOrder(Flow(g, u, h)', g, u, sent'[g][u])
  <2>1. CASE AllQuiet(g, u, Flow(g, u, h), Flow(g, u, h)')
    BY <1>1, <1>2, <2>1, QuietStep
  <2>2. ASSUME NEW k \in 1 .. 10, Moves(Flow(g, u, h), Flow(g, u, h)', k)
        PROVE  InOrder(Flow(g, u, h)', g, u, sent'[g][u])
    BY <1>1, <1>2, <2>2, MoveStep
  <2> QED
    BY <1>2, <2>1, <2>2 DEF FlowStep
<1>3. CASE UNCHANGED vars
  <2>1. \A x \in Hosts : \A m, n : Way(x, m, n)' = Way(x, m, n)
    BY <1>3 DEF vars, pipeVars, Way
  <2>2. InHand(g)' = InHand(g) /\ wire' = wire /\ received' = received /\ sent' = sent
    BY <1>3 DEF vars, driverVars, transportVars, InHand
  <2>3. \A k \in Piped : Flow(g, u, h)'[k] = Flow(g, u, h)[k]
    BY <2>1, PipedStages DEF HostOf
  <2>4. \A k \in 1 .. 11 : Quietly(g, u, Flow(g, u, h)[k], Flow(g, u, h)'[k])
    BY <2>2, <2>3, AllStages, Stages, StagesNext DEF Quietly
  <2> QED
    BY <1>2, <2>2, <2>4 DEF FlowStep, AllQuiet
<1>4. ASSUME NEW f \in Hosts, HostStep(f) PROVE InOrder(Flow(g, u, h)', g, u, sent'[g][u])
  <2> USE DEF driverVars, transportVars
  <2>1. CASE Sending(f)
    BY <1>0, <1>2, <2>1, SendingFlow DEF Sending
  <2>2. CASE Arp(f)
    BY <1>0, <1>2, <2>2, ArpFlow DEF Arp
  <2>3. CASE Ip(f)
    BY <1>0, <1>2, <2>3, IpFlow DEF Ip
  <2>4. CASE Muxes(f)
    BY <1>0, <1>2, <2>4, MuxesFlow DEF Muxes
  <2>5. CASE Driver(f)
    BY <1>0, <1>2, <2>5, DriverFlow DEF Driver
  <2>6. CASE TransportStep(f)
    <3>1. UNCHANGED <<sending, wire>>
      BY <2>6 DEF TransportStep
    <3>2. PICK v \in TransportsOf[f] :
            TransportReceive(f, v) \/ \E to \in Destinations : TransportSend(f, v, to)
      BY <2>6 DEF TransportStep
    <3>3. CASE TransportReceive(f, v)
      <4>1. FlowStep(g, u, h)
        BY <1>0, <3>1, <3>3, TransportReceiveFlow
      <4>2. sent' = sent
        BY <3>3 DEF TransportReceive
      <4> QED
        BY <1>2, <4>1, <4>2
    <3>4. CASE \E to \in Destinations : TransportSend(f, v, to)
      BY <1>0, <1>1, <3>1, <3>4, TransportSendFlow
    <3> QED
      BY <3>2, <3>3, <3>4
  <2> QED
    BY <1>4, <2>1, <2>2, <2>3, <2>4, <2>5, <2>6 DEF HostStep
<1> QED
  BY <1>3, <1>4 DEF Next

LEMMA InitFlows == Init => FlowsInOrder
<1> SUFFICES ASSUME Init, NEW g \in Hosts, NEW h \in Hosts, NEW u \in Transport
             PROVE  InOrder(Flow(g, u, h), g, u, sent[g][u])
  BY DEF FlowsInOrder
<1> DEFINE F == Flow(g, u, h)
<1>1. /\ \A k \in Piped : F[k] = Stage(k, Way(HostOf(g, h, k), Path(u, k)[1], Path(u, k)[2]))
      /\ F[3] = InHand(g) /\ F[6] = Contents(wire[h]) /\ F[11] = received[h]
  BY PipedStages, Stages
<1>2. ASSUME NEW x \in Hosts, NEW m \in Module, NEW n \in Peers(m)
      PROVE  Way(x, m, n) = <<>>
  <2>1. pipe[x][<<m, n>>] = <<>> /\ out[x][m] = <<>>
    BY PeersMutual DEF Init, PipesInit
  <2>2. Way(x, m, n) = <<>> \o <<>>
    BY <2>1 DEF Way
  <2> QED
    BY <2>2
<1>3. Contents(<<>>) = <<>>
  BY DEF Contents
<1>4. \A k \in Piped : F[k] = <<>>
  <2> TAKE k \in Piped
  <2>1. /\ HostOf(g, h, k) \in Hosts /\ Path(u, k)[1] \in Module
        /\ Path(u, k)[2] \in Peers(Path(u, k)[1])
    BY Paths DEF HostOf
  <2>2. F[k] = Stage(k, <<>>)
    BY <1>1, <1>2, <2>1
  <2> QED
    BY <1>3, <2>2 DEF Stage
<1>5. F[3] = <<>> /\ F[6] = <<>> /\ F[11] = <<>>
  BY <1>1, <1>3 DEF Init, IpInit, DriverInit, InHand
<1>6. \A k \in 1 .. 11 : DOMAIN F[k] = {}
  BY <1>4, <1>5, AllStages
<1> HIDE DEF F
<1>7. InOrder(F, g, u, sent[g][u])
  BY <1>6 DEF InOrder
<1> QED
  BY <1>7 DEF F

LEMMA FlowInvariant == Spec => [](LinkInv /\ FlowsInOrder)
<1>1. Init => FlowsInOrder
  BY InitFlows
<1>2. LinkInv /\ LinkInv' /\ FlowsInOrder /\ [Next]_vars => FlowsInOrder'
  BY NextFlows
<1> QED
  BY <1>1, <1>2, LinkInvariant, PTL DEF Spec

(***************************************************************************)
(* Over any number of hosts, over a link that loses frames and damages     *)
(* headers, while ip_module asks for addresses in the middle of its        *)
(* handler: what a transport takes from its peer on another host comes in  *)
(* the order it was sent, and nothing twice.                               *)
(***************************************************************************)
THEOREM PacketsComeInOrder == Spec => []DeliveredInOrder
<1>1. LinkInv /\ FlowsInOrder => DeliveredInOrder
  <2> SUFFICES ASSUME LinkInv, FlowsInOrder, NEW h \in Hosts,
                      NEW i \in DOMAIN received[h], NEW j \in DOMAIN received[h], i < j,
                      received[h][i].from = received[h][j].from,
                      received[h][i].proto = received[h][j].proto,
                      received[h][i].id # 0, received[h][j].id # 0
               PROVE  received[h][i].id < received[h][j].id
    BY DEF DeliveredInOrder
  <2> DEFINE p == received[h][i]
             q == received[h][j]
             F == Flow(p.from, p.proto, h)
  <2>1. received[h] \in Seq(SoundPacket)
    BY DEF LinkInv, TransportsOK
  <2>2. p \in SoundPacket /\ q \in SoundPacket
    BY <2>1
  <2>3. p.from \in Hosts /\ p.proto \in Transport
    BY <2>2 DEF SoundPacket, Packet
  <2>4. InOrder(F, p.from, p.proto, sent[p.from][p.proto])
    BY <2>3 DEF FlowsInOrder
  <2>5. F[11] = received[h]
    BY ReceivedStage
  <2>6. Numbered(p.from, p.proto, p) /\ Numbered(p.from, p.proto, q)
    BY <2>2 DEF SoundPacket, Numbered
  <2>7. 11 \in 1 .. 11 /\ Further(11, i, 11, j)
    BY DEF Further
  <2> HIDE DEF F
  <2> QED
    BY <2>4, <2>5, <2>6, <2>7 DEF InOrder
<1> QED
  BY <1>1, FlowInvariant, PTL
==============================================================================

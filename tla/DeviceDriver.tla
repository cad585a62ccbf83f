----------------------------- MODULE DeviceDriver -----------------------------
(***************************************************************************)
(* lowlevel/device_driver2.cc and the link behind it. The driver captures  *)
(* in promiscuous mode with the filter "host <ip> or arp", so it sees ARP  *)
(* of everyone and IP from or to its own address, whatever Ethernet        *)
(* address a frame carries; it sends only ARP and IP under its own.        *)
(*                                                                         *)
(* The link is external: it keeps the order of frames, loses any of them   *)
(* unless Lossless, and may damage IP headers. A host may capture what it  *)
(* sent itself.                                                            *)
(***************************************************************************)
EXTENDS LinkInt

CONSTANTS
  Lossless,       \* every other host captures every frame its filter accepts
  SeesOwnFrames,  \* a host may capture its own frames
  MaxFaults       \* bound: IP headers the link damages

ASSUME DeviceDriverAssumption ==
  Lossless \in BOOLEAN /\ SeesOwnFrames \in BOOLEAN /\ MaxFaults \in Nat

VARIABLES
  wire,      \* wire[h]: frames on their way to h's driver
  faults     \* headers damaged so far

driverVars == <<wire, faults>>

DriverTypeOK == wire \in [Hosts -> Seq(Frame)] /\ faults \in 0 .. MaxFaults

DriverInit == wire = [h \in Hosts |-> <<>>] /\ faults = 0

Filter(h, f) == f.type = "PROTO_ARP" \/ h \in {f.packet.from, f.packet.to}

Allowed(h, f) == f.src = MyEthernetAddr[h] /\ f.type \in {"PROTO_ARP", "PROTO_IP"}

\* The sets of hosts that may capture frame f of host h.
Captures(h, f) ==
  LET own == IF SeesOwnFrames THEN {{}, {h}} ELSE {{}}
      others == {g \in Hosts \ {h} : Filter(g, f)}
  IN IF ~ Allowed(h, f) THEN {{}}
     ELSE IF Lossless THEN {others \cup s : s \in own}
     ELSE {t \cup s : t \in SUBSET others, s \in own}

ProcessOutgoing(h) ==
  /\ MinetGetNextEvent(h, "device_driver", "ethernet_mux")
  /\ MinetReceive(h, "device_driver", "ethernet_mux", <<>>)
  /\ LET f == Received(h, "device_driver", "ethernet_mux") IN
     \E captured \in Captures(h, f) :
       wire' = [g \in Hosts |-> IF g \in captured THEN Append(wire[g], f) ELSE wire[g]]
  /\ UNCHANGED faults

Damaged(f) ==
  {[f EXCEPT !.packet.fault = x] : x \in Fault \ {"none"}}
    \cup {[f EXCEPT !.packet.fault = "checksum", !.packet.from = g] : g \in Hosts}

\* What pcap_next returns for frame f.
Arrivals(f) ==
  IF f.type = "PROTO_IP" /\ faults < MaxFaults THEN {f} \cup Damaged(f) ELSE {f}

\* Fault: the link is read whether or not ethernet_mux has a frame.
LinkIsNext(h) == wire[h] # <<>>

\* ethernet_mux's pipe comes first in the driver's list.
PcapIsNext(h) == wire[h] # <<>> /\ pipe[h][<<"ethernet_mux", "device_driver">>] = <<>>

\* Fault: the frame stays in the capture buffer.
ProcessIncomingAgain(h) ==
  /\ out[h]["device_driver"] = <<>>
  /\ PcapIsNext(h)
  /\ \E f \in Arrivals(Head(wire[h])) :
       /\ out' = [out EXCEPT ![h]["device_driver"] = <<Send("ethernet_mux", f)>>]
       /\ faults' = IF f = Head(wire[h]) THEN faults ELSE faults + 1
  /\ UNCHANGED <<pipe, wire>>

ProcessIncoming(h) ==
  /\ out[h]["device_driver"] = <<>>
  /\ PcapIsNext(h)
  /\ \E f \in Arrivals(Head(wire[h])) :
       /\ out' = [out EXCEPT ![h]["device_driver"] = <<Send("ethernet_mux", f)>>]
       /\ faults' = IF f = Head(wire[h]) THEN faults ELSE faults + 1
  /\ wire' = [wire EXCEPT ![h] = Tail(@)]
  /\ UNCHANGED pipe

DriverStep(h) == ProcessOutgoing(h) \/ ProcessIncoming(h)
==============================================================================

-------------------------------- MODULE IpMux --------------------------------
(***************************************************************************)
(* core/ip_mux.cc: packets go up to the module of their protocol and down  *)
(* to ip_module. A packet for one of the three known protocols that is not *)
(* configured disappears; one of another protocol that no ipother_module   *)
(* takes is answered with an ICMP error. It keeps no state.                *)
(***************************************************************************)
EXTENDS LinkInt

CONSTANT TransportsOf   \* TransportsOf[h]: the transport modules host h runs

ASSUME IpMuxAssumption == TransportsOf \in [Hosts -> SUBSET Transport]

Delivery(h, p) ==
  CASE p.proto \in TransportsOf[h] -> <<Send(p.proto, p)>>
    [] p.proto \notin TransportsOf[h] /\ p.proto = "ipother_module"
         -> <<Send("ip_module", ICMPError(h, p))>>
    [] OTHER -> <<>>

Deliver(h) ==
  /\ MinetGetNextEvent(h, "ip_mux", "ip_module")
  /\ MinetReceive(h, "ip_mux", "ip_module",
       Delivery(h, Received(h, "ip_mux", "ip_module")))

FromTransport(h, u) ==
  /\ MinetGetNextEvent(h, "ip_mux", u)
  /\ MinetReceive(h, "ip_mux", u, <<Send("ip_module", Received(h, "ip_mux", u))>>)

IpMuxStep(h) == Deliver(h) \/ \E u \in TransportsOf[h] : FromTransport(h, u)
==============================================================================

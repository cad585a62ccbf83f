----------------------------- MODULE EthernetMux -----------------------------
(***************************************************************************)
(* core/ethernet_mux.cc: frames of the device driver go up by their type,  *)
(* those of arp_module and ip_module go down. It keeps no state.           *)
(***************************************************************************)
EXTENDS LinkInt

Upward(f) == IF f.type = "PROTO_ARP" THEN "arp_module" ELSE "ip_module"

Dispatch(h) ==
  /\ MinetGetNextEvent(h, "ethernet_mux", "device_driver")
  /\ LET f == Received(h, "ethernet_mux", "device_driver") IN
     MinetReceive(h, "ethernet_mux", "device_driver", <<Send(Upward(f), f)>>)

PassDown(h, n) ==
  /\ MinetGetNextEvent(h, "ethernet_mux", n)
  /\ MinetReceive(h, "ethernet_mux", n,
       <<Send("device_driver", Received(h, "ethernet_mux", n))>>)

EthernetMuxStep(h) ==
  Dispatch(h) \/ \E n \in {"arp_module", "ip_module"} : PassDown(h, n)
==============================================================================

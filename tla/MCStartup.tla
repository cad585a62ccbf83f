------------------------------ MODULE MCStartup ------------------------------
(***************************************************************************)
(* Setups of Startup for TLC.                                              *)
(***************************************************************************)
EXTENDS Startup

Setup(runs, config, monitored, dies, asks) ==
  [runs |-> runs, config |-> config, monitored |-> monitored, dies |-> dies, asks |-> asks]

Basic == {"device_driver", "ethernet_mux", "arp_module", "ip_module", "ip_mux",
          "udp_module", "sock_module", "socklib_module"}

Small == Basic \ {"arp_module"}

TheSetups == <<
  \* all but one
  Setup(Modules \ {"icmp_module"}, Modules \ {"icmp_module"}, {}, {}, TRUE),
  \* an application listed as app, two modules monitored
  Setup(Basic \cup {"monitor"}, (Basic \ {"socklib_module"}) \cup {"app"},
        {"ip_module", "udp_module"}, {}, TRUE),
  \* other_module is found in ipother_module, and does not run
  Setup(Basic \cup {"ipother_module"}, Basic \cup {"ipother_module"}, {}, {}, TRUE),
  \* the monitor waits for an application that calls itself something else
  Setup(Basic \cup {"monitor"}, Basic, {"sock_module", "app"}, {}, TRUE),
  \* no monitor runs
  Setup(Basic, Basic, {"arp_module"}, {}, TRUE),
  \* processes die, and their neighbours wait for enter or do not
  Setup(Small \cup {"monitor"}, Small, {"udp_module"},
        {"monitor", "device_driver", "socklib_module"}, TRUE),
  Setup(Small \cup {"monitor"}, Small, {"udp_module"},
        {"monitor", "device_driver", "socklib_module"}, FALSE) >>
==============================================================================

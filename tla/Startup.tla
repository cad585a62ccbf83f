-------------------------------- MODULE Startup --------------------------------
(***************************************************************************)
(* How the processes of a stack find each other: MinetInit, MinetConnect   *)
(* and MinetAccept of libminet/Minet.cc as each module's main calls them,  *)
(* and the monitor. Every call opens named FIFOs, and the open of one end  *)
(* waits until some process opens the other, so the order of the calls     *)
(* decides whether the stack comes up. There is no way down but dying: a   *)
(* module whose peer is gone reads an end of file and dies as well, though *)
(* it may first wait for someone to hit enter, its FIFOs still open.       *)
(***************************************************************************)
EXTENDS Integers, Sequences, FiniteSets, SequencesExt

CONSTANTS
  Setups,      \* Setups[i]: a way to start the stack; see SetupOK
  EventRoom    \* events a monitoring FIFO holds (64 KiB in the program)

Modules ==
  {"device_driver", "ethernet_mux", "arp_module", "ip_module", "other_module",
   "ip_mux", "ipother_module", "icmp_module", "udp_module", "tcp_module",
   "sock_module", "socklib_module"}

Names == Modules \cup {"monitor", "reader", "writer", "app"}

(***************************************************************************)
(* runs: the processes; an application is one that MinetInit knows as      *)
(* socklib_module. config and monitored: what MINET_MODULES and            *)
(* MINET_MONITOR list. dies: the processes that may end of themselves.     *)
(* asks: MINET_DISPLAY is unset or xterm, for which death waits for enter. *)
(***************************************************************************)
SetupOK(s) ==
  /\ s.runs \subseteq Modules \cup {"monitor"}
  /\ s.config \subseteq Names /\ s.monitored \subseteq Names
  /\ s.dies \subseteq s.runs
  /\ s.asks \in BOOLEAN

ASSUME StartupAssumption == 
  /\ EventRoom \in Nat \ {0}
  /\ \A i \in DOMAIN Setups : SetupOK(Setups[i])

Transports == {"icmp_module", "udp_module", "tcp_module", "ipother_module"}

VARIABLES
  setup,    \* which of Setups it is
  todo,     \* todo[m]: the steps of its start m has left, the first begun
  opened,   \* opened[m]: the FIFOs m has opened
  stopped,  \* the processes whose death waits for enter
  dead,     \* the processes that have died
  events    \* events[m]: events in m's FIFO to the monitor

vars == <<setup, todo, opened, stopped, dead, events>>

-----------------------------------------------------------------------------
(***************************************************************************)
(* The environment is searched with strstr, which finds other_module in    *)
(* ipother_module as well.                                                 *)
(***************************************************************************)
Lists(names, n) == n \in names \/ (n = "other_module" /\ "ipother_module" \in names)

MinetIsModuleInConfig(s, n) == Lists(s.config, n)

MinetIsModuleMonitored(s, n) == Lists(s.monitored, n)

Connect(n) == [call |-> "connect", module |-> n]
Accept(n) == [call |-> "accept", module |-> n]

(***************************************************************************)
(* What each module's main calls, in this order, for the modules that are  *)
(* configured.                                                             *)
(***************************************************************************)
DeviceDriverMain == <<Accept("ethernet_mux")>>
EthernetMuxMain == <<Connect("device_driver"), Accept("arp_module"), Accept("ip_module"),
                     Accept("other_module")>>
ArpMain == <<Connect("ethernet_mux"), Accept("ip_module")>>
IpMain == <<Connect("ethernet_mux"), Connect("arp_module"), Accept("ip_mux")>>
OtherMain == <<Connect("ethernet_mux")>>
IpMuxMain == <<Connect("ip_module"), Accept("udp_module"), Accept("tcp_module"),
               Accept("icmp_module"), Accept("ipother_module")>>
TransportMain == <<Connect("ip_mux"), Accept("sock_module")>>
SockMain(s) == <<Connect("tcp_module"), Connect("udp_module"), Connect("icmp_module"),
                 Connect("ipother_module"),
                 Accept(IF MinetIsModuleInConfig(s, "app") THEN "app" ELSE "socklib_module")>>
AppMain == <<Connect("sock_module")>>

Calls(s, m) ==
  CASE m = "device_driver"  -> DeviceDriverMain
    [] m = "ethernet_mux"   -> EthernetMuxMain
    [] m = "arp_module"     -> ArpMain
    [] m = "ip_module"      -> IpMain
    [] m = "other_module"   -> OtherMain
    [] m = "ip_mux"         -> IpMuxMain
    [] m \in Transports     -> TransportMain
    [] m = "sock_module"    -> SockMain(s)
    [] m = "socklib_module" -> AppMain

\* The FIFOs of app are those of socklib_module.
Process(n) == IF n = "app" THEN "socklib_module" ELSE n

(***************************************************************************)
(* The pairs that have FIFOs; MinetConnect and MinetAccept end the program *)
(* over any other. No module's main asks for one.                          *)
(***************************************************************************)
MayConnect(m) ==
  CASE m = "ethernet_mux"                      -> {"device_driver"}
    [] m \in {"arp_module", "other_module"}    -> {"ethernet_mux"}
    [] m = "ip_module"                         -> {"ethernet_mux", "arp_module"}
    [] m = "ip_mux"                            -> {"ip_module"}
    [] m \in Transports                        -> {"ip_mux"}
    [] m = "sock_module"                       -> Transports
    [] m = "socklib_module"                    -> {"sock_module"}
    [] m = "device_driver"                     -> {}

MayAccept(m) ==
  CASE m = "device_driver"                     -> {"ethernet_mux"}
    [] m = "ethernet_mux"                      -> {"ip_module", "arp_module", "other_module"}
    [] m = "ip_module"                         -> {"ip_mux"}
    [] m = "arp_module"                        -> {"ip_module"}
    [] m = "ip_mux"                            -> Transports
    [] m \in Transports                        -> {"sock_module"}
    [] m = "sock_module"                       -> {"socklib_module", "app"}
    [] m \in {"other_module", "socklib_module"} -> {}

ASSUME CallsAreLegal ==
  \A i \in DOMAIN Setups : \A m \in Setups[i].runs \ {"monitor"} :
    /\ \A c \in ToSet(Calls(Setups[i], m)) :
         c.module \in (IF c.call = "connect" THEN MayConnect(m) ELSE MayAccept(m))
    /\ Len(Calls(Setups[i], m)) <= 5

-----------------------------------------------------------------------------
\* The steps of a start: opening a FIFO, at either end, and sending an event.
Open(writer, reader) == [do |-> "open", fifo |-> <<writer, reader>>]
Event == [do |-> "event"]

SendToMonitor(s, m) == IF MinetIsModuleMonitored(s, m) THEN <<Event>> ELSE <<>>

MinetInit(s, m) ==
  IF MinetIsModuleMonitored(s, m) THEN <<Open(m, "monitor"), Event>> ELSE <<>>

\* Fault: both sides open the FIFO they write to first.
ConnectWritingFirst(s, m, n) == <<Open(m, n), Open(n, m)>> \o SendToMonitor(s, m)

MinetConnect(s, m, n) == <<Open(n, m), Open(m, n)>> \o SendToMonitor(s, m)

MinetAccept(s, m, n) == <<Open(m, n), Open(n, m)>> \o SendToMonitor(s, m)

\* The steps of the i-th call of m's main.
CallSteps(s, m, i) ==
  LET c == Calls(s, m)[i] IN
  IF i \notin DOMAIN Calls(s, m) \/ ~ MinetIsModuleInConfig(s, c.module) THEN <<>>
  ELSE IF c.call = "connect" THEN MinetConnect(s, m, Process(c.module))
  ELSE MinetAccept(s, m, Process(c.module))

\* The driver registers libpcap as well.
MinetAddExternalConnection(s, m) ==
  IF m = "device_driver" THEN SendToMonitor(s, m) ELSE <<>>

\* Fault: the monitor does not accept udp_module.
MonitorAcceptsAllButOne ==
  <<"reader", "writer", "device_driver", "ethernet_mux", "ip_module", "arp_module",
    "other_module", "ip_mux", "ipother_module", "icmp_module",
    "tcp_module", "sock_module", "socklib_module", "app">>

\* The monitor accepts, in this order, the modules that are monitored.
MonitorAccepts ==
  <<"reader", "writer", "device_driver", "ethernet_mux", "ip_module", "arp_module",
    "other_module", "ip_mux", "ipother_module", "icmp_module", "udp_module",
    "tcp_module", "sock_module", "socklib_module", "app">>

MonitorAccept(s, i) ==
  LET n == MonitorAccepts[i] IN
  IF i \notin DOMAIN MonitorAccepts \/ ~ MinetIsModuleMonitored(s, n) THEN <<>>
  ELSE <<Open(n, "monitor")>>

MonitorSteps(s) ==
  LET accept(i) == MonitorAccept(s, i) IN
  accept(1) \o accept(2) \o accept(3) \o accept(4) \o accept(5)
    \o accept(6) \o accept(7) \o accept(8) \o accept(9) \o accept(10)
    \o accept(11) \o accept(12) \o accept(13) \o accept(14) \o accept(15)

\* No main makes more than five calls.
Steps(s, m) ==
  LET call(i) == CallSteps(s, m, i) IN
  IF m = "monitor" THEN MonitorSteps(s)
  ELSE MinetInit(s, m)
         \o call(1) \o call(2) \o call(3) \o call(4) \o call(5)
         \o MinetAddExternalConnection(s, m)

-----------------------------------------------------------------------------
Runs == DOMAIN todo
Alive(m) == m \in Runs \ (stopped \cup dead)
Operating(m) == Alive(m) /\ todo[m] = <<>>
InStep(m, do) == Alive(m) /\ todo[m] # <<>> /\ Head(todo[m]).do = do

Init ==
  /\ setup \in DOMAIN Setups
  /\ LET s == Setups[setup] IN
     /\ todo = [m \in s.runs |-> Steps(s, m)]
     /\ opened = [m \in s.runs |-> {}]
     /\ events = [m \in s.runs |-> 0]
  /\ stopped = {}
  /\ dead = {}

\* MyMonitorFifo is open.
Monitored(m) == <<m, "monitor">> \in opened[m] /\ m # "monitor"

OtherEnd(m, fifo) == IF fifo[1] = m THEN fifo[2] ELSE fifo[1]

\* m's open returns when the process at the other end opens fifo, or has.
Returns(m, fifo) ==
  LET n == OtherEnd(m, fifo) IN
  /\ n \in Runs
  /\ fifo \in opened[n] \/ (todo[n] # <<>> /\ Head(todo[n]) = Open(fifo[1], fifo[2]))

OpenFifo(m) ==
  /\ InStep(m, "open")
  /\ LET fifo == Head(todo[m]).fifo IN
     Returns(m, fifo) /\ opened' = [opened EXCEPT ![m] = @ \cup {fifo}]
  /\ todo' = [todo EXCEPT ![m] = Tail(@)]
  /\ UNCHANGED <<setup, stopped, dead, events>>

\* Fault: the write does not block.
RoomForEventAlways(m) == TRUE

RoomForEvent(m) == events[m] < EventRoom

SendEvent(m) ==
  /\ InStep(m, "event")
  /\ "monitor" \notin dead /\ RoomForEvent(m)
  /\ todo' = [todo EXCEPT ![m] = Tail(@)]
  /\ events' = [events EXCEPT ![m] = @ + 1]
  /\ UNCHANGED <<setup, opened, stopped, dead>>

\* What a monitored module does from now on it tells the monitor.
Emit(m) ==
  /\ Operating(m) /\ Monitored(m)
  /\ "monitor" \notin dead /\ RoomForEvent(m)
  /\ events' = [events EXCEPT ![m] = @ + 1]
  /\ UNCHANGED <<setup, todo, opened, stopped, dead>>

\* Nothing is to be read, end of file included, from those accepted before n.
IsNext(n) ==
  \A i, j \in DOMAIN MonitorAccepts :
    MonitorAccepts[i] = n /\ j < i /\ MonitorAccepts[j] \in Runs
      => events[MonitorAccepts[j]] = 0

MonitorReads(n) ==
  /\ Operating("monitor")
  /\ n \in Runs /\ events[n] > 0 /\ IsNext(n)
  /\ events' = [events EXCEPT ![n] = @ - 1]
  /\ UNCHANGED <<setup, todo, opened, stopped, dead>>

(***************************************************************************)
(* Dying. An end of file makes MinetReceive throw, and nobody catches it;  *)
(* a write to the monitor when it is gone raises SIGPIPE. Both end in      *)
(* death, which MinetInit installs: it waits for enter and exits, or, with *)
(* another MINET_DISPLAY, returns, and the abort goes on, or the write     *)
(* fails and its Serialize throws. A process that waits reads and writes   *)
(* nothing, and its neighbours see no end of file.                         *)
(***************************************************************************)
Death(m) ==
  /\ IF Setups[setup].asks
       THEN stopped' = stopped \cup {m} /\ dead' = dead
       ELSE dead' = dead \cup {m} /\ stopped' = stopped
  /\ UNCHANGED <<setup, todo, opened>>

\* Someone hits enter at m's terminal.
Enter(m) ==
  /\ m \in stopped
  /\ stopped' = stopped \ {m}
  /\ dead' = dead \cup {m}
  /\ UNCHANGED <<setup, todo, opened, events>>

Reads(m, n) == <<n, m>> \in opened[m]

\* Fault: an end of file is no event.
EndOfFileIgnored(m) == FALSE

EndOfFile(m) ==
  \E n \in dead : Reads(m, n) /\ (m = "monitor" => events[n] = 0 /\ IsNext(n))

\* MinetGetNextEvent tells the monitor of what there is to read, before
\* MinetReceive finds that it is the end of file.
HangUp(m) ==
  /\ Operating(m) /\ EndOfFile(m)
  /\ \/ /\ Monitored(m) /\ "monitor" \notin dead
        /\ RoomForEvent(m)
        /\ events' = [events EXCEPT ![m] = @ + 1]
     \/ /\ Monitored(m) => "monitor" \in dead
        /\ events' = events
  /\ Death(m)

\* The next event of a module whose monitor is gone; it may be long in coming.
BrokenPipe(m) ==
  /\ Monitored(m) /\ "monitor" \in dead
  /\ InStep(m, "event") \/ Operating(m)
  /\ events' = events
  /\ Death(m)

Exit(m) ==
  /\ m \in Setups[setup].dies /\ Operating(m)
  /\ dead' = dead \cup {m}
  /\ UNCHANGED <<setup, todo, opened, stopped, events>>

Start == \E m \in Runs : OpenFifo(m) \/ SendEvent(m)
Monitor == \E n \in Runs : MonitorReads(n)

Next ==
  \/ Start
  \/ Monitor
  \/ \E m \in Runs : Emit(m) \/ HangUp(m) \/ BrokenPipe(m) \/ Exit(m) \/ Enter(m)

Spec == Init /\ [][Next]_vars

(***************************************************************************)
(* Every process runs. A process takes few steps until it is up or dead,   *)
(* and one that can take a step can take it until it does, so that the     *)
(* fairness of all of them together is enough. An application, though,     *)
(* notices nothing until it makes a call, and a module that has nothing to *)
(* tell a dead monitor notices nothing either. Enter is up to the user.    *)
(***************************************************************************)
Fairness ==
  /\ WF_vars(Start)
  /\ WF_vars(Monitor)
  /\ WF_vars(\E m \in Runs \ {"socklib_module"} : HangUp(m))

FairSpec == Spec /\ Fairness

-----------------------------------------------------------------------------
TypeOK ==
  /\ setup \in DOMAIN Setups
  /\ Runs = Setups[setup].runs
  /\ \A m \in Runs : \A i \in DOMAIN todo[m] : todo[m][i].do \in {"open", "event"}
  /\ DOMAIN opened = Runs /\ \A m \in Runs : opened[m] \subseteq Runs \X Runs
  /\ stopped \subseteq Runs /\ dead \subseteq Runs
  /\ DOMAIN events = Runs /\ \A m \in Runs : events[m] \in 0 .. EventRoom

(***************************************************************************)
(* However MINET_MODULES and MINET_MONITOR are set and in whatever order   *)
(* the processes start, no modules ever wait for each other in a circle:   *)
(* who waits, for a FIFO or for the monitor to make room, waits at the end *)
(* for one that is not started, that is dead, or that is not waiting.      *)
(***************************************************************************)
WaitsFor(m) ==
  IF ~ Alive(m) THEN m
  ELSE IF InStep(m, "open") /\ ~ Returns(m, Head(todo[m]).fifo)
    THEN OtherEnd(m, Head(todo[m]).fifo)
  ELSE IF InStep(m, "event") /\ ~ RoomForEvent(m) THEN "monitor"
  ELSE m

NoCyclicWait ==
  LET waiting == {m \in Runs : WaitsFor(m) # m}
  IN  \A W \in SUBSET waiting : W # {} => \E m \in W : WaitsFor(m) \notin W

(***************************************************************************)
(* Every setup whose environment tells the truth comes up: when the modules*)
(* that MINET_MODULES lists are those that run, and a monitor runs where   *)
(* something is to be monitored.                                           *)
(***************************************************************************)
Truthful ==
  LET s == Setups[setup] IN
  /\ s.runs \ {"monitor"} =
       {Process(n) : n \in {x \in Modules \cup {"app"} : MinetIsModuleInConfig(s, x)}}
  /\ \A n \in Names : MinetIsModuleMonitored(s, n) => n \in s.runs
  /\ s.monitored # {} => "monitor" \in s.runs
  /\ s.dies = {}

(***************************************************************************)
(* What StartsUp rests on: until all are up, one of them can go on, or the *)
(* monitor, if it is up, has an event to read. (Minet.cc, MinetInit,       *)
(* MinetConnect, MinetAccept, MinetSendToMonitor; monitor.cc, main.)       *)
(***************************************************************************)
StartGoesOn ==
  Truthful =>
    \/ \A m \in Runs : Operating(m)
    \/ \E m \in Runs : Alive(m) /\ ~ Operating(m) /\ WaitsFor(m) = m
    \/ Operating("monitor") /\ \E n \in Runs : events[n] > 0 /\ IsNext(n)

StartsUp == Truthful => <>(\A m \in Runs : Operating(m))

(***************************************************************************)
(* Once a stack is up, the end of any process but its monitor brings all   *)
(* the others down, the application excepted, which sees it when it next   *)
(* makes a call: no half of a stack is left behind. It rests on two things *)
(* that the program leaves to others: someone hits enter wherever a module *)
(* asks for it, and the traffic pauses, for MinetGetNextEvent, which       *)
(* serves the FIFOs in their order, does not come to an end of file behind *)
(* one that always has something, nor tells a monitor whose FIFO is full.  *)
(* (Minet.cc, death, MinetGetNextEvent, MinetReceive.)                     *)
(***************************************************************************)
EnterIsHit == []<>(stopped = {})
TrafficPauses == <>[][\A m \in Runs : ~ Emit(m)]_vars

DiesTogether ==
  EnterIsHit /\ TrafficPauses =>
    ((dead \ {"monitor"} # {} /\ \A m \in Runs : todo[m] = <<>>)
       ~> (Runs \ {"socklib_module"} \subseteq dead))
================================================================================

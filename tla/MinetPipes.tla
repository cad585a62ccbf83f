------------------------------ MODULE MinetPipes ------------------------------
(***************************************************************************)
(* The module runtime of libminet/Minet.cc for the lower half of the stack,*)
(* pipes included: every pair of modules of a host that are connected has  *)
(* one bounded pipe each way. A module's loop takes the next event, handles*)
(* it and performs the sends of the handler one after the other; a send to *)
(* a full pipe blocks, and a module that is blocked takes no event.        *)
(***************************************************************************)
EXTENDS Integers, Sequences

CONSTANTS
  Hosts,      \* the hosts on the link, named by their IP addresses
  Capacity    \* messages a pipe holds (64 KiB in the program)

ASSUME MinetPipesAssumption == Capacity \in Nat \ {0}

Transport == {"udp_module", "tcp_module", "icmp_module", "ipother_module"}

Module == Transport \cup
  {"device_driver", "ethernet_mux", "arp_module", "ip_module", "ip_mux"}

(***************************************************************************)
(* MyFifos of each module, in the order of its MinetConnect and MinetAccept*)
(* calls, which is the order of service.                                   *)
(***************************************************************************)
MyFifos == [m \in Module |->
  CASE m = "device_driver" -> <<"ethernet_mux">>
    [] m = "ethernet_mux"  -> <<"device_driver", "arp_module", "ip_module">>
    [] m = "arp_module"    -> <<"ethernet_mux", "ip_module">>
    [] m = "ip_module"     -> <<"ethernet_mux", "arp_module", "ip_mux">>
    [] m = "ip_mux"        -> <<"ip_module", "udp_module", "tcp_module",
                                "icmp_module", "ipother_module">>
    [] m \in Transport     -> <<"ip_mux">>]

Peers(m) == {MyFifos[m][i] : i \in DOMAIN MyFifos[m]}

Ends == {e \in Module \X Module : e[2] \in Peers(e[1])}

VARIABLES
  pipe,   \* pipe[h][<<m, n>>]: messages m wrote to n and n has not read
  out     \* out[h][m]: sends m's handler still has to perform, in order

pipeVars == <<pipe, out>>

PipesInit ==
  /\ pipe = [h \in Hosts |-> [e \in Ends |-> <<>>]]
  /\ out = [h \in Hosts |-> [m \in Module |-> <<>>]]

Send(to, msg) == [to |-> to, msg |-> msg]

\* Module m of h is in select and every fifo served before n's is empty.
MinetGetNextEvent(h, m, n) ==
  /\ out[h][m] = <<>>
  /\ pipe[h][<<n, m>>] # <<>>
  /\ \E i \in DOMAIN MyFifos[m] :
       /\ MyFifos[m][i] = n
       /\ \A j \in 1 .. i - 1 : pipe[h][<<MyFifos[m][j], m>>] = <<>>

Received(h, m, n) == Head(pipe[h][<<n, m>>])

\* m reads one message of n; its handler goes on to perform "sends".
MinetReceive(h, m, n, sends) ==
  /\ pipe' = [pipe EXCEPT ![h][<<n, m>>] = Tail(@)]
  /\ out' = [out EXCEPT ![h][m] = sends]

(***************************************************************************)
(* The next send of m's handler, once there is room.                       *)
(***************************************************************************)
\* Fault: the last message does not fit.
HasRoomForOneMore(h, m, n) == Len(pipe[h][<<m, n>>]) <= Capacity

HasRoom(h, m, n) == Len(pipe[h][<<m, n>>]) < Capacity

Enqueue(queue, msg) == Append(queue, msg)

MinetSend(h, m) ==
  /\ out[h][m] # <<>>
  /\ LET s == Head(out[h][m]) IN
     /\ HasRoom(h, m, s.to)
     /\ pipe' = [pipe EXCEPT ![h][<<m, s.to>>] = Enqueue(@, s.msg)]
  /\ out' = [out EXCEPT ![h][m] = Tail(@)]

\* m is blocked in a send because the pipe to n is full.
BlockedOn(h, m, n) ==
  /\ out[h][m] # <<>>
  /\ Head(out[h][m]).to = n
  /\ ~ HasRoom(h, m, n)
==============================================================================

------------------------------ MODULE UdpModule ------------------------------
(***************************************************************************)
(* core/udp_module.cc: a list of forwarding entries, filled and emptied by *)
(* requests of sock_module, and consulted for each datagram of ip_mux.     *)
(*                                                                         *)
(* Packets and ICMP errors it sends to ip_mux leave the model.  ip_mux     *)
(* delivers MaxDatagrams datagrams at most; it is always read first, so a  *)
(* datagram may arrive at any moment and none waits.                       *)
(***************************************************************************)
EXTENDS SockInt

CONSTANTS
  MaxDatagrams,   \* bound: datagrams the network delivers in a behaviour
  MaxPayload,     \* bound: bytes in a datagram
  UDP_MAX_DATA    \* bytes of a WRITE that fit one datagram

ASSUME UdpAssumption ==
  /\ MaxDatagrams \in Nat
  /\ MaxPayload \in Nat
  /\ UDP_MAX_DATA \in Nat

VARIABLES
  clist,       \* the forwarding entries, oldest first
  datagrams    \* how many datagrams have arrived

udpVars == <<clist, datagrams>>

UdpTypeOK ==
  /\ clist \in Seq(Connection)
  /\ datagrams \in 0 .. MaxDatagrams

UdpInit ==
  /\ clist = <<>>
  /\ datagrams = 0

(***************************************************************************)
(* A datagram: who sent it, the local port it is for, and how many bytes.  *)
(* A WRITE to sock_module carries the connection of the entry that         *)
(* matched, not that of the datagram; with no match, ip_mux gets an ICMP   *)
(* port-unreachable error.                                                 *)
(***************************************************************************)
Datagram ==
  [from : Remotes, fromport : PeerPorts, toport : Port \ {0}, len : 0 .. MaxPayload]

Payload(d) ==
  [i \in 1 .. d.len |->
     [from |-> d.from, fromport |-> d.fromport, toport |-> d.toport]]

ConnectionOf(d) ==
  [src |-> MyIPAddr, srcport |-> d.toport, dest |-> d.from,
   destport |-> d.fromport, protocol |-> "UDP"]

HandleMux(d) ==
  LET cs == FindMatching(clist, ConnectionOf(d))
      write == [type |-> "WRITE", connection |-> clist[cs], data |-> Payload(d),
                bytes |-> d.len, error |-> "EOK"]
  IN  /\ datagrams < MaxDatagrams
      /\ datagrams' = datagrams + 1
      /\ udp2sock' = IF cs # 0 THEN Append(udp2sock, write) ELSE udp2sock
      /\ UNCHANGED <<clist, sock2udp>>

(***************************************************************************)
(* Requests of sock_module: every one but a STATUS gets a STATUS back.     *)
(***************************************************************************)
UDPReply(req, n, err) ==
  udp2sock' = Append(udp2sock, StatusReply(req, <<>>, n, err))

Erase(list, i) == IF i = 0 THEN list ELSE RemoveAt(list, i)

\* Fault: the old forward is left in place.
HandleForwardKeepingOld(req) ==
  /\ req.type = "FORWARD"
  /\ clist' = Append(clist, req.connection)
  /\ UDPReply(req, 0, "EOK")

HandleForward(req) ==
  /\ req.type = "FORWARD"
  /\ clist' = Append(Erase(clist, FindMatching(clist, req.connection)), req.connection)
  /\ UDPReply(req, 0, "EOK")

\* Fault: a WRITE gets no STATUS.
HandleWriteSilently(req) ==
  /\ req.type = "WRITE"
  /\ UNCHANGED <<clist, udp2sock>>

HandleWrite(req) ==
  /\ req.type = "WRITE"
  /\ UDPReply(req, MIN(UDP_MAX_DATA, Len(req.data)), "EOK")
  /\ UNCHANGED clist

\* The byte count of its STATUS is never initialised, and never read.
HandleClose(req) ==
  LET cs == FindMatching(clist, req.connection)
  IN  /\ req.type = "CLOSE"
      /\ clist' = Erase(clist, cs)
      /\ UDPReply(req, 0, IF cs = 0 THEN "ENOMATCH" ELSE "EOK")

HandleStatus(req) ==
  /\ req.type = "STATUS"
  /\ UNCHANGED <<clist, udp2sock>>

HandleSock ==
  LET req == Head(sock2udp)
  IN  /\ sock2udp # <<>>
      /\ sock2udp' = Tail(sock2udp)
      /\ \/ HandleForward(req)
         \/ HandleWrite(req)
         \/ HandleClose(req)
         \/ HandleStatus(req)
      /\ UNCHANGED datagrams

UdpModuleStep ==
  \/ HandleSock
  \/ \E d \in Datagram : HandleMux(d)
==============================================================================

----------------------------- MODULE MinetSockets -----------------------------
(***************************************************************************)
(* The upper half of the stack: the application with its socket library,   *)
(* sock_module, udp_module and tcp_module, four processes that share       *)
(* nothing but FIFOs.                                                      *)
(***************************************************************************)
EXTENDS SockLib, SockModule, UdpModule, TcpModule

CONSTANTS
  MaxOutstanding,   \* bound: requests to one module the application lets pile up
  ClosesUnbound     \* may the application close a socket it never bound?

ASSUME MinetSocketsAssumption ==
  /\ MaxOutstanding \in Nat
  /\ ClosesUnbound \in BOOLEAN

vars == <<call, fifos, sockVars, udpVars, tcpVars>>

TypeOK ==
  /\ SockLibTypeOK
  /\ FifosTypeOK
  /\ SockTypeOK
  /\ UdpTypeOK
  /\ TcpTypeOK

Init ==
  /\ SockLibInit
  /\ FifosInit
  /\ SockInit
  /\ UdpInit
  /\ TcpInit

(***************************************************************************)
(* The application makes any call, on any descriptor, whenever the one     *)
(* before has returned.                                                    *)
(***************************************************************************)
MayClose(sockfd) ==
  \/ ClosesUnbound
  \/ socks[sockfd].status = "FREE"
  \/ socks[sockfd].connection.srcport # PORT_NONE

ApplicationCall ==
  \/ \E protocol \in Protocols : minet_socket(protocol)
  \/ \E sockfd \in Sock :
       \/ \E addr \in Listeners, port \in Port : minet_bind(sockfd, addr, port)
       \/ "TCP" \in Protocols /\ minet_listen(sockfd)
       \/ "TCP" \in Protocols /\ minet_accept(sockfd)
       \/ \E host \in Remotes, port \in PeerPorts : minet_connect(sockfd, host, port)
       \/ minet_read(sockfd)
       \/ \E len \in WriteSizes : minet_write(sockfd, len)
       \/ MayClose(sockfd) /\ minet_close(sockfd)
       \/ \E type \in Unserved : minet_unserved(type, sockfd)

Application ==
  /\ Len(udpq) < MaxOutstanding /\ Len(tcpq) < MaxOutstanding
  /\ ApplicationCall
  /\ UNCHANGED <<udpFifos, tcpFifos, sockVars, udpVars, tcpVars>>

CallReturn ==
  /\ Return
  /\ UNCHANGED <<udpFifos, tcpFifos, sockVars, udpVars, tcpVars>>

SockProcess == SockModuleStep /\ UNCHANGED <<call, udpVars, tcpVars>>

UdpFromMux ==
  /\ \E d \in Datagram : HandleMux(d)
  /\ UNCHANGED <<call, appFifos, tcpFifos, sockVars, tcpVars>>

UdpFromSock ==
  /\ HandleSock
  /\ UNCHANGED <<call, appFifos, tcpFifos, sockVars, tcpVars>>

TcpFromSock ==
  /\ TcpHandleSock
  /\ UNCHANGED <<call, appFifos, udpFifos, sockVars, udpVars>>

TcpFromNetwork ==
  /\ TcpNetwork
  /\ UNCHANGED <<call, appFifos, udpFifos, sockVars, udpVars>>

Next ==
  \/ Application \/ CallReturn
  \/ SockProcess
  \/ UdpFromMux \/ UdpFromSock
  \/ TcpFromSock \/ TcpFromNetwork

Spec == Init /\ [][Next]_vars

(***************************************************************************)
(* Each process runs its event loop forever, and a library call that has   *)
(* its reply returns.  Nothing is assumed of the application's next call   *)
(* or of the network.                                                      *)
(***************************************************************************)
FairSpec ==
  /\ Spec
  /\ WF_vars(CallReturn)
  /\ WF_vars(SockProcess)
  /\ WF_vars(UdpFromSock)
  /\ WF_vars(TcpFromSock)

-----------------------------------------------------------------------------
(***************************************************************************)
(* What the answer to the call in progress can be: the request on its way, *)
(* a socket that waits, a FORWARD under way, or the reply.                 *)
(***************************************************************************)
Pending == {"ACCEPT_PENDING", "CONNECT_PENDING", "READ_PENDING", "WRITE_PENDING"}

Holders ==
  {<<"request", k>> : k \in DOMAIN socklib2sock}
  \cup {<<"reply", k>> : k \in DOMAIN sock2socklib}
  \cup {<<"socket", i>> : i \in {j \in Sock : socks[j].status \in Pending}}
  \cup {<<"forward", k>> : k \in {j \in DOMAIN udpq : udpq[j].type = "FORWARD"}}

(***************************************************************************)
(* A call in progress is never held in two places and none is left over    *)
(* between calls: however answers of CLOSE requests and data come in       *)
(* between, no call is answered twice and no reply reaches a later call    *)
(* (sock_module.cc ProcessAppRequest, HandleUDPWrite, HandleUDPStatus,     *)
(* HandleTCPWrite, HandleTCPStatus).                                       *)
(***************************************************************************)
NeverAnsweredTwice ==
  IF call = NoCall THEN Holders = {} ELSE Cardinality(Holders) <= 1

(***************************************************************************)
(* A call in progress is held somewhere: its answer can still come.        *)
(***************************************************************************)
NeverForgotten == call # NoCall => Holders # {}

(***************************************************************************)
(* The answers under way to sock_module, then the requests under way to    *)
(* the transport module, numbered in one sequence; a message keeps its     *)
(* number when its answer takes its place.                                 *)
(***************************************************************************)
MessageAt(answers, requests, n) ==
  IF n <= Len(answers) THEN answers[n] ELSE requests[n - Len(answers)]

InFlight(answers, requests) ==
  {n \in 1 .. Len(answers) + Len(requests) :
     (n <= Len(answers)) <=> (MessageAt(answers, requests, n).type = "STATUS")}

(***************************************************************************)
(* STATUS messages carry no request identifier: HandleUDPStatus takes each *)
(* one for the oldest record of udpq, HandleTCPStatus for that of tcpq.    *)
(* The records and the messages under way correspond one for one, in their *)
(* order, although data and its acknowledgements travel in between: no     *)
(* answer is taken for another's or finds the queue of records empty.      *)
(***************************************************************************)
PairedBy(f, answers, requests, records) ==
  /\ \A i, j \in DOMAIN records : i < j => f[i] < f[j]
  /\ \A n \in InFlight(answers, requests) : \E k \in DOMAIN records : f[k] = n
  /\ \A k \in DOMAIN records :
       LET m == MessageAt(answers, requests, f[k])
       IN  /\ m.connection = records[k].connection
           /\ m.type \in {"STATUS", records[k].type}

Paired(answers, requests, records) ==
  \E f \in [DOMAIN records -> InFlight(answers, requests)] :
    PairedBy(f, answers, requests, records)

UdpAnswersPair == Paired(udp2sock, sock2udp, udpq)
TcpAnswersPair == Paired(tcp2sock, sock2tcp, tcpq)

(***************************************************************************)
(* At every moment, what udp_module is going to forward for when it has    *)
(* served the requests under way, are the bound UDP sockets and nothing    *)
(* else, and it forwards once for each: the entries that no request under  *)
(* way replaces or closes, and the forwards asked for (udp_module.cc       *)
(* FORWARD and CLOSE; sock_module.cc mBIND, mCONNECT, mCLOSE).             *)
(***************************************************************************)
BoundUdp ==
  {i \in Sock : socks[i].connection.protocol = "UDP"
                /\ socks[i].connection.srcport # PORT_NONE}

Requested(type) == {m.connection : m \in {r \in Range(sock2udp) : r.type = type}}

Untouched ==
  {c \in Range(clist) :
     \A d \in Requested("FORWARD") \cup Requested("CLOSE") : ~ Matches(c, d)}

ForwardsAreBoundSockets ==
  /\ Untouched \cup Requested("FORWARD") = {socks[i].connection : i \in BoundUdp}
  /\ IsInjective(clist)

(***************************************************************************)
(* Data the application gets or can get from a socket was sent to that     *)
(* socket's port, even when it was forwarded for an earlier owner of the   *)
(* descriptor or under a connection the socket has left since              *)
(* (udp_module.cc:85-96, SockStatus::FindConnection).                      *)
(***************************************************************************)
SentTo(sock, data) ==
  \A k \in DOMAIN data : data[k].toport = socks[sock].connection.srcport

DataIsForItsSocket ==
  /\ \A i \in Sock : SentTo(i, socks[i].bin)
  /\ \A k \in DOMAIN sock2socklib :
       SentTo(sock2socklib[k].sockfd, sock2socklib[k].data)

(***************************************************************************)
(* What a TCP socket delivers was sent by the host it is connected to,     *)
(* although every socket accepted on a port shares that port and the       *)
(* listening socket's record matches any peer while it is in accept()      *)
(* (SockStatus::FindConnection, sock_module.cc HandleTCPWrite).            *)
(***************************************************************************)
SentBy(sock, data) ==
  socks[sock].connection.protocol # "UDP" =>
    \A k \in DOMAIN data :
      /\ data[k].from = socks[sock].connection.dest
      /\ data[k].fromport = socks[sock].connection.destport

DataIsFromItsPeer ==
  /\ \A i \in Sock : SentBy(i, socks[i].bin)
  /\ \A k \in DOMAIN sock2socklib :
       SentBy(sock2socklib[k].sockfd, sock2socklib[k].data)

(***************************************************************************)
(* A bound UDP socket holds the reservation of its port and shares the     *)
(* port with no other open socket, TCP sockets included, although a close  *)
(* frees the descriptor and not the port (sock_module.cc ResolveSrcPort,   *)
(* mCLOSE).                                                                *)
(***************************************************************************)
PortIsExclusive ==
  \A i \in BoundUdp :
    /\ ports[socks[i].connection.srcport] = i
    /\ \A j \in Sock \ {i} :
         socks[j].connection.srcport # socks[i].connection.srcport

(***************************************************************************)
(* The socket modules implement SocketService: whatever the order in which *)
(* answers, data and requests of all modules meet in sock_module, a call   *)
(* is answered once, for its own descriptor or a new one, and no socket is *)
(* opened or closed behind the caller's back (sock_module.cc, all          *)
(* handlers; minet_socket.cc, MinetSend then MinetReceive).                *)
(***************************************************************************)
Phase ==
  CASE call = NoCall -> "idle"
    [] call # NoCall /\ sock2socklib # <<>> -> "answered"
    [] call # NoCall /\ sock2socklib = <<>> /\ socklib2sock # <<>> -> "asked"
    [] OTHER -> "waiting"

Answer ==
  IF sock2socklib = <<>> \/ Head(sock2socklib).error # "EOK" THEN -1
  ELSE Head(sock2socklib).sockfd

Service == INSTANCE SocketService WITH
  Descriptors <- Sock,
  phase <- Phase,
  fd <- call.sockfd,
  answer <- Answer,
  open <- {i \in Sock : socks[i].status # "FREE"}

ImplementsService == Service!Spec

(***************************************************************************)
(* Every call returns, except those that wait for the network: a read and, *)
(* over TCP, a connect and an accept.                                      *)
(***************************************************************************)
WaitsForNetwork ==
  {"mREAD"} \cup (IF "TCP" \in Protocols THEN {"mACCEPT", "mCONNECT"} ELSE {})

CallsReturn ==
  call # NoCall /\ call.type \notin WaitsForNetwork ~> call = NoCall

-----------------------------------------------------------------------------
(***************************************************************************)
(* What the library's documentation promises and the code does not keep;   *)
(* each is checked by a run that shows how.                                *)
(***************************************************************************)
Answering == sock2socklib = <<>> /\ sock2socklib' # <<>>

(***************************************************************************)
(* Data a read returns is taken from the socket: a loop of reads moves     *)
(* forward (minet_socket.cc:1056-1058; sock_module.cc mREAD).              *)
(***************************************************************************)
ReadsTakeData ==
  [][ /\ call.type = "mREAD" /\ Answering
      /\ socks[call.sockfd].bin # <<>>
      => socks'[call.sockfd].bin # socks[call.sockfd].bin ]_vars
===============================================================================

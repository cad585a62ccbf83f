------------------------------- MODULE SockInt -------------------------------
(***************************************************************************)
(* The interface between the socket library, sock_module and the transport *)
(* modules: connections, the two message structures and the six named      *)
(* FIFOs that carry them (libminet/sockint.h, sock.h, config.h).           *)
(*                                                                         *)
(* A FIFO is a sequence: MinetSend appends, MinetReceive takes the head.   *)
(* Its 64 KiB capacity is not modelled here; the bounds of the client and  *)
(* of the network keep every FIFO short.                                   *)
(***************************************************************************)
EXTENDS Integers, Sequences, SequencesExt, FiniteSetsExt

CONSTANTS
  NumSocks,        \* NUM_SOCKS: descriptors are 0 .. NumSocks - 1, 0 is special
  NumPorts,        \* NUM_PORTS: ports are 0 .. NumPorts - 1, 0 is PORT_NONE
  BinSize,         \* BIN_SIZE: bytes a socket's input buffer can hold
  IP_ADDRESS_ANY,  \* the wildcard address
  MyIPAddr,        \* this host's address
  Remotes,         \* the addresses of the other hosts
  PeerPorts        \* the ports of other hosts that occur

ASSUME SockIntAssumption ==
  /\ NumSocks \in Nat \ {0, 1}
  /\ NumPorts \in Nat \ {0, 1}
  /\ BinSize \in Nat
  /\ MyIPAddr # IP_ADDRESS_ANY
  /\ Remotes \cap {IP_ADDRESS_ANY, MyIPAddr} = {}
  /\ PeerPorts \subseteq 1 .. NumPorts - 1

PORT_NONE == 0
PORT_ANY == PORT_NONE

IPAddress == Remotes \cup {IP_ADDRESS_ANY, MyIPAddr}
Port == 0 .. NumPorts - 1
Sock == 0 .. NumSocks - 1

(***************************************************************************)
(* struct Connection: "source" is always this machine.                     *)
(***************************************************************************)
Protocol == {"IP", "UDP", "TCP"}

Connection ==
  [src : IPAddress, srcport : Port, dest : IPAddress, destport : Port,
   protocol : Protocol]

NoConnection ==
  [src |-> IP_ADDRESS_ANY, srcport |-> PORT_NONE,
   dest |-> IP_ADDRESS_ANY, destport |-> PORT_NONE, protocol |-> "IP"]

AddressesMatch(a, b) == a = b \/ a = IP_ADDRESS_ANY \/ b = IP_ADDRESS_ANY
PortsMatch(p, q) == p = q \/ p = PORT_ANY \/ q = PORT_ANY

\* Fault: the source port is not compared.
MatchesSourceAddress(c, d) == AddressesMatch(c.src, d.src)

MatchesSource(c, d) ==
  AddressesMatch(c.src, d.src) /\ PortsMatch(c.srcport, d.srcport)

MatchesDest(c, d) ==
  AddressesMatch(c.dest, d.dest) /\ PortsMatch(c.destport, d.destport)

Matches(c, d) ==
  /\ MatchesSource(c, d)
  /\ MatchesDest(c, d)
  /\ c.protocol = d.protocol

(***************************************************************************)
(* ConnectionList::FindMatching: the position of the first entry of a list *)
(* of connections that matches c, 0 for end().                             *)
(***************************************************************************)
FindMatching(list, c) == SelectInSeq(list, LAMBDA e : Matches(e, c))

(***************************************************************************)
(* Payload bytes carry where they come from and the port they were sent    *)
(* to; that is all the properties tell apart.                              *)
(***************************************************************************)
Byte == [from : IPAddress, fromport : Port, toport : Port]

Error == {"EOK", "ENOMATCH", "EBUF_SPACE", "ERESOURCE_UNAVAIL", "EINVALID_OP",
          "ENOT_SUPPORTED", "ECONN_FAILED"}

SrrType == {"CONNECT", "ACCEPT", "WRITE", "FORWARD", "CLOSE", "STATUS"}

SockRequestResponse ==
  [type : SrrType, connection : Connection, data : Seq(Byte), bytes : Nat,
   error : Error]

\* The STATUS that answers message s.
StatusReply(s, data, n, err) ==
  [type |-> "STATUS", connection |-> s.connection, data |-> data, bytes |-> n,
   error |-> err]

(***************************************************************************)
(* The library's requests, and sock_module's replies (mSTATUS), of which   *)
(* the library reads the descriptor, the data, the byte count and the      *)
(* error only.                                                             *)
(***************************************************************************)
UnservedType == {"mRECVFROM", "mSENDTO", "mSET_BLOCKING", "mSET_NONBLOCKING",
                 "mCAN_WRITE_NOW", "mCAN_READ_NOW"}

SlrrType == {"mSOCKET", "mBIND", "mLISTEN", "mACCEPT", "mCONNECT", "mREAD",
             "mWRITE", "mCLOSE"} \cup UnservedType

SockLibRequest ==
  [type : SlrrType, sockfd : Sock, connection : Connection, data : Seq(Byte)]

SockLibReply ==
  [sockfd : Sock, data : Seq(Byte), bytes : Nat, error : Error]

MIN(m, n) == IF m <= n THEN m ELSE n

VARIABLES
  socklib2sock,   \* FIFO of SockLibRequest
  sock2socklib,   \* FIFO of SockLibReply
  sock2udp,       \* FIFO of SockRequestResponse
  udp2sock,       \* FIFO of SockRequestResponse
  sock2tcp,       \* FIFO of SockRequestResponse
  tcp2sock        \* FIFO of SockRequestResponse

appFifos == <<socklib2sock, sock2socklib>>
udpFifos == <<sock2udp, udp2sock>>
tcpFifos == <<sock2tcp, tcp2sock>>
fifos == <<appFifos, udpFifos, tcpFifos>>

FifosTypeOK ==
  /\ socklib2sock \in Seq(SockLibRequest)
  /\ sock2socklib \in Seq(SockLibReply)
  /\ sock2udp \in Seq(SockRequestResponse)
  /\ udp2sock \in Seq(SockRequestResponse)
  /\ sock2tcp \in Seq(SockRequestResponse)
  /\ tcp2sock \in Seq(SockRequestResponse)

FifosInit ==
  /\ socklib2sock = <<>>
  /\ sock2socklib = <<>>
  /\ sock2udp = <<>>
  /\ udp2sock = <<>>
  /\ sock2tcp = <<>>
  /\ tcp2sock = <<>>
==============================================================================

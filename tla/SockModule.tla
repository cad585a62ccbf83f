------------------------------ MODULE SockModule ------------------------------
(***************************************************************************)
(* core/sock_module.cc: the process that multiplexes one application over  *)
(* the UDP and TCP modules.  One action per message handled; each is a     *)
(* whole turn of the event loop: receive, process, send.                   *)
(*                                                                         *)
(* MinetGetNextEvent serves the first readable FIFO in the order the       *)
(* connections were made: tcp, udp, (icmp, ipother), app.  A request of    *)
(* the application is read only when tcp2sock and udp2sock are empty.      *)
(***************************************************************************)
EXTENDS SockTable

VARIABLES
  socks,   \* the socket table
  ports,   \* the port table
  tcpq,    \* requests sent to tcp_module and not yet answered, oldest first
  udpq     \* requests sent to udp_module and not yet answered, oldest first

sockVars == <<socks, ports, tcpq, udpq>>

SockTypeOK ==
  /\ socks \in SockTable
  /\ ports \in PortTable
  /\ tcpq \in Seq(RequestRecord)
  /\ udpq \in Seq(RequestRecord)

SockInit ==
  /\ socks = [i \in Sock |-> FreeRecord]
  /\ ports = [p \in 1 .. NumPorts - 1 |-> 0]
  /\ tcpq = <<>>
  /\ udpq = <<>>

(***************************************************************************)
(* Sending.  SendAppMessage relays the data, count and error of a          *)
(* transport message; SendUDPRequest and SendTCPRequest file a record of   *)
(* the request next to sending it.                                         *)
(***************************************************************************)
SendAppMessage(s, sock) ==
  sock2socklib' = Append(sock2socklib,
    [sockfd |-> sock, data |-> s.data, bytes |-> s.bytes, error |-> s.error])

Request(type, c, data) ==
  [type |-> type, connection |-> c, data |-> data, bytes |-> 0, error |-> "EOK"]

RecordOf(s, sock) ==
  [type |-> s.type, connection |-> s.connection, sock |-> sock]

\* Fault: records are filed newest first.
SendUDPRequestNewestFirst(s, sock) ==
  /\ sock2udp' = Append(sock2udp, s)
  /\ udpq' = <<RecordOf(s, sock)>> \o udpq
  /\ UNCHANGED <<udp2sock, tcpFifos, tcpq>>

SendUDPRequest(s, sock) ==
  /\ sock2udp' = Append(sock2udp, s)
  /\ udpq' = Append(udpq, RecordOf(s, sock))
  /\ UNCHANGED <<udp2sock, tcpFifos, tcpq>>

\* Fault: records are filed newest first.
SendTCPRequestNewestFirst(s, sock) ==
  /\ sock2tcp' = Append(sock2tcp, s)
  /\ tcpq' = <<RecordOf(s, sock)>> \o tcpq
  /\ UNCHANGED <<tcp2sock, udpFifos, udpq>>

SendTCPRequest(s, sock) ==
  /\ sock2tcp' = Append(sock2tcp, s)
  /\ tcpq' = Append(tcpq, RecordOf(s, sock))
  /\ UNCHANGED <<tcp2sock, udpFifos, udpq>>

SendRequest(s, sock) ==
  IF s.connection.protocol = "UDP" THEN SendUDPRequest(s, sock)
                                   ELSE SendTCPRequest(s, sock)

(***************************************************************************)
(* Data for a CONNECTED socket: the prefix that fits goes to the input     *)
(* buffer and is acknowledged; nothing stored is EBUF_SPACE.               *)
(***************************************************************************)
\* Fault: the room left in the buffer is not considered.
FitsAlways(s, sock) == Len(s.data)

Fits(s, sock) == MIN(Len(s.data), BinSize - Len(socks[sock].bin))

Buffered(s, sock) ==
  [socks EXCEPT ![sock].bin = @ \o SubSeq(s.data, 1, Fits(s, sock))]

BufferReply(s, sock) ==
  StatusReply(s, <<>>, Fits(s, sock),
              IF Fits(s, sock) > 0 THEN "EOK" ELSE "EBUF_SPACE")

TakenReply(s) == StatusReply(s, <<>>, Len(s.data), "EOK")

UnmatchedReply(s) == StatusReply(s, s.data, 0, "ENOMATCH")

RefusedReply(s) == StatusReply(s, s.data, s.bytes, "EINVALID_OP")

-----------------------------------------------------------------------------
(***************************************************************************)
(* Messages from udp_module (ProcessUDPMessage).  A WRITE is always        *)
(* answered with a STATUS; a STATUS never is.  udp_module sends no other   *)
(* type, so the EINVALID_OP branch for other types is not reachable.       *)
(***************************************************************************)
UDPReceive(type) ==
  /\ tcp2sock = <<>>
  /\ udp2sock # <<>>
  /\ Head(udp2sock).type = type
  /\ udp2sock' = Tail(udp2sock)

ReplyUDP(s) == sock2udp' = Append(sock2udp, s)

\* Fault: the reader stays READ_PENDING.
DataForReaderStillPending(s, sock) ==
  /\ SendAppMessage(s, sock)
  /\ UNCHANGED socks

\* Fault: the reader's reply is not sent.
DataForReaderUnsent(s, sock) ==
  /\ socks' = SetStatus(socks, sock, "CONNECTED")
  /\ UNCHANGED sock2socklib

DataForReader(s, sock) ==
  /\ SendAppMessage(s, sock)
  /\ socks' = SetStatus(socks, sock, "CONNECTED")

DataForBuffer(s, sock) ==
  /\ socks' = Buffered(s, sock)
  /\ UNCHANGED sock2socklib

HandleUDPWrite ==
  LET s == Head(udp2sock)
      sock == FindConnection(socks, s.connection)
  IN  /\ UDPReceive("WRITE")
      /\ \/ /\ sock <= 0
            /\ ReplyUDP(UnmatchedReply(s))
            /\ UNCHANGED <<socks, sock2socklib>>
         \/ /\ sock > 0
            /\ socks[sock].status = "CONNECTED"
            /\ DataForBuffer(s, sock)
            /\ ReplyUDP(BufferReply(s, sock))
         \/ /\ sock > 0
            /\ socks[sock].status = "READ_PENDING"
            /\ DataForReader(s, sock)
            /\ ReplyUDP(TakenReply(s))
         \/ /\ sock > 0
            /\ socks[sock].status \notin {"CONNECTED", "READ_PENDING"}
            /\ ReplyUDP(RefusedReply(s))
            /\ UNCHANGED <<socks, sock2socklib>>
      /\ UNCHANGED <<ports, tcpq, udpq, tcpFifos, socklib2sock>>

(***************************************************************************)
(* A STATUS answers the oldest record of udpq.  A FORWARD or a WRITE       *)
(* completes the application's bind, connect or write and leaves the       *)
(* socket CONNECTED or BOUND; a CLOSE needs nothing more.                  *)
(***************************************************************************)
Settled(sock) ==
  LET c == socks[sock].connection
  IN  IF c.dest # IP_ADDRESS_ANY /\ c.destport # PORT_ANY
      THEN SetStatus(socks, sock, "CONNECTED")
      ELSE SetStatus(socks, sock, "BOUND")

HandleUDPStatus ==
  LET s == Head(udp2sock)
      request == Head(udpq)
      sock == request.sock
  IN  /\ UDPReceive("STATUS")
      /\ udpq # <<>>
      /\ udpq' = Tail(udpq)
      /\ \/ /\ request.type = "FORWARD"
            /\ SendAppMessage(s, sock)
            /\ socks' = IF s.error # "EOK" THEN CloseSocket(socks, sock)
                                           ELSE Settled(sock)
         \/ /\ request.type = "WRITE"
            /\ SendAppMessage(s, sock)
            /\ socks' = Settled(sock)
         \/ /\ request.type = "CLOSE"
            /\ UNCHANGED <<socks, sock2socklib>>
      /\ UNCHANGED <<ports, tcpq, sock2udp, tcpFifos, socklib2sock>>

-----------------------------------------------------------------------------
(***************************************************************************)
(* Messages from tcp_module (ProcessTCPMessage).                           *)
(***************************************************************************)
TCPReceive(type) ==
  /\ tcp2sock # <<>>
  /\ Head(tcp2sock).type = type
  /\ tcp2sock' = Tail(tcp2sock)

ReplyTCP(s) == sock2tcp' = Append(sock2tcp, s)

\* Fault: the socket is closed when the connect succeeds.
CompleteConnectClosing(s, sock) ==
  /\ SendAppMessage(s, sock)
  /\ socks' = IF s.error = "EOK" THEN CloseSocket(socks, sock)
                                 ELSE SetStatus(socks, sock, "CONNECTED")
  /\ ReplyTCP(StatusReply(s, s.data, s.bytes, "EOK"))

(***************************************************************************)
(* The outcome of a connect.  The record already holds the connection of   *)
(* the message, which matched it exactly, so copying it changes nothing.   *)
(***************************************************************************)
CompleteConnect(s, sock) ==
  /\ SendAppMessage(s, sock)
  /\ socks' = IF s.error # "EOK" THEN CloseSocket(socks, sock)
                                 ELSE SetStatus(socks, sock, "CONNECTED")
  /\ ReplyTCP(StatusReply(s, s.data, s.bytes, "EOK"))

(***************************************************************************)
(* A connection arrives for a socket in accept(): the listening socket     *)
(* goes back to LISTENING whatever happens; the new socket, if there is    *)
(* one, is CONNECTED and returned to the application.  With no free socket *)
(* only tcp_module is told.                                                *)
(***************************************************************************)
CompleteAccept(s, sock) ==
  LET listening == SetStatus(socks, sock, "LISTENING")
      newsock == FindFreeSock(listening)
      accepted == [connection |-> s.connection, bin |-> <<>>,
                   status |-> "CONNECTED", toApp |-> TRUE]
  IN  \/ /\ s.error # "EOK"
         /\ socks' = listening
         /\ SendAppMessage(s, sock)
         /\ ReplyTCP(StatusReply(s, s.data, s.bytes, "EOK"))
      \/ /\ s.error = "EOK" /\ newsock > 0
         /\ socks' = [listening EXCEPT ![newsock] = accepted]
         /\ SendAppMessage(s, newsock)
         /\ ReplyTCP(StatusReply(s, s.data, s.bytes, "EOK"))
      \/ /\ s.error = "EOK" /\ newsock <= 0
         /\ socks' = listening
         /\ ReplyTCP(StatusReply(s, s.data, s.bytes, "ERESOURCE_UNAVAIL"))
         /\ UNCHANGED sock2socklib

HandleTCPWrite ==
  LET s == Head(tcp2sock)
      sock == FindConnection(socks, s.connection)
  IN  /\ TCPReceive("WRITE")
      /\ \/ /\ sock <= 0
            /\ ReplyTCP(UnmatchedReply(s))
            /\ UNCHANGED <<socks, sock2socklib>>
         \/ /\ sock > 0
            /\ socks[sock].status = "CONNECTED"
            /\ DataForBuffer(s, sock)
            /\ ReplyTCP(BufferReply(s, sock))
         \/ /\ sock > 0
            /\ socks[sock].status = "READ_PENDING"
            /\ DataForReader(s, sock)
            /\ ReplyTCP(TakenReply(s))
         \/ /\ sock > 0
            /\ socks[sock].status = "ACCEPT_PENDING"
            /\ CompleteAccept(s, sock)
         \/ /\ sock > 0
            /\ socks[sock].status = "CONNECT_PENDING"
            /\ CompleteConnect(s, sock)
         \/ /\ sock > 0
            /\ socks[sock].status \notin
                 {"CONNECTED", "READ_PENDING", "ACCEPT_PENDING", "CONNECT_PENDING"}
            /\ ReplyTCP(RefusedReply(s))
            /\ UNCHANGED <<socks, sock2socklib>>
      /\ UNCHANGED <<ports, tcpq, udpq, udpFifos, socklib2sock>>

(***************************************************************************)
(* A STATUS answers the oldest record of tcpq.  Only a refused CONNECT or  *)
(* ACCEPT reaches the application here: an accepted one is completed by a  *)
(* later WRITE of tcp_module.                                              *)
(***************************************************************************)
HandleTCPStatus ==
  LET s == Head(tcp2sock)
      request == Head(tcpq)
      sock == request.sock
      refused == request.type \in {"CONNECT", "ACCEPT"} /\ s.error # "EOK"
  IN  /\ TCPReceive("STATUS")
      /\ tcpq # <<>>
      /\ tcpq' = Tail(tcpq)
      /\ \/ /\ refused
            /\ SendAppMessage(s, sock)
            /\ socks' = IF request.type = "CONNECT"
                        THEN CloseSocket(socks, sock)
                        ELSE SetStatus(socks, sock, "LISTENING")
         \/ /\ request.type = "WRITE"
            /\ SendAppMessage(s, sock)
            /\ socks' = SetStatus(socks, sock, "CONNECTED")
         \/ /\ request.type # "WRITE" /\ ~refused
            /\ UNCHANGED <<socks, sock2socklib>>
      /\ UNCHANGED <<ports, udpq, sock2tcp, udpFifos, socklib2sock>>

-----------------------------------------------------------------------------
(***************************************************************************)
(* Requests of the application (ProcessAppRequest).  udp_module and        *)
(* tcp_module are both configured, so the ENOT_IMPLEMENTED branches are    *)
(* not reachable.                                                          *)
(***************************************************************************)
AppRequest == Head(socklib2sock)

AppReceive(type) ==
  /\ tcp2sock = <<>> /\ udp2sock = <<>>
  /\ socklib2sock # <<>>
  /\ AppRequest.type = type
  /\ socklib2sock' = Tail(socklib2sock)

ReplyApp(sock, data, err) ==
  sock2socklib' = Append(sock2socklib,
    [sockfd |-> sock, data |-> data, bytes |-> 0, error |-> err])

\* A request answered at once, without any other module.
AnswerNow(sock, data, err) ==
  /\ ReplyApp(sock, data, err)
  /\ UNCHANGED <<tcpq, udpq, udpFifos, tcpFifos>>

Refuse(sock, err) ==
  /\ AnswerNow(sock, <<>>, err)
  /\ UNCHANGED <<socks, ports>>

\* A request passed on to udp_module or tcp_module and answered later.
Forward(s, sock) ==
  /\ SendRequest(s, sock)
  /\ UNCHANGED sock2socklib

mSOCKET ==
  LET sock == FindFreeSock(socks)
  IN  /\ AppReceive("mSOCKET")
      /\ \/ /\ sock >= 0
            /\ socks' = [socks EXCEPT ![sock] =
                 [connection |-> [@.connection EXCEPT
                                    !.protocol = AppRequest.connection.protocol],
                  bin |-> @.bin, status |-> "UNBOUND", toApp |-> TRUE]]
            /\ AnswerNow(sock, <<>>, "EOK")
            /\ UNCHANGED ports
         \/ /\ sock < 0
            /\ Refuse(AppRequest.sockfd, "ERESOURCE_UNAVAIL")

(***************************************************************************)
(* The local end a bind or an implicit bind gives a socket, and the port   *)
(* it takes.                                                               *)
(***************************************************************************)
LocalEnd(c, request, port) ==
  [src |-> IF request.src = IP_ADDRESS_ANY THEN MyIPAddr ELSE request.src,
   srcport |-> port, dest |-> c.dest, destport |-> c.destport,
   protocol |-> c.protocol]

mBIND ==
  LET sock == AppRequest.sockfd
      port == ResolveSrcPort(ports, AppRequest.connection)
      c == LocalEnd(socks[sock].connection, AppRequest.connection, port)
      allowed == socks[sock].status = "UNBOUND" /\ socks[sock].toApp
  IN  /\ AppReceive("mBIND")
      /\ \/ ~allowed /\ Refuse(sock, "EINVALID_OP")
         \/ allowed /\ port < 0 /\ Refuse(sock, "ERESOURCE_UNAVAIL")
         \/ /\ allowed /\ port >= 0
            /\ ports' = AssignPort(ports, port, sock)
            /\ \/ /\ c.protocol = "UDP"
                  /\ socks' = [socks EXCEPT ![sock].connection = c]
                  /\ Forward(Request("FORWARD", c, <<>>), sock)
               \/ /\ c.protocol # "UDP"
                  /\ socks' = [socks EXCEPT ![sock].connection = c,
                                            ![sock].status = "BOUND"]
                  /\ AnswerNow(sock, <<>>, "EOK")

mLISTEN ==
  LET sock == AppRequest.sockfd
      allowed == socks[sock].status = "BOUND" /\ socks[sock].toApp
      udp == socks[sock].connection.protocol = "UDP"
      c == [socks[sock].connection EXCEPT !.dest = IP_ADDRESS_ANY, !.destport = PORT_ANY]
  IN  /\ AppReceive("mLISTEN")
      /\ \/ ~allowed /\ Refuse(sock, "EINVALID_OP")
         \/ allowed /\ udp /\ Refuse(0, "ENOT_SUPPORTED")
         \/ /\ allowed /\ ~udp
            /\ socks' = [socks EXCEPT ![sock].connection = c,
                                      ![sock].status = "LISTENING"]
            /\ AnswerNow(sock, <<>>, "EOK")
            /\ UNCHANGED ports

\* Only a TCP socket is ever LISTENING, so the ENOT_SUPPORTED branch is unreachable.
mACCEPT ==
  LET sock == AppRequest.sockfd
      allowed == socks[sock].status = "LISTENING" /\ socks[sock].toApp
  IN  /\ AppReceive("mACCEPT")
      /\ \/ ~allowed /\ Refuse(sock, "EINVALID_OP")
         \/ /\ allowed
            /\ Forward(Request("ACCEPT", socks[sock].connection, <<>>), sock)
            /\ socks' = SetStatus(socks, sock, "ACCEPT_PENDING")
            /\ UNCHANGED ports

(***************************************************************************)
(* An UNBOUND socket is bound on the way.  A UDP socket is CONNECTED at    *)
(* once although its FORWARD is still to be answered.                      *)
(***************************************************************************)
mCONNECT ==
  LET sock == AppRequest.sockfd
      allowed == socks[sock].status \in {"UNBOUND", "BOUND"} /\ socks[sock].toApp
      bound == socks[sock].status = "BOUND"
      port == ResolveSrcPort(ports, AppRequest.connection)
      local == IF bound THEN socks[sock].connection
               ELSE LocalEnd(socks[sock].connection, AppRequest.connection, port)
      c == [local EXCEPT !.dest = AppRequest.connection.dest,
                         !.destport = AppRequest.connection.destport]
      udp == c.protocol = "UDP"
  IN  /\ AppReceive("mCONNECT")
      /\ \/ ~allowed /\ Refuse(sock, "EINVALID_OP")
         \/ allowed /\ ~bound /\ port < 0 /\ Refuse(sock, "ERESOURCE_UNAVAIL")
         \/ /\ allowed /\ (bound \/ port >= 0)
            /\ ports' = IF bound THEN ports ELSE AssignPort(ports, port, sock)
            /\ socks' = [socks EXCEPT
                 ![sock].connection = c,
                 ![sock].status = IF udp THEN "CONNECTED" ELSE "CONNECT_PENDING"]
            /\ Forward(Request(IF udp THEN "FORWARD" ELSE "CONNECT", c, <<>>), sock)

\* The input buffer is copied to the reply and keeps its contents.
mREAD ==
  LET sock == AppRequest.sockfd
      record == socks[sock]
      allowed == /\ \/ record.status = "CONNECTED"
                    \/ record.status = "BOUND" /\ record.connection.protocol = "UDP"
                 /\ record.toApp
  IN  /\ AppReceive("mREAD")
      /\ \/ ~allowed /\ Refuse(sock, "EINVALID_OP")
         \/ /\ allowed /\ record.bin # <<>>
            /\ AnswerNow(sock, record.bin, "EOK")
            /\ UNCHANGED <<socks, ports>>
         \/ /\ allowed /\ record.bin = <<>>
            /\ socks' = SetStatus(socks, sock, "READ_PENDING")
            /\ UNCHANGED <<ports, tcpq, udpq, udpFifos, tcpFifos, sock2socklib>>

mWRITE ==
  LET sock == AppRequest.sockfd
      allowed == socks[sock].status = "CONNECTED" /\ socks[sock].toApp
  IN  /\ AppReceive("mWRITE")
      /\ \/ ~allowed /\ Refuse(sock, "EINVALID_OP")
         \/ /\ allowed
            /\ Forward(Request("WRITE", socks[sock].connection, AppRequest.data), sock)
            /\ socks' = SetStatus(socks, sock, "WRITE_PENDING")
            /\ UNCHANGED ports

\* The socket is free at once; its port stays reserved.
mCLOSE ==
  LET sock == AppRequest.sockfd
  IN  /\ AppReceive("mCLOSE")
      /\ \/ ~socks[sock].toApp /\ Refuse(sock, "EINVALID_OP")
         \/ /\ socks[sock].toApp
            /\ SendRequest(Request("CLOSE", socks[sock].connection, <<>>), sock)
            /\ ReplyApp(sock, <<>>, "EOK")
            /\ socks' = CloseSocket(socks, sock)
            /\ UNCHANGED ports

\* Every other request falls to the default branch: it is answered with the
\* error it came with, EOK, and nothing is done.
UnservedRequest ==
  \E type \in UnservedType :
    /\ AppReceive(type)
    /\ Refuse(AppRequest.sockfd, "EOK")

ProcessAppRequest ==
  \/ mSOCKET \/ mBIND \/ mLISTEN \/ mACCEPT \/ mCONNECT
  \/ mREAD \/ mWRITE \/ mCLOSE \/ UnservedRequest

SockModuleStep ==
  \/ HandleTCPWrite \/ HandleTCPStatus
  \/ HandleUDPWrite \/ HandleUDPStatus
  \/ ProcessAppRequest
==============================================================================

----------------------------- MODULE DataProofs ------------------------------
(***************************************************************************)
(* Data reaches the socket it was sent to, and comes from the host that    *)
(* socket is connected to: the theorems behind DataIsForItsSocket and      *)
(* DataIsFromItsPeer of MinetSockets, for every number of sockets, ports,  *)
(* hosts and messages. Then the UDP side: without TCP every call is held   *)
(* somewhere until it is answered (NeverForgotten), and udp_module         *)
(* forwards for the bound sockets alone if the application closes only     *)
(* what it has bound (ForwardsAreBoundSockets).                            *)
(***************************************************************************)
EXTENDS CallProofs

-----------------------------------------------------------------------------
(***************************************************************************)
(* Data: where what a socket delivers comes from.                          *)
(***************************************************************************)

\* The data was sent to the local port of a connection and, but over UDP, where a
\* forward may match any peer, by its far end.
Genuine(c, data) ==
  \A k \in DOMAIN data :
    /\ data[k].toport = c.srcport
    /\ c.protocol # "UDP" => data[k].from = c.dest /\ data[k].fromport = c.destport

\* A message passed up carries data of its own connection, and none if it is an
\* answer or reports an error.
Sound(m) ==
  /\ Genuine(m.connection, m.data)
  /\ m.type = "STATUS" \/ m.error # "EOK" => m.data = <<>>

(***************************************************************************)
(* What a socket has received is for its connection.  As long as the       *)
(* connection may change, the far end of a TCP socket or the port of any,  *)
(* nothing has been received; and a UDP socket that receives has a port.   *)
(***************************************************************************)
StockOf(r) ==
  /\ Genuine(r.connection, r.bin)
  /\ r.status \in {"FREE", "UNBOUND"} => r.bin = <<>>
  /\ r.status = "BOUND" /\ r.connection.protocol # "UDP" => r.bin = <<>>
  /\ r.status \notin {"FREE", "UNBOUND"} /\ r.connection.protocol = "UDP"
       => PortOf(r) # PORT_NONE

Stocked(i) == StockOf(socks[i])

\* A forward that is asked for names a port.
NamesPort(m) == m.type = "FORWARD" => PortOf(m) # PORT_NONE

DataInv ==
  /\ \A c \in Range(clist) : c.srcport # PORT_NONE
  /\ \A m \in Range(sock2udp) : NamesPort(m)
  /\ \A m \in Range(udp2sock) \cup Range(tcp2sock) : Sound(m)
  /\ \A i \in Sock : Stocked(i)
  /\ \A r \in Range(udpq) : r.type = "FORWARD" => Named(r.sock)
  /\ \A m \in Range(sock2socklib) : Genuine(socks[m.sockfd].connection, m.data)

\* Without data there is nothing to be wrong about.
LEMMA GenuineEmpty == \A c : Genuine(c, <<>>)
BY DEF Genuine

\* A part of the data taken to what there is.
LEMMA GenuineJoined ==
  ASSUME NEW c, NEW s \in Seq(Byte), NEW t \in Seq(Byte), NEW n \in Nat, n <= Len(t),
         Genuine(c, s), Genuine(c, t)
  PROVE  Genuine(c, s \o SubSeq(t, 1, n))
<1> DEFINE part == SubSeq(t, 1, n)
           u == s \o part
<1>1. Len(s) \in Nat /\ Len(t) \in Nat /\ DOMAIN s = 1 .. Len(s) /\ DOMAIN t = 1 .. Len(t)
  OBVIOUS
<1>2. part \in Seq(Byte) /\ Len(part) = n /\ \A k \in 1 .. n : part[k] = t[k]
  BY <1>1
<1> HIDE DEF part
<1>3. /\ DOMAIN u = 1 .. Len(s) + n
      /\ \A k \in 1 .. Len(s) : u[k] = s[k]
      /\ \A k \in Len(s) + 1 .. Len(s) + n : u[k] = part[k - Len(s)]
  BY <1>1, <1>2
<1> HIDE DEF u
<1>4. ASSUME NEW k \in DOMAIN u
      PROVE  (\E j \in DOMAIN s : u[k] = s[j]) \/ (\E j \in DOMAIN t : u[k] = t[j])
  <2>1. k \in 1 .. Len(s) + n
    BY <1>3
  <2>2. CASE k <= Len(s)
    BY <1>1, <1>3, <2>1, <2>2
  <2>3. CASE k > Len(s)
    <3>1. k - Len(s) \in 1 .. n /\ k \in Len(s) + 1 .. Len(s) + n
      BY <1>1, <2>1, <2>3
    <3>2. u[k] = t[k - Len(s)]
      BY <1>2, <1>3, <3>1
    <3> QED BY <1>1, <3>1, <3>2
  <2> QED BY <1>1, <2>1, <2>2, <2>3
<1>5. Genuine(c, u)
  BY <1>4 DEF Genuine
<1> QED BY <1>5 DEF u, part

\* The sockets a step leaves alone keep what they have received.
LEMMA StockedKept ==
  ASSUME DataInv, NEW sock \in Sock, OthersKept(socks, socks', sock), StockOf(socks'[sock])
  PROVE  \A i \in Sock : StockOf(socks'[i])
BY DEF DataInv, Stocked, OthersKept

\* What a step of sock_module keeps.  It takes the messages of the transports, and
\* asks for forwards of named ports only; a connection changes when no reply is under
\* way, and a new reply is about the connection as it is then.
LEMMA DataStep ==
  ASSUME TypeOK, TypeOK', CallInv, CallInv', DataInv, UNCHANGED clist,
         Range(udp2sock') \subseteq Range(udp2sock),
         Range(tcp2sock') \subseteq Range(tcp2sock),
         \A m \in Range(sock2udp') : m \in Range(sock2udp) \/ NamesPort(m),
         \A i \in Sock : StockOf(socks'[i]),
         \A r \in Range(udpq') : r \in Range(udpq) \/ r.type # "FORWARD"
                                 \/ PortOf(socks'[r.sock]) # PORT_NONE,
         \/ /\ UNCHANGED sock2socklib
            /\ \A i \in Sock : \/ socks'[i].connection = socks[i].connection
                               \/ sock2socklib = <<>> /\ PortOf(socks'[i]) # PORT_NONE
         \/ \E m : /\ sock2socklib' = Append(sock2socklib, m)
                   /\ Genuine(socks'[m.sockfd].connection, m.data)
  PROVE  DataInv'
<1>1. /\ \A c \in Range(clist') : c.srcport # PORT_NONE
      /\ \A m \in Range(sock2udp') : NamesPort(m)
      /\ \A m \in Range(udp2sock') \cup Range(tcp2sock') : Sound(m)
      /\ \A i \in Sock : Stocked(i)'
  BY DEF DataInv, Stocked
<1>2. /\ sock2socklib \in Seq(SockLibReply) /\ sock2socklib' \in Seq(SockLibReply)
      /\ \A m \in SockLibReply : m.sockfd \in Sock
  BY DEF TypeOK, FifosTypeOK, SockLibReply
<1>3. /\ Range(sock2socklib) \subseteq SockLibReply
      /\ \A r \in Range(udpq) : r.sock \in Sock
  BY <1>2, RangeBasics, CallTypes
<1>4. CASE /\ UNCHANGED sock2socklib
           /\ \A i \in Sock : \/ socks'[i].connection = socks[i].connection
                              \/ sock2socklib = <<>> /\ PortOf(socks'[i]) # PORT_NONE
  <2>1. ASSUME NEW r \in Range(udpq'), r.type = "FORWARD"
        PROVE  PortOf(socks'[r.sock]) # PORT_NONE
    BY <1>3, <1>4, <2>1 DEF DataInv, Named, PortOf
  <2>2. ASSUME NEW m \in Range(sock2socklib')
        PROVE  Genuine(socks'[m.sockfd].connection, m.data)
    <3>1. m \in Range(sock2socklib) /\ m.sockfd \in Sock /\ sock2socklib # <<>>
      BY <1>2, <1>3, <1>4, <2>2 DEF Range
    <3> QED BY <1>4, <3>1 DEF DataInv
  <2> QED BY <1>1, <2>1, <2>2 DEF DataInv, Named
<1>5. CASE \E m : /\ sock2socklib' = Append(sock2socklib, m)
                  /\ Genuine(socks'[m.sockfd].connection, m.data)
  <2>1. PICK m : /\ sock2socklib' = Append(sock2socklib, m)
                 /\ Genuine(socks'[m.sockfd].connection, m.data)
    BY <1>5
  <2>2. m \in SockLibReply
    BY <1>2, <2>1, Appended
  <2>3. Len(sock2socklib') = Len(sock2socklib) + 1 /\ Len(sock2socklib) \in Nat
    BY <1>2, <2>1, <2>2
  <2>4. Len(sock2socklib') <= 1
    BY DEF CallInv, OneMessage
  <2>5. sock2socklib = <<>> /\ sock2socklib' # <<>>
    BY <1>2, <2>3, <2>4, EmptySeq
  <2>6. Range(sock2socklib') = {m}
    BY <2>1, <2>2, <2>5, OnlyMessage, <1>2
  <2>7. \A r \in Range(udpq') : r.type # "FORWARD"
    BY <2>5 DEF CallInv, UdpRecords, Waits
  <2> QED BY <1>1, <2>1, <2>6, <2>7 DEF DataInv
<1> QED BY <1>4, <1>5

\* A socket that has received nothing, or whose status alone changes.
LEMMA StockEmpty ==
  ASSUME NEW r, r.bin = <<>>,
         \/ r.status \in {"FREE", "UNBOUND"} \/ r.connection.protocol # "UDP"
         \/ PortOf(r) # PORT_NONE
  PROVE  StockOf(r)
BY GenuineEmpty DEF StockOf

LEMMA StockRestated ==
  ASSUME NEW r, NEW r2, StockOf(r), r2.connection = r.connection, r2.bin = r.bin,
         r.status \notin {"FREE", "UNBOUND"} \/ PortOf(r) # PORT_NONE,
         r2.status \notin {"FREE", "UNBOUND"},
         r2.status = "BOUND" => r2.connection.protocol = "UDP" \/ r.status = "BOUND"
  PROVE  StockOf(r2)
BY DEF StockOf, PortOf

\* Data put into the buffer of the socket whose connection it is for.
LEMMA BufferStocked ==
  ASSUME TypeOK, DataInv, NEW s \in SockRequestResponse, NEW sock \in Sock, Sound(s),
         socks[sock].connection = s.connection, socks[sock].status = "CONNECTED",
         DataForBuffer(s, sock)
  PROVE  /\ UNCHANGED sock2socklib
         /\ \A i \in Sock : socks'[i].connection = socks[i].connection
         /\ \A i \in Sock : StockOf(socks'[i])
<1>1. UNCHANGED sock2socklib /\ OthersKept(socks, socks', sock)
      /\ socks'[sock].status = socks[sock].status
      /\ socks'[sock].connection = socks[sock].connection
      /\ socks'[sock].bin = socks[sock].bin \o SubSeq(s.data, 1, Fits(s, sock))
  BY BufferedAt DEF DataForBuffer
<1>2. /\ socks[sock].bin \in Seq(Byte) /\ s.data \in Seq(Byte)
      /\ Fits(s, sock) \in Nat /\ Fits(s, sock) <= Len(s.data)
  BY CallTypes, MessageParts, FitsBounds DEF TypeOK, SockRecord
<1>3. StockOf(socks[sock]) /\ Genuine(s.connection, s.data)
  BY DEF DataInv, Stocked, Sound
<1>4. Genuine(s.connection, socks'[sock].bin)
  BY <1>1, <1>2, <1>3, GenuineJoined DEF StockOf
<1>5. StockOf(socks'[sock])
  BY <1>1, <1>3, <1>4 DEF StockOf, PortOf
<1> QED BY <1>1, <1>5, StockedKept DEF OthersKept

\* What is relayed to the application is as good as the message it is taken from.
LEMMA RelayedData ==
  ASSUME NEW s, NEW sock, SendAppMessage(s, sock)
  PROVE  \E m : /\ sock2socklib' = Append(sock2socklib, m)
                /\ m.sockfd = sock /\ m.data = s.data
BY DEF SendAppMessage

\* Data given to a reader.
LEMMA ReaderStocked ==
  ASSUME TypeOK, DataInv, NEW s \in SockRequestResponse, NEW sock \in Sock, Sound(s),
         socks[sock].connection = s.connection, socks[sock].status = "READ_PENDING",
         DataForReader(s, sock)
  PROVE  /\ \A i \in Sock : StockOf(socks'[i])
         /\ \E m : /\ sock2socklib' = Append(sock2socklib, m)
                   /\ Genuine(socks'[m.sockfd].connection, m.data)
<1>1. /\ OthersKept(socks, socks', sock) /\ socks'[sock].status = "CONNECTED"
      /\ socks'[sock].connection = socks[sock].connection
      /\ socks'[sock].bin = socks[sock].bin
  BY SetStatusAt DEF DataForReader, TypeOK, SockTypeOK, Status
<1>2. StockOf(socks'[sock])
  BY <1>1, StockRestated DEF DataInv, Stocked
<1>3. PICK m : /\ sock2socklib' = Append(sock2socklib, m)
               /\ m.sockfd = sock /\ m.data = s.data
  BY RelayedData DEF DataForReader
<1>4. Genuine(socks'[m.sockfd].connection, m.data)
  BY <1>1, <1>3 DEF Sound
<1> QED BY <1>1, <1>2, <1>3, <1>4, StockedKept

\* An answer to udp_module asks for nothing.
LEMMA UDPReplied ==
  ASSUME TypeOK, TypeOK', NEW s, NEW data, NEW n, NEW err,
         ReplyUDP(StatusReply(s, data, n, err))
  PROVE  \A m \in Range(sock2udp') : m \in Range(sock2udp) \/ NamesPort(m)
<1>1. PICK e : e = StatusReply(s, data, n, err)
  OBVIOUS
<1>2. e.type = "STATUS" /\ sock2udp' = Append(sock2udp, e)
  BY <1>1, StatusReplyAt DEF ReplyUDP
<1>3. sock2udp \in Seq(SockRequestResponse) /\ sock2udp' \in Seq(SockRequestResponse)
  BY DEF TypeOK, FifosTypeOK
<1>4. e \in SockRequestResponse
  BY <1>2, <1>3, Appended
<1>5. Range(sock2udp') = Range(sock2udp) \cup {e}
  BY <1>2, <1>3, <1>4, RangeAppend
<1> QED BY <1>2, <1>5 DEF NamesPort

\* The message taken from udp_module or tcp_module.
LEMMA TakenUDP ==
  ASSUME TypeOK, DataInv, NEW type, UDPReceive(type)
  PROVE  /\ Head(udp2sock) \in SockRequestResponse /\ Sound(Head(udp2sock))
         /\ Head(udp2sock).type = type /\ Range(udp2sock') \subseteq Range(udp2sock)
<1>1. /\ udp2sock # <<>> /\ udp2sock' = Tail(udp2sock) /\ Head(udp2sock).type = type
      /\ udp2sock \in Seq(SockRequestResponse)
  BY DEF UDPReceive, TypeOK, FifosTypeOK
<1>2. Head(udp2sock) \in Range(udp2sock) /\ Range(udp2sock') \subseteq Range(udp2sock)
  BY <1>1, RangeTail
<1>3. Head(udp2sock) \in SockRequestResponse
  BY UDPHead DEF TypeOK
<1> QED BY <1>1, <1>2, <1>3 DEF DataInv

LEMMA TakenTCP ==
  ASSUME TypeOK, DataInv, NEW type, TCPReceive(type)
  PROVE  /\ Head(tcp2sock) \in SockRequestResponse /\ Sound(Head(tcp2sock))
         /\ Head(tcp2sock).type = type /\ Range(tcp2sock') \subseteq Range(tcp2sock)
<1>1. /\ tcp2sock # <<>> /\ tcp2sock' = Tail(tcp2sock) /\ Head(tcp2sock).type = type
      /\ tcp2sock \in Seq(SockRequestResponse)
  BY DEF TCPReceive, TypeOK, FifosTypeOK
<1>2. Head(tcp2sock) \in Range(tcp2sock) /\ Range(tcp2sock') \subseteq Range(tcp2sock)
  BY <1>1, RangeTail
<1>3. Head(tcp2sock) \in SockRequestResponse
  BY TCPHead DEF TypeOK
<1> QED BY <1>1, <1>2, <1>3 DEF DataInv

\* A socket found for a connection has exactly that one, unless it is in accept().
LEMMA FoundExactly ==
  ASSUME TypeOK, NEW c, NEW sock, sock = FindConnection(socks, c), sock > 0
  PROVE  /\ sock \in Sock
         /\ socks[sock].status # "ACCEPT_PENDING" => socks[sock].connection = c
<1>1. sock \in Usable /\ Answers(socks[sock], c)
  BY FindConnectionRange DEF TypeOK, SockTypeOK
<1> QED BY <1>1, UsableSock DEF Answers

\* A message of sock_module that concerns no socket.
LEMMA DataUnconcerned ==
  ASSUME TypeOK, TypeOK', CallInv, CallInv', DataInv, UNCHANGED <<clist, socks, sock2socklib>>,
         Range(udpq') \subseteq Range(udpq),
         Range(udp2sock') \subseteq Range(udp2sock),
         Range(tcp2sock') \subseteq Range(tcp2sock),
         \A m \in Range(sock2udp') : m \in Range(sock2udp) \/ NamesPort(m)
  PROVE  DataInv'
<1>1. \A i \in Sock : StockOf(socks'[i])
  BY DEF DataInv, Stocked
<1> QED BY <1>1, DataStep

\* Data of udp_module.
LEMMA UDPWriteData ==
  ASSUME TypeOK, TypeOK', CallInv, CallInv', DataInv, HandleUDPWrite, UNCHANGED clist
  PROVE  DataInv'
<1>1. PICK s : s = Head(udp2sock)
  OBVIOUS
<1>2. PICK sock : sock = FindConnection(socks, s.connection)
  OBVIOUS
<1>3. s \in SockRequestResponse /\ Sound(s) /\ Range(udp2sock') \subseteq Range(udp2sock)
  BY <1>1, TakenUDP DEF HandleUDPWrite
<1>4. UNCHANGED <<clist, udpq, tcp2sock>>
  BY DEF HandleUDPWrite, tcpFifos
<1>5. \/ ReplyUDP(UnmatchedReply(s)) \/ ReplyUDP(BufferReply(s, sock))
      \/ ReplyUDP(TakenReply(s)) \/ ReplyUDP(RefusedReply(s))
  BY <1>1, <1>2 DEF HandleUDPWrite
<1>6. \A m \in Range(sock2udp') : m \in Range(sock2udp) \/ NamesPort(m)
  BY <1>5, UDPReplied DEF UnmatchedReply, BufferReply, TakenReply, RefusedReply
<1>7. CASE UNCHANGED <<socks, sock2socklib>>
  BY <1>3, <1>4, <1>6, <1>7, DataUnconcerned
<1>8. CASE sock > 0 /\ socks[sock].status = "CONNECTED" /\ DataForBuffer(s, sock)
  <2>1. sock \in Sock /\ socks[sock].connection = s.connection
    BY <1>2, <1>8, FoundExactly
  <2>2. /\ UNCHANGED sock2socklib
        /\ \A i \in Sock : socks'[i].connection = socks[i].connection
        /\ \A i \in Sock : StockOf(socks'[i])
    BY <1>3, <1>8, <2>1, BufferStocked
  <2> QED BY <1>3, <1>4, <1>6, <2>2, DataStep
<1>9. CASE sock > 0 /\ socks[sock].status = "READ_PENDING" /\ DataForReader(s, sock)
  <2>1. sock \in Sock /\ socks[sock].connection = s.connection
    BY <1>2, <1>9, FoundExactly
  <2>2. /\ \A i \in Sock : StockOf(socks'[i])
        /\ \E m : /\ sock2socklib' = Append(sock2socklib, m)
                  /\ Genuine(socks'[m.sockfd].connection, m.data)
    BY <1>3, <1>9, <2>1, ReaderStocked
  <2> QED BY <1>3, <1>4, <1>6, <2>2, DataStep
<1> QED BY <1>1, <1>2, <1>7, <1>8, <1>9 DEF HandleUDPWrite

\* A reply without data.
LEMMA EmptyReply ==
  ASSUME NEW s, NEW sock, SendAppMessage(s, sock), s.data = <<>>
  PROVE  \E m : /\ sock2socklib' = Append(sock2socklib, m)
                /\ Genuine(socks'[m.sockfd].connection, m.data)
BY RelayedData, GenuineEmpty

\* A closed socket has received nothing.
LEMMA ClosedStock ==
  ASSUME TypeOK, DataInv, NEW sock \in Sock, socks' = CloseSocket(socks, sock)
  PROVE  \A i \in Sock : StockOf(socks'[i])
<1>1. OthersKept(socks, socks', sock) /\ socks'[sock] = FreeRecord
  BY CloseSocketAt DEF TypeOK, SockTypeOK
<1>2. StockOf(socks'[sock])
  BY <1>1, StockEmpty DEF FreeRecord
<1> QED BY <1>1, <1>2, StockedKept

\* A STATUS of udp_module: the socket whose forward it answers has a port.
LEMMA UDPStatusData ==
  ASSUME TypeOK, TypeOK', CallInv, CallInv', DataInv, HandleUDPStatus, UNCHANGED clist
  PROVE  DataInv'
<1>1. PICK s : s = Head(udp2sock)
  OBVIOUS
<1>2. PICK request : request = Head(udpq)
  OBVIOUS
<1>3. PICK sock : sock = request.sock
  OBVIOUS
<1>4. /\ Sound(s) /\ s.type = "STATUS" /\ Range(udp2sock') \subseteq Range(udp2sock)
  BY <1>1, TakenUDP DEF HandleUDPStatus
<1>5. /\ UNCHANGED <<clist, sock2udp, tcp2sock>>
      /\ udpq # <<>> /\ udpq' = Tail(udpq)
  BY DEF HandleUDPStatus, tcpFifos
<1>6. /\ request \in Range(udpq) /\ Range(udpq') \subseteq Range(udpq) /\ sock \in Sock
  BY <1>2, <1>3, <1>5, CallTypes, RangeTail DEF Records
<1>7. CASE UNCHANGED <<socks, sock2socklib>>
  BY <1>4, <1>5, <1>6, <1>7, DataUnconcerned
<1>8. CASE /\ request.type \in {"FORWARD", "WRITE"} /\ SendAppMessage(s, sock)
           /\ socks' = CloseSocket(socks, sock) \/ socks' = Settled(sock)
  <2>1. \E m : /\ sock2socklib' = Append(sock2socklib, m)
               /\ Genuine(socks'[m.sockfd].connection, m.data)
    BY <1>4, <1>8, EmptyReply DEF Sound
  <2>2. \A i \in Sock : StockOf(socks'[i])
    <3>1. CASE socks' = CloseSocket(socks, sock)
      BY <1>6, <3>1, ClosedStock
    <3>2. CASE socks' = Settled(sock)
      <4>1. /\ OthersKept(socks, socks', sock)
            /\ socks'[sock].status \in {"BOUND", "CONNECTED"}
            /\ socks'[sock].connection = socks[sock].connection
            /\ socks'[sock].bin = socks[sock].bin
        BY <1>6, <3>2, SettledAt
      <4>2. OfUdp(sock) /\ (socks[sock].status = "WRITE_PENDING" \/ Named(sock))
        BY <1>3, <1>6, <1>8 DEF CallInv, UdpRecords, DataInv
      <4>3. StockOf(socks[sock])
        BY <1>6 DEF DataInv, Stocked
      <4>4. StockOf(socks'[sock])
        BY <4>1, <4>2, <4>3, StockRestated DEF OfUdp, Named
      <4> QED BY <1>6, <4>1, <4>4, StockedKept
    <3> QED BY <1>8, <3>1, <3>2
  <2> QED BY <1>4, <1>5, <1>6, <2>1, <2>2, DataStep
<1> QED BY <1>1, <1>2, <1>3, <1>7, <1>8 DEF HandleUDPStatus

\* A socket of tcp_module goes to a state in which it is not bound again.
LEMMA StatusStock ==
  ASSUME TypeOK, DataInv, NEW sock \in Sock, socks[sock].status \notin {"FREE", "UNBOUND"},
         NEW stat \in Status \ {"FREE", "UNBOUND", "BOUND"}, NEW table,
         table = SetStatus(socks, sock, stat)
  PROVE  /\ OthersKept(socks, table, sock)
         /\ table[sock].connection = socks[sock].connection
         /\ StockOf(table[sock])
<1>1. /\ OthersKept(socks, table, sock) /\ table[sock].status = stat
      /\ table[sock].connection = socks[sock].connection
      /\ table[sock].bin = socks[sock].bin
  BY SetStatusAt DEF TypeOK, SockTypeOK
<1>2. StockOf(socks[sock])
  BY DEF DataInv, Stocked
<1> QED BY <1>1, <1>2, StockRestated

\* The outcome of a connect.
LEMMA ConnectData ==
  ASSUME TypeOK, DataInv, NEW s, NEW sock \in Sock, Sound(s),
         socks[sock].connection = s.connection, socks[sock].status = "CONNECT_PENDING",
         CompleteConnect(s, sock)
  PROVE  /\ \A i \in Sock : StockOf(socks'[i])
         /\ \E m : /\ sock2socklib' = Append(sock2socklib, m)
                   /\ Genuine(socks'[m.sockfd].connection, m.data)
<1>1. SendAppMessage(s, sock)
  BY DEF CompleteConnect
<1>2. CASE s.error # "EOK"
  <2>1. socks' = CloseSocket(socks, sock) /\ s.data = <<>>
    BY <1>2 DEF CompleteConnect, Sound
  <2> QED BY <1>1, <2>1, ClosedStock, EmptyReply
<1>3. CASE s.error = "EOK"
  <2>1. socks' = SetStatus(socks, sock, "CONNECTED")
    BY <1>3 DEF CompleteConnect
  <2>2. /\ OthersKept(socks, socks', sock) /\ StockOf(socks'[sock])
        /\ socks'[sock].connection = socks[sock].connection
    BY <2>1, StatusStock DEF Status
  <2>3. PICK m : /\ sock2socklib' = Append(sock2socklib, m)
                 /\ m.sockfd = sock /\ m.data = s.data
    BY <1>1, RelayedData
  <2>4. Genuine(socks'[m.sockfd].connection, m.data)
    BY <2>2, <2>3 DEF Sound
  <2> QED BY <2>2, <2>3, <2>4, StockedKept
<1> QED BY <1>2, <1>3

\* A new connection: its socket has received nothing, and is of TCP or has a port.
LEMMA AcceptData ==
  ASSUME TypeOK, DataInv, NEW s \in SockRequestResponse, NEW sock \in Sock, Sound(s),
         PortOf(s) # PORT_NONE,
         socks[sock].status = "ACCEPT_PENDING", CompleteAccept(s, sock)
  PROVE  /\ \A i \in Sock : StockOf(socks'[i])
         /\ \/ /\ UNCHANGED sock2socklib
               /\ \A i \in Sock : socks'[i].connection = socks[i].connection
            \/ \E m : /\ sock2socklib' = Append(sock2socklib, m)
                      /\ Genuine(socks'[m.sockfd].connection, m.data)
<1>1. PICK listening : listening = SetStatus(socks, sock, "LISTENING")
  OBVIOUS
<1>2. PICK newsock : newsock = FindFreeSock(listening)
  OBVIOUS
<1>3. PICK accepted : accepted = [connection |-> s.connection, bin |-> <<>>,
                                  status |-> "CONNECTED", toApp |-> TRUE]
  OBVIOUS
<1>4. /\ OthersKept(socks, listening, sock) /\ StockOf(listening[sock])
      /\ listening[sock].connection = socks[sock].connection
  BY <1>1, StatusStock DEF Status
<1>5. \A i \in Sock : /\ listening[i].connection = socks[i].connection
                      /\ StockOf(listening[i])
  BY <1>4 DEF OthersKept, DataInv, Stocked
<1>6. CASE /\ s.error # "EOK" /\ socks' = listening /\ SendAppMessage(s, sock)
  <2>1. s.data = <<>>
    BY <1>6 DEF Sound
  <2> QED BY <1>5, <1>6, <2>1, EmptyReply
<1>7. CASE /\ newsock > 0 /\ socks' = [listening EXCEPT ![newsock] = accepted]
           /\ SendAppMessage(s, newsock)
  <2>1. listening \in SockTable
    BY <1>1, SetStatusType DEF TypeOK, SockTypeOK, Status
  <2>2. newsock \in Sock
    BY <1>2, <1>7, <2>1, FindFreeSockRange, UsableSock
  <2>3. /\ socks'[newsock] = accepted
        /\ \A i \in Sock : i # newsock => socks'[i] = listening[i]
    BY <1>7, <2>1, <2>2 DEF SockTable
  <2>4. StockOf(accepted)
    BY <1>3, StockEmpty DEF PortOf
  <2>5. PICK m : /\ sock2socklib' = Append(sock2socklib, m)
                 /\ m.sockfd = newsock /\ m.data = s.data
    BY <1>7, RelayedData
  <2>6. Genuine(socks'[m.sockfd].connection, m.data)
    BY <1>3, <2>3, <2>5 DEF Sound
  <2> QED BY <1>5, <2>3, <2>4, <2>5, <2>6
<1>8. CASE socks' = listening /\ UNCHANGED sock2socklib
  BY <1>5, <1>8
<1> QED BY <1>1, <1>2, <1>3, <1>6, <1>7, <1>8 DEF CompleteAccept

\* Data of tcp_module, a connection or the outcome of a connect.
LEMMA TCPWriteData ==
  ASSUME TypeOK, TypeOK', CallInv, CallInv', PortInv, DataInv, HandleTCPWrite,
         UNCHANGED clist
  PROVE  DataInv'
<1>1. PICK s : s = Head(tcp2sock)
  OBVIOUS
<1>2. PICK sock : sock = FindConnection(socks, s.connection)
  OBVIOUS
<1>3. /\ s \in SockRequestResponse /\ Sound(s) /\ s.type = "WRITE"
      /\ Range(tcp2sock') \subseteq Range(tcp2sock)
  BY <1>1, TakenTCP DEF HandleTCPWrite
<1>4. UNCHANGED <<clist, udpq, udp2sock, sock2udp>>
  BY DEF HandleTCPWrite, udpFifos
<1>5. CASE UNCHANGED <<socks, sock2socklib>>
  BY <1>3, <1>4, <1>5, DataUnconcerned
<1>6. CASE sock > 0 /\ socks[sock].status = "CONNECTED" /\ DataForBuffer(s, sock)
  <2>1. sock \in Sock /\ socks[sock].connection = s.connection
    BY <1>2, <1>6, FoundExactly
  <2>2. /\ UNCHANGED sock2socklib
        /\ \A i \in Sock : socks'[i].connection = socks[i].connection
        /\ \A i \in Sock : StockOf(socks'[i])
    BY <1>3, <1>6, <2>1, BufferStocked
  <2> QED BY <1>3, <1>4, <2>2, DataStep
<1>7. CASE sock > 0 /\ socks[sock].status = "READ_PENDING" /\ DataForReader(s, sock)
  <2>1. sock \in Sock /\ socks[sock].connection = s.connection
    BY <1>2, <1>7, FoundExactly
  <2>2. /\ \A i \in Sock : StockOf(socks'[i])
        /\ \E m : /\ sock2socklib' = Append(sock2socklib, m)
                  /\ Genuine(socks'[m.sockfd].connection, m.data)
    BY <1>3, <1>7, <2>1, ReaderStocked
  <2> QED BY <1>3, <1>4, <2>2, DataStep
<1>8. CASE sock > 0 /\ socks[sock].status = "CONNECT_PENDING" /\ CompleteConnect(s, sock)
  <2>1. sock \in Sock /\ socks[sock].connection = s.connection
    BY <1>2, <1>8, FoundExactly
  <2>2. /\ \A i \in Sock : StockOf(socks'[i])
        /\ \E m : /\ sock2socklib' = Append(sock2socklib, m)
                  /\ Genuine(socks'[m.sockfd].connection, m.data)
    BY <1>3, <1>8, <2>1, ConnectData
  <2> QED BY <1>3, <1>4, <2>2, DataStep
<1>9. CASE sock > 0 /\ socks[sock].status = "ACCEPT_PENDING" /\ CompleteAccept(s, sock)
  <2>1. sock \in Sock
    BY <1>2, <1>9, FoundExactly
  <2>2. PortOf(s) # PORT_NONE
    <3>1. tcp2sock # <<>> /\ tcp2sock \in Seq(SockRequestResponse)
      BY DEF HandleTCPWrite, TCPReceive, TypeOK, FifosTypeOK
    <3>2. s \in Range(tcp2sock)
      BY <1>1, <3>1, RangeTail
    <3> QED BY <1>3, <3>2 DEF PortInv, Traffic
  <2>3. /\ \A i \in Sock : StockOf(socks'[i])
        /\ \/ /\ UNCHANGED sock2socklib
              /\ \A i \in Sock : socks'[i].connection = socks[i].connection
           \/ \E m : /\ sock2socklib' = Append(sock2socklib, m)
                     /\ Genuine(socks'[m.sockfd].connection, m.data)
    BY <1>3, <1>9, <2>1, <2>2, AcceptData
  <2> QED BY <1>3, <1>4, <2>3, DataStep
<1> QED BY <1>1, <1>2, <1>5, <1>6, <1>7, <1>8, <1>9 DEF HandleTCPWrite

\* A STATUS of tcp_module: a refused accept goes back to listening.
LEMMA TCPStatusData ==
  ASSUME TypeOK, TypeOK', CallInv, CallInv', TcpAnswersPair, Doubts, DataInv,
         HandleTCPStatus, UNCHANGED clist
  PROVE  DataInv'
<1>1. PICK s : s = Head(tcp2sock)
  OBVIOUS
<1>2. PICK request : request = Head(tcpq)
  OBVIOUS
<1>3. PICK sock : sock = request.sock
  OBVIOUS
<1>4. /\ Sound(s) /\ s.type = "STATUS" /\ Range(tcp2sock') \subseteq Range(tcp2sock)
      /\ tcp2sock # <<>>
  BY <1>1, TakenTCP DEF HandleTCPStatus, TCPReceive
<1>5. UNCHANGED <<clist, udpq, udp2sock, sock2udp>> /\ tcpq # <<>>
  BY DEF HandleTCPStatus, udpFifos
<1>6. request \in Range(tcpq) /\ sock \in Sock
  BY <1>2, <1>3, <1>5, CallTypes, RangeTail DEF Records
<1>7. CASE UNCHANGED <<socks, sock2socklib>>
  BY <1>4, <1>5, <1>7, DataUnconcerned
<1>8. ASSUME SendAppMessage(s, sock), \A i \in Sock : StockOf(socks'[i])
      PROVE  DataInv'
  <2>1. \E m : /\ sock2socklib' = Append(sock2socklib, m)
               /\ Genuine(socks'[m.sockfd].connection, m.data)
    BY <1>4, <1>8, EmptyReply DEF Sound
  <2> QED BY <1>4, <1>5, <1>8, <2>1, DataStep
<1>9. CASE /\ request.type \in {"CONNECT", "ACCEPT"} /\ s.error # "EOK"
           /\ SendAppMessage(s, sock)
           /\ \/ socks' = CloseSocket(socks, sock)
              \/ socks' = SetStatus(socks, sock, "LISTENING")
  <2>1. CASE socks' = CloseSocket(socks, sock)
    BY <1>6, <1>8, <1>9, <2>1, ClosedStock
  <2>2. CASE socks' = SetStatus(socks, sock, "LISTENING")
    <3>1. socks[sock].status \in {"CONNECT_PENDING", "ACCEPT_PENDING"}
      BY <1>1, <1>2, <1>3, <1>4, <1>9, RefusalFindsSocket
    <3>2. OthersKept(socks, socks', sock) /\ StockOf(socks'[sock])
      BY <1>6, <2>2, <3>1, StatusStock DEF Status
    <3> QED BY <1>6, <1>8, <1>9, <3>2, StockedKept
  <2> QED BY <1>9, <2>1, <2>2
<1>10. CASE /\ request.type = "WRITE" /\ SendAppMessage(s, sock)
            /\ socks' = SetStatus(socks, sock, "CONNECTED")
  <2>1. socks[sock].status = "WRITE_PENDING"
    BY <1>3, <1>6, <1>10 DEF CallInv, TcpRecords
  <2>2. OthersKept(socks, socks', sock) /\ StockOf(socks'[sock])
    BY <1>6, <1>10, <2>1, StatusStock DEF Status
  <2> QED BY <1>6, <1>8, <1>10, <2>2, StockedKept
<1> QED BY <1>1, <1>2, <1>3, <1>7, <1>9, <1>10 DEF HandleTCPStatus

\* A request passed on to a transport, with its record.
LEMMA RequestData ==
  ASSUME TypeOK, TypeOK', NEW s, NEW sock, SendRequest(s, sock), NamesPort(s),
         s.type = "FORWARD" => socks'[sock].connection = s.connection
  PROVE  /\ \A m \in Range(sock2udp') : m \in Range(sock2udp) \/ NamesPort(m)
         /\ \A r \in Range(udpq') : r \in Range(udpq) \/ r.type # "FORWARD"
                                    \/ PortOf(socks'[r.sock]) # PORT_NONE
         /\ UNCHANGED <<udp2sock, tcp2sock>>
<1>1. CASE SendTCPRequest(s, sock)
  BY <1>1 DEF SendTCPRequest, udpFifos
<1>2. CASE SendUDPRequest(s, sock)
  <2>1. PICK record : record = RecordOf(s, sock)
    OBVIOUS
  <2>2. /\ sock2udp' = Append(sock2udp, s) /\ udpq' = Append(udpq, record)
        /\ UNCHANGED <<udp2sock, tcp2sock>>
    BY <1>2, <2>1 DEF SendUDPRequest, tcpFifos
  <2>3. record.type = s.type /\ record.sock = sock
    BY <2>1, RequestAt
  <2>4. /\ sock2udp \in Seq(SockRequestResponse) /\ sock2udp' \in Seq(SockRequestResponse)
        /\ udpq \in Seq(RequestRecord) /\ udpq' \in Seq(RequestRecord)
    BY DEF TypeOK, FifosTypeOK, SockTypeOK
  <2>5. s \in SockRequestResponse /\ record \in RequestRecord
    BY <2>2, <2>4, Appended
  <2>6. Range(sock2udp') = Range(sock2udp) \cup {s} /\ Range(udpq') = Range(udpq) \cup {record}
    BY <2>2, <2>4, <2>5, RangeAppend
  <2>7. record.type = "FORWARD" => PortOf(socks'[record.sock]) # PORT_NONE
    BY <2>3 DEF NamesPort, PortOf
  <2> QED BY <2>2, <2>6, <2>7
<1> QED BY <1>1, <1>2 DEF SendRequest

\* A request of the application that is passed on: no reply is under way.
LEMMA DataForwarded ==
  ASSUME TypeOK, TypeOK', CallInv, CallInv', DataInv, NEW type, AppReceive(type),
         NEW s, NEW sock, Forward(s, sock), NamesPort(s), UNCHANGED clist,
         s.type = "FORWARD" => socks'[sock].connection = s.connection,
         \A i \in Sock : /\ StockOf(socks'[i])
                         /\ \/ socks'[i].connection = socks[i].connection
                            \/ PortOf(socks'[i]) # PORT_NONE
  PROVE  DataInv'
<1>1. SendRequest(s, sock) /\ UNCHANGED sock2socklib
  BY DEF Forward
<1>2. sock2socklib = <<>>
  BY RequestTaken
<1>3. /\ \A m \in Range(sock2udp') : m \in Range(sock2udp) \/ NamesPort(m)
      /\ \A r \in Range(udpq') : r \in Range(udpq) \/ r.type # "FORWARD"
                                 \/ PortOf(socks'[r.sock]) # PORT_NONE
      /\ UNCHANGED <<udp2sock, tcp2sock>>
  BY <1>1, RequestData
<1> QED BY <1>1, <1>2, <1>3, DataStep

\* A request of the application that is answered at once.
LEMMA DataServed ==
  ASSUME TypeOK, TypeOK', CallInv, CallInv', DataInv, NEW d, NEW data, NEW err,
         AnswerNow(d, data, err), UNCHANGED clist,
         \A i \in Sock : StockOf(socks'[i]), Genuine(socks'[d].connection, data)
  PROVE  DataInv'
<1>1. PICK m : /\ sock2socklib' = Append(sock2socklib, m) /\ m.sockfd = d /\ m.data = data
  BY DEF AnswerNow, ReplyApp
<1>2. UNCHANGED <<udpq, sock2udp, udp2sock, tcp2sock>>
  BY DEF AnswerNow, udpFifos, tcpFifos
<1>3. Genuine(socks'[m.sockfd].connection, m.data)
  BY <1>1
<1> QED BY <1>1, <1>2, <1>3, DataStep

LEMMA RefusedData ==
  ASSUME TypeOK, TypeOK', CallInv, CallInv', DataInv, NEW d, NEW err, Refuse(d, err),
         UNCHANGED clist
  PROVE  DataInv'
<1>1. AnswerNow(d, <<>>, err) /\ UNCHANGED socks
  BY DEF Refuse
<1>2. \A i \in Sock : StockOf(socks'[i])
  BY <1>1 DEF DataInv, Stocked
<1> QED BY <1>1, <1>2, GenuineEmpty, DataServed

\* mSOCKET.
LEMMA SocketData ==
  ASSUME TypeOK, TypeOK', CallInv, CallInv', DataInv, mSOCKET, UNCHANGED clist
  PROVE  DataInv'
<1>1. CASE Refuse(AppRequest.sockfd, "ERESOURCE_UNAVAIL")
  BY <1>1, RefusedData
<1>2. CASE ~ Refuse(AppRequest.sockfd, "ERESOURCE_UNAVAIL")
  <2>1. PICK sock : sock = FindFreeSock(socks)
    OBVIOUS
  <2>2. PICK record : /\ record.status = "UNBOUND" /\ record.bin = socks[sock].bin
                      /\ socks' = [socks EXCEPT ![sock] = record]
    BY <1>2, <2>1 DEF mSOCKET
  <2>3. sock >= 0 /\ AnswerNow(sock, <<>>, "EOK")
    BY <1>2, <2>1 DEF mSOCKET
  <2>4. socks \in SockTable
    BY DEF TypeOK, SockTypeOK
  <2>5. sock \in Sock /\ socks[sock].status = "FREE"
    BY <2>1, <2>3, <2>4, FindFreeSockRange, UsableSock
  <2>6. OthersKept(socks, socks', sock) /\ socks'[sock] = record
    BY <2>2, <2>4, <2>5 DEF OthersKept, SockTable
  <2>7. record.bin = <<>>
    BY <2>2, <2>5 DEF DataInv, Stocked, StockOf
  <2>8. StockOf(socks'[sock])
    BY <2>2, <2>6, <2>7, StockEmpty
  <2> QED BY <2>3, <2>5, <2>6, <2>8, StockedKept, GenuineEmpty, DataServed
<1> QED BY <1>1, <1>2

\* mLISTEN: a bound TCP socket has received nothing yet.
LEMMA ListenData ==
  ASSUME TypeOK, TypeOK', CallInv, CallInv', DataInv, mLISTEN, UNCHANGED clist
  PROVE  DataInv'
<1>1. PICK sock \in Sock : sock = AppRequest.sockfd
  BY AppHead DEF mLISTEN, TypeOK
<1>2. CASE \E d, err : Refuse(d, err)
  BY <1>2, RefusedData
<1>3. CASE ~ \E d, err : Refuse(d, err)
  <2>1. PICK c : c = [socks[sock].connection EXCEPT !.dest = IP_ADDRESS_ANY,
                                                    !.destport = PORT_ANY]
    OBVIOUS
  <2>2. /\ socks[sock].status = "BOUND" /\ socks[sock].connection.protocol # "UDP"
        /\ socks' = [socks EXCEPT ![sock].connection = c, ![sock].status = "LISTENING"]
        /\ AnswerNow(sock, <<>>, "EOK")
    BY <1>1, <1>3, <2>1 DEF mLISTEN
  <2>3. socks \in SockTable /\ socks[sock] \in SockRecord
    BY TableRecord DEF TypeOK, SockTypeOK
  <2>4. /\ OthersKept(socks, socks', sock) /\ socks'[sock].connection = c
        /\ socks'[sock].status = "LISTENING" /\ socks'[sock].bin = socks[sock].bin
    BY <2>2, <2>3 DEF OthersKept, SockTable, SockRecord
  <2>5. c.protocol = socks[sock].connection.protocol
    BY <2>1, CallTypes DEF Connection
  <2>6. socks[sock].bin = <<>>
    BY <2>2 DEF DataInv, Stocked, StockOf
  <2>7. StockOf(socks'[sock])
    BY <2>2, <2>4, <2>5, <2>6, StockEmpty
  <2> QED BY <2>2, <2>4, <2>7, StockedKept, GenuineEmpty, DataServed
<1> QED BY <1>2, <1>3

\* mREAD: what is in the buffer, or a wait.
LEMMA ReadData ==
  ASSUME TypeOK, TypeOK', CallInv, CallInv', DataInv, mREAD, UNCHANGED clist
  PROVE  DataInv'
<1>1. PICK sock \in Sock : sock = AppRequest.sockfd
  BY AppHead DEF mREAD, TypeOK
<1>2. CASE \E err : Refuse(sock, err)
  BY <1>2, RefusedData
<1>3. CASE AnswerNow(sock, socks[sock].bin, "EOK") /\ UNCHANGED socks
  <2>1. \A i \in Sock : StockOf(socks'[i])
    BY <1>3 DEF DataInv, Stocked
  <2>2. PICK bin : bin = socks[sock].bin
    OBVIOUS
  <2>3. Genuine(socks'[sock].connection, bin) /\ AnswerNow(sock, bin, "EOK")
    BY <1>3, <2>1, <2>2 DEF StockOf
  <2> QED BY <2>1, <2>3, DataServed
<1>4. CASE /\ socks[sock].status \in {"CONNECTED", "BOUND"}
           /\ socks' = SetStatus(socks, sock, "READ_PENDING")
           /\ UNCHANGED <<tcpq, udpq, udpFifos, tcpFifos, sock2socklib>>
  <2>1. /\ OthersKept(socks, socks', sock) /\ StockOf(socks'[sock])
        /\ socks'[sock].connection = socks[sock].connection
    BY <1>4, StatusStock DEF Status
  <2>2. UNCHANGED <<udp2sock, sock2udp, tcp2sock>>
    BY <1>4 DEF udpFifos, tcpFifos
  <2>3. \A i \in Sock : socks'[i].connection = socks[i].connection
    BY <2>1 DEF OthersKept
  <2>4. \A i \in Sock : StockOf(socks'[i])
    BY <2>1, StockedKept
  <2> QED BY <1>4, <2>2, <2>3, <2>4, DataStep
<1> QED BY <1>1, <1>2, <1>3, <1>4 DEF mREAD

\* mACCEPT and mWRITE put their socket to wait.
LEMMA WaitData ==
  ASSUME TypeOK, TypeOK', CallInv, CallInv', DataInv, NEW type, AppReceive(type),
         NEW s, NEW sock \in Sock, Forward(s, sock), s.type # "FORWARD",
         socks[sock].status \notin {"FREE", "UNBOUND"},
         NEW stat \in Status \ {"FREE", "UNBOUND", "BOUND"},
         socks' = SetStatus(socks, sock, stat), UNCHANGED clist
  PROVE  DataInv'
<1>1. /\ OthersKept(socks, socks', sock) /\ StockOf(socks'[sock])
      /\ socks'[sock].connection = socks[sock].connection
  BY StatusStock
<1>2. \A i \in Sock : StockOf(socks'[i]) /\ socks'[i].connection = socks[i].connection
  BY <1>1, StockedKept DEF OthersKept
<1>3. NamesPort(s)
  BY DEF NamesPort
<1> QED BY <1>2, <1>3, DataForwarded

LEMMA AcceptWriteData ==
  ASSUME TypeOK, TypeOK', CallInv, CallInv', DataInv, mACCEPT \/ mWRITE, UNCHANGED clist
  PROVE  DataInv'
<1>1. PICK type : AppReceive(type)
  BY DEF mACCEPT, mWRITE
<1>2. PICK sock \in Sock : sock = AppRequest.sockfd
  BY <1>1, AppHead DEF TypeOK
<1>3. CASE \E err : Refuse(sock, err)
  BY <1>3, RefusedData
<1>4. CASE ~ \E err : Refuse(sock, err)
  <2>1. CASE mACCEPT
    <3>1. PICK s : s = Request("ACCEPT", socks[sock].connection, <<>>)
      OBVIOUS
    <3>2. /\ socks[sock].status = "LISTENING" /\ Forward(s, sock)
          /\ socks' = SetStatus(socks, sock, "ACCEPT_PENDING")
      BY <1>2, <1>4, <2>1, <3>1 DEF mACCEPT
    <3>3. s.type = "ACCEPT"
      BY <3>1, RequestAt
    <3> QED BY <1>1, <3>2, <3>3, WaitData DEF Status
  <2>2. CASE mWRITE
    <3>1. PICK s : s = Request("WRITE", socks[sock].connection, AppRequest.data)
      OBVIOUS
    <3>2. /\ socks[sock].status = "CONNECTED" /\ Forward(s, sock)
          /\ socks' = SetStatus(socks, sock, "WRITE_PENDING")
      BY <1>2, <1>4, <2>2, <3>1 DEF mWRITE
    <3>3. s.type = "WRITE"
      BY <3>1, RequestAt
    <3> QED BY <1>1, <3>2, <3>3, WaitData DEF Status
  <2> QED BY <2>1, <2>2
<1> QED BY <1>3, <1>4

\* mBIND gives a port to a socket that has received nothing.
LEMMA BindData ==
  ASSUME TypeOK, TypeOK', CallInv, CallInv', PortInv, DataInv, mBIND, UNCHANGED clist
  PROVE  DataInv'
<1>1. AppReceive("mBIND")
  BY DEF mBIND
<1>2. PICK sock \in Sock : sock = AppRequest.sockfd
  BY <1>1, RequestTaken
<1>3. CASE \E err : Refuse(sock, err)
  BY <1>3, RefusedData
<1>4. CASE ~ \E err : Refuse(sock, err)
  <2>1. PICK port : port = ResolveSrcPort(ports, AppRequest.connection)
    OBVIOUS
  <2>2. PICK c : c = LocalEnd(socks[sock].connection, AppRequest.connection, port)
    OBVIOUS
  <2>3. /\ socks[sock].status = "UNBOUND" /\ port >= 0
        /\ ports' = AssignPort(ports, port, sock)
        /\ \/ /\ c.protocol = "UDP"
              /\ socks' = [socks EXCEPT ![sock].connection = c]
              /\ Forward(Request("FORWARD", c, <<>>), sock)
           \/ /\ c.protocol # "UDP"
              /\ socks' = [socks EXCEPT ![sock].connection = c, ![sock].status = "BOUND"]
              /\ AnswerNow(sock, <<>>, "EOK")
    BY <1>2, <1>4, <2>1, <2>2 DEF mBIND
  <2>4. c.srcport = port
    BY <2>2, LocalEndAt
  <2>5. AppRequest.connection \in Connection
    BY <1>1, RequestTaken
  <2>6. port \in Port \ {PORT_NONE}
    BY <2>1, <2>3, <2>5, PortResolved
  <2>7. socks \in SockTable /\ socks[sock] \in SockRecord
    BY TableRecord DEF TypeOK, SockTypeOK
  <2>8. /\ OthersKept(socks, socks', sock) /\ socks'[sock].connection = c
        /\ socks'[sock].bin = socks[sock].bin
    BY <2>3, <2>7 DEF OthersKept, SockTable, SockRecord
  <2>9. socks'[sock].bin = <<>>
    BY <2>3, <2>8 DEF DataInv, Stocked, StockOf
  <2>10. PortOf(socks'[sock]) # PORT_NONE
    BY <2>4, <2>6, <2>8 DEF PortOf
  <2>11. StockOf(socks'[sock])
    BY <2>9, <2>10, StockEmpty
  <2>12. \A i \in Sock : StockOf(socks'[i])
    BY <2>8, <2>11, StockedKept
  <2>13. CASE AnswerNow(sock, <<>>, "EOK")
    BY <2>12, <2>13, GenuineEmpty, DataServed
  <2>14. CASE Forward(Request("FORWARD", c, <<>>), sock)
    <3>1. PICK s : s = Request("FORWARD", c, <<>>)
      OBVIOUS
    <3>2. s.connection = c /\ NamesPort(s) /\ Forward(s, sock)
      BY <2>4, <2>6, <2>14, <3>1, RequestAt DEF NamesPort, PortOf
    <3>3. \A i \in Sock : \/ socks'[i].connection = socks[i].connection
                          \/ PortOf(socks'[i]) # PORT_NONE
      BY <2>8, <2>10 DEF OthersKept
    <3> QED BY <1>1, <2>8, <2>12, <3>2, <3>3, DataForwarded
  <2> QED BY <2>3, <2>13, <2>14
<1> QED BY <1>3, <1>4

\* mCONNECT names the far end of a TCP socket that has received nothing, or that of a
\* UDP socket, whose port stays.
LEMMA ConnectingData ==
  ASSUME TypeOK, TypeOK', CallInv, CallInv', PortInv, DataInv, mCONNECT, UNCHANGED clist
  PROVE  DataInv'
<1>1. AppReceive("mCONNECT")
  BY DEF mCONNECT
<1>2. PICK sock \in Sock : sock = AppRequest.sockfd
  BY <1>1, RequestTaken
<1>3. CASE \E err : Refuse(sock, err)
  BY <1>3, RefusedData
<1>4. CASE ~ \E err : Refuse(sock, err)
  <2>1. PICK port : port = ResolveSrcPort(ports, AppRequest.connection)
    OBVIOUS
  <2>2. PICK local : local = IF socks[sock].status = "BOUND" THEN socks[sock].connection
                             ELSE LocalEnd(socks[sock].connection, AppRequest.connection, port)
    OBVIOUS
  <2>3. PICK c : c = [local EXCEPT !.dest = AppRequest.connection.dest,
                                   !.destport = AppRequest.connection.destport]
    OBVIOUS
  <2>4. /\ socks[sock].status \in {"UNBOUND", "BOUND"}
        /\ socks[sock].status = "BOUND" \/ port >= 0
        /\ ports' = IF socks[sock].status = "BOUND" THEN ports ELSE AssignPort(ports, port, sock)
        /\ socks' = [socks EXCEPT ![sock].connection = c,
             ![sock].status = IF c.protocol = "UDP" THEN "CONNECTED" ELSE "CONNECT_PENDING"]
        /\ Forward(Request(IF c.protocol = "UDP" THEN "FORWARD" ELSE "CONNECT", c, <<>>), sock)
    BY <1>2, <1>4, <2>1, <2>2, <2>3 DEF mCONNECT
  <2>5. PICK s : s = Request(IF c.protocol = "UDP" THEN "FORWARD" ELSE "CONNECT", c, <<>>)
    OBVIOUS
  <2>6. /\ s.type = IF c.protocol = "UDP" THEN "FORWARD" ELSE "CONNECT"
        /\ s.connection = c /\ Forward(s, sock)
    BY <2>4, <2>5, RequestAt
  <2>7. /\ socks \in SockTable /\ socks[sock] \in SockRecord
        /\ socks[sock].connection \in Connection
    BY TableRecord DEF TypeOK, SockTypeOK, SockRecord
  <2>8. PICK stat : stat = IF c.protocol = "UDP" THEN "CONNECTED" ELSE "CONNECT_PENDING"
    OBVIOUS
  <2>9. /\ OthersKept(socks, socks', sock) /\ socks'[sock].connection = c
        /\ socks'[sock].status = stat /\ socks'[sock].bin = socks[sock].bin
    BY <2>4, <2>7, <2>8 DEF OthersKept, SockTable, SockRecord
  <2>10. StockOf(socks[sock])
    BY DEF DataInv, Stocked
  <2>11. c.srcport # PORT_NONE \/ c.protocol # "UDP"
    <3>1. CASE socks[sock].status = "UNBOUND"
      <4>1. port \in Port \ {PORT_NONE}
        BY <1>1, <2>1, <2>4, <3>1, RequestTaken, PortResolved
      <4>2. c.srcport = port
        BY <2>2, <2>3, <3>1 DEF LocalEnd
      <4> QED BY <4>1, <4>2
    <3>2. CASE socks[sock].status = "BOUND"
      <4>1. /\ c.srcport = socks[sock].connection.srcport
            /\ c.protocol = socks[sock].connection.protocol
        BY <2>2, <2>3, <2>7, <3>2 DEF Connection
      <4> QED BY <2>10, <3>2, <4>1 DEF StockOf, PortOf
    <3> QED BY <2>4, <3>1, <3>2
  <2>12. StockOf(socks'[sock])
    <3>1. CASE socks[sock].bin = <<>>
      BY <2>9, <2>11, <3>1, StockEmpty DEF PortOf
    <3>2. CASE socks[sock].bin # <<>>
      <4>1. socks[sock].status = "BOUND" /\ socks[sock].connection.protocol = "UDP"
        BY <2>4, <2>10, <3>2 DEF StockOf
      <4>2. c.srcport = socks[sock].connection.srcport /\ c.protocol = "UDP"
        BY <2>2, <2>3, <2>7, <4>1 DEF Connection
      <4> QED BY <2>8, <2>9, <2>10, <2>11, <4>1, <4>2 DEF StockOf, Genuine, PortOf
    <3> QED BY <3>1, <3>2
  <2>13. \A i \in Sock : StockOf(socks'[i])
    BY <2>9, <2>12, StockedKept
  <2>14. NamesPort(s)
    BY <2>6, <2>11 DEF NamesPort, PortOf
  <2>15. ASSUME c.srcport = PORT_NONE
         PROVE  FALSE
    <3>1. c.protocol # "UDP" /\ socks[sock].status = "BOUND"
      <4>1. CASE socks[sock].status = "UNBOUND"
        <5>1. port \in Port \ {PORT_NONE}
          BY <1>1, <2>1, <2>4, <4>1, RequestTaken, PortResolved
        <5> QED BY <2>2, <2>3, <2>15, <4>1, <5>1 DEF LocalEnd
      <4> QED BY <2>4, <2>11, <2>15, <4>1
    <3>2. /\ c.srcport = socks[sock].connection.srcport
          /\ c.protocol = socks[sock].connection.protocol
      BY <2>2, <2>3, <2>7, <3>1 DEF Connection
    <3> QED BY <2>15, <3>1, <3>2 DEF PortInv, Shapes, RecordShape, OfUdp, Named, PortOf
  <2>16. \A i \in Sock : \/ socks'[i].connection = socks[i].connection
                         \/ PortOf(socks'[i]) # PORT_NONE
    BY <2>9, <2>15 DEF OthersKept, PortOf
  <2> QED BY <1>1, <2>6, <2>9, <2>13, <2>14, <2>16, DataForwarded
<1> QED BY <1>3, <1>4

\* mCLOSE.
LEMMA CloseData ==
  ASSUME TypeOK, TypeOK', CallInv, CallInv', DataInv, mCLOSE, UNCHANGED clist
  PROVE  DataInv'
<1>1. PICK sock \in Sock : sock = AppRequest.sockfd
  BY AppHead DEF mCLOSE, TypeOK
<1>2. CASE \E err : Refuse(sock, err)
  BY <1>2, RefusedData
<1>3. CASE ~ \E err : Refuse(sock, err)
  <2>1. PICK s : s = Request("CLOSE", socks[sock].connection, <<>>)
    OBVIOUS
  <2>2. /\ SendRequest(s, sock) /\ ReplyApp(sock, <<>>, "EOK")
        /\ socks' = CloseSocket(socks, sock)
    BY <1>1, <1>3, <2>1 DEF mCLOSE
  <2>3. s.type = "CLOSE" /\ NamesPort(s)
    BY <2>1, RequestAt DEF NamesPort
  <2>4. PICK m : /\ sock2socklib' = Append(sock2socklib, m)
                 /\ m.sockfd = sock /\ m.data = <<>>
    BY <2>2 DEF ReplyApp
  <2>5. Genuine(socks'[m.sockfd].connection, m.data)
    BY <2>4, GenuineEmpty
  <2>6. \A i \in Sock : StockOf(socks'[i])
    BY <2>2, ClosedStock
  <2>7. /\ \A n \in Range(sock2udp') : n \in Range(sock2udp) \/ NamesPort(n)
        /\ \A r \in Range(udpq') : r \in Range(udpq) \/ r.type # "FORWARD"
                                   \/ PortOf(socks'[r.sock]) # PORT_NONE
        /\ UNCHANGED <<udp2sock, tcp2sock>>
    BY <2>2, <2>3, RequestData
  <2> QED BY <2>4, <2>5, <2>6, <2>7, DataStep
<1> QED BY <1>1, <1>2, <1>3 DEF mCLOSE

\* Any request of the application.
LEMMA AppRequestData ==
  ASSUME TypeOK, TypeOK', CallInv, CallInv', PortInv, DataInv, ProcessAppRequest,
         UNCHANGED clist
  PROVE  DataInv'
<1>1. CASE UnservedRequest
  BY <1>1, RefusedData DEF UnservedRequest
<1> QED BY <1>1, SocketData, BindData, ListenData, AcceptWriteData, ConnectingData, ReadData,
        CloseData DEF ProcessAppRequest

\* What a step of another module, or of the library, keeps.
LEMMA DataBesides ==
  ASSUME DataInv, UNCHANGED <<socks, udpq>>,
         Range(sock2socklib') \subseteq Range(sock2socklib),
         Range(sock2udp') \subseteq Range(sock2udp),
         \A c \in Range(clist') : c \in Range(clist) \/ c.srcport # PORT_NONE,
         \A m \in Range(udp2sock') : m \in Range(udp2sock) \/ Sound(m),
         \A m \in Range(tcp2sock') : m \in Range(tcp2sock) \/ Sound(m)
  PROVE  DataInv'
BY DEF DataInv, Stocked, Named, PortOf

\* A message passed up joins those on their way.
LEMMA PassedUp ==
  ASSUME NEW q \in Seq(SockRequestResponse), NEW q2 \in Seq(SockRequestResponse), NEW m,
         q2 = Append(q, m), Sound(m)
  PROVE  \A n \in Range(q2) : n \in Range(q) \/ Sound(n)
<1>1. m \in SockRequestResponse
  BY Appended
<1>2. Range(q2) = Range(q) \cup {m}
  BY <1>1, RangeAppend
<1> QED BY <1>2

\* ConnectionList::FindMatching finds an entry that matches.
LEMMA FindMatchingHit ==
  ASSUME NEW list \in Seq(Connection), NEW c, NEW i, i = FindMatching(list, c), i # 0
  PROVE  list[i] \in Range(list) /\ Matches(list[i], c)
<1> DEFINE I == {k \in 1 .. Len(list) : Matches(list[k], c)}
<1>1. FindMatching(list, c) = IF I # {} THEN Min(I) ELSE 0
  BY DEF FindMatching, SelectInSeq
<1>2. I \in SUBSET Nat
  OBVIOUS
<1>3. I # {} => Min(I) \in I
  BY <1>2, MinProperties
<1>4. i \in 1 .. Len(list) /\ Matches(list[i], c)
  BY <1>1, <1>3
<1> QED BY <1>4 DEF Range

\* Erasing an entry adds none.
LEMMA EraseRange ==
  ASSUME NEW list \in Seq(Connection), NEW i \in 0 .. Len(list)
  PROVE  Range(Erase(list, i)) \subseteq Range(list)
<1> DEFINE S == Range(list)
<1>1. Len(list) \in Nat /\ \A k \in 1 .. Len(list) : list[k] \in S
  BY DEF Range
<1> HIDE DEF S
<1>2. list \in Seq(S)
  <2>1. DOMAIN list = 1 .. Len(list) /\ list = [k \in 1 .. Len(list) |-> list[k]]
    OBVIOUS
  <2> QED BY <1>1, <2>1
<1>3. CASE i = 0
  BY <1>3 DEF Erase, S
<1>4. CASE i # 0
  <2>1. i \in Nat /\ i <= Len(list)
    BY <1>1
  <2>2. SubSeq(list, 1, i - 1) \in Seq(S)
    BY <1>1, <1>2, <2>1, SubSeqProperties
  <2>3. SubSeq(list, i + 1, Len(list)) \in Seq(S)
    BY <1>1, <1>2, <2>1, SubSeqProperties
  <2>4. Erase(list, i) \in Seq(S)
    BY <1>4, <2>2, <2>3, ConcatProperties DEF Erase, RemoveAt
  <2> QED BY <2>4, RangeBasics DEF S
<1> QED BY <1>3, <1>4

\* A datagram goes to a socket on its port: every entry names one, so that the port of
\* the datagram is matched exactly (udp_module.cc, ip_mux case).
LEMMA DatagramData ==
  ASSUME TypeOK, TypeOK', DataInv, UdpFromMux
  PROVE  DataInv'
<1>1. PICK d \in Datagram : HandleMux(d)
  BY DEF UdpFromMux
<1>2. UNCHANGED <<socks, udpq, sock2socklib, sock2udp, tcp2sock, clist>>
  BY <1>1 DEF UdpFromMux, HandleMux, appFifos, tcpFifos, sockVars
<1>3. PICK cs : cs = FindMatching(clist, ConnectionOf(d))
  OBVIOUS
<1>4. CASE cs = 0
  <2>1. UNCHANGED udp2sock
    BY <1>1, <1>3, <1>4 DEF HandleMux
  <2> QED BY <1>2, <2>1, DataBesides
<1>5. CASE cs # 0
  <2>1. PICK entry : entry = clist[cs]
    OBVIOUS
  <2>2. PICK write : write = [type |-> "WRITE", connection |-> entry, data |-> Payload(d),
                              bytes |-> d.len, error |-> "EOK"]
    OBVIOUS
  <2>3. udp2sock' = Append(udp2sock, write)
    BY <1>1, <1>3, <1>5, <2>1, <2>2 DEF HandleMux
  <2>4. entry \in Range(clist) /\ Matches(entry, ConnectionOf(d))
    BY <1>3, <1>5, <2>1, FindMatchingHit DEF TypeOK, UdpTypeOK
  <2>5. /\ entry.srcport # PORT_NONE /\ entry.protocol = "UDP"
        /\ PortsMatch(entry.srcport, d.toport) /\ d.toport # PORT_NONE
    BY <2>4 DEF DataInv, Matches, MatchesSource, ConnectionOf, Datagram, PORT_NONE
  <2>6. entry.srcport = d.toport
    BY <2>5 DEF PortsMatch, PORT_ANY
  <2>7. \A k \in DOMAIN Payload(d) : Payload(d)[k].toport = d.toport
    BY DEF Payload
  <2>8. Sound(write)
    BY <2>2, <2>5, <2>6, <2>7 DEF Sound, Genuine
  <2>9. udp2sock \in Seq(SockRequestResponse) /\ udp2sock' \in Seq(SockRequestResponse)
    BY DEF TypeOK, FifosTypeOK
  <2>10. \A m \in Range(udp2sock') : m \in Range(udp2sock) \/ Sound(m)
    BY <2>3, <2>8, <2>9, PassedUp
  <2> QED BY <1>2, <2>10, DataBesides
<1> QED BY <1>4, <1>5

\* An answer carries no data.
LEMMA AnswerSound ==
  ASSUME NEW s, NEW n, NEW err
  PROVE  Sound(StatusReply(s, <<>>, n, err))
BY DEF Sound, Genuine, StatusReply

\* A request of sock_module to udp_module.
LEMMA UdpRequestData ==
  ASSUME TypeOK, TypeOK', DataInv, UdpFromSock
  PROVE  DataInv'
<1>1. PICK req : req = Head(sock2udp)
  OBVIOUS
<1>2. /\ UNCHANGED <<socks, udpq, sock2socklib, tcp2sock>>
      /\ sock2udp # <<>> /\ sock2udp' = Tail(sock2udp)
      /\ HandleForward(req) \/ HandleWrite(req) \/ HandleClose(req) \/ HandleStatus(req)
  BY <1>1 DEF UdpFromSock, HandleSock, appFifos, tcpFifos, sockVars
<1>3. /\ sock2udp \in Seq(SockRequestResponse)
      /\ udp2sock \in Seq(SockRequestResponse) /\ udp2sock' \in Seq(SockRequestResponse)
      /\ clist \in Seq(Connection) /\ clist' \in Seq(Connection)
  BY DEF TypeOK, FifosTypeOK, UdpTypeOK
<1>4. req \in Range(sock2udp) /\ Range(sock2udp') \subseteq Range(sock2udp)
  BY <1>1, <1>2, <1>3, RangeTail
<1>5. ASSUME NEW n, NEW err, UDPReply(req, n, err)
      PROVE  \A m \in Range(udp2sock') : m \in Range(udp2sock) \/ Sound(m)
  <2>1. udp2sock' = Append(udp2sock, StatusReply(req, <<>>, n, err))
    BY <1>5 DEF UDPReply
  <2> QED BY <1>3, <2>1, AnswerSound, PassedUp
<1>6. \A m \in Range(udp2sock') : m \in Range(udp2sock) \/ Sound(m)
  BY <1>2, <1>5 DEF HandleForward, HandleWrite, HandleClose, HandleStatus
<1>7. PICK rest : rest = Erase(clist, FindMatching(clist, req.connection))
  OBVIOUS
<1>8. Range(rest) \subseteq Range(clist) /\ rest \in Seq(Connection)
  BY <1>3, <1>7, FindMatchingIndex, EraseRange, EraseType
<1>9. CASE HandleForward(req)
  <2>1. clist' = Append(rest, req.connection) /\ req.connection.srcport # PORT_NONE
    BY <1>4, <1>7, <1>9 DEF HandleForward, DataInv, NamesPort, PortOf
  <2>2. req.connection \in Connection
    BY <1>3, <1>4, RangeBasics, MessageParts
  <2>3. Range(clist') = Range(rest) \cup {req.connection}
    BY <1>8, <2>1, <2>2, RangeAppend
  <2> QED BY <1>2, <1>4, <1>6, <1>8, <2>1, <2>3, DataBesides
<1>10. CASE clist' = rest \/ clist' = clist
  BY <1>2, <1>4, <1>6, <1>8, <1>10, DataBesides
<1> QED BY <1>2, <1>7, <1>9, <1>10 DEF HandleWrite, HandleClose, HandleStatus

\* A request of sock_module to tcp_module.
LEMMA TcpRequestData ==
  ASSUME TypeOK, TypeOK', DataInv, TcpFromSock
  PROVE  DataInv'
<1>1. PICK req : req = Head(sock2tcp)
  OBVIOUS
<1>2. UNCHANGED <<socks, udpq, sock2socklib, sock2udp, udp2sock, clist>>
  BY DEF TcpFromSock, appFifos, udpFifos, sockVars, udpVars
<1>3. tcp2sock \in Seq(SockRequestResponse) /\ tcp2sock' \in Seq(SockRequestResponse)
  BY DEF TypeOK, FifosTypeOK
<1>4. ASSUME NEW n, NEW err, TCPReply(req, n, err)
      PROVE  \A m \in Range(tcp2sock') : m \in Range(tcp2sock) \/ Sound(m)
  <2>1. tcp2sock' = Append(tcp2sock, StatusReply(req, <<>>, n, err))
    BY <1>4 DEF TCPReply
  <2> QED BY <1>3, <2>1, AnswerSound, PassedUp
<1>5. (\E n, err : TCPReply(req, n, err)) \/ UNCHANGED tcp2sock
  BY <1>1 DEF TcpFromSock, TcpHandleSock, Open
<1> QED BY <1>2, <1>4, <1>5, DataBesides

\* tcp_module passes up what its peer sent, for the connection it came over.
LEMMA SegmentData ==
  ASSUME TypeOK, TypeOK', DataInv, TcpFromNetwork
  PROVE  DataInv'
<1>1. UNCHANGED <<socks, udpq, sock2socklib, sock2udp, udp2sock, clist>>
  BY DEF TcpFromNetwork, appFifos, udpFifos, sockVars, udpVars
<1>2. tcp2sock \in Seq(SockRequestResponse) /\ tcp2sock' \in Seq(SockRequestResponse)
  BY DEF TypeOK, FifosTypeOK
<1>3. ASSUME NEW c, NEW err, Indicate(c, <<>>, err)
      PROVE  \A m \in Range(tcp2sock') : m \in Range(tcp2sock) \/ Sound(m)
  <2>1. PICK m : tcp2sock' = Append(tcp2sock, m) /\ m.data = <<>>
    BY <1>3, IndicateAt
  <2>2. Sound(m)
    BY <2>1 DEF Sound, Genuine
  <2> QED BY <1>2, <2>1, <2>2, PassedUp
<1>4. ASSUME NEW t, NEW len, Received(t, len)
      PROVE  \A m \in Range(tcp2sock') : m \in Range(tcp2sock) \/ Sound(m)
  <2>1. PICK data : data = [i \in 1 .. len |->
             [from |-> t.connection.dest, fromport |-> t.connection.destport,
              toport |-> t.connection.srcport]]
    OBVIOUS
  <2>2. PICK m : /\ tcp2sock' = Append(tcp2sock, m) /\ m.type = "WRITE"
                 /\ m.connection = t.connection /\ m.data = data /\ m.error = "EOK"
    BY <1>4, <2>1, IndicateAt DEF Received
  <2>3. Sound(m)
    BY <2>1, <2>2 DEF Sound, Genuine
  <2> QED BY <1>2, <2>2, <2>3, PassedUp
<1>5. PICK t \in tcbs :
        \/ \E err \in {"EOK", "ECONN_FAILED"} :
             \/ ConnectOutcome(t, err)
             \/ \E host \in Remotes, port \in PeerPorts : Arrival(t, host, port, err)
        \/ \E len \in 0 .. MaxSegmentLen : Received(t, len)
  BY DEF TcpFromNetwork, TcpNetwork
<1>6. (\E c, err : Indicate(c, <<>>, err)) \/ (\E len : Received(t, len))
  BY <1>5 DEF ConnectOutcome, Arrival
<1> QED BY <1>1, <1>3, <1>4, <1>6, DataBesides

\* Every step keeps what is known about data.
LEMMA DataKept ==
  ASSUME SocketInv, SocketInv', DataInv, [Next]_vars
  PROVE  DataInv'
<1>1. /\ TypeOK /\ TypeOK' /\ CallInv /\ CallInv' /\ PortInv
      /\ TcpAnswersPair /\ Doubts
  BY DEF SocketInv, Pairing, PortInv
<1>2. CASE Application \/ UNCHANGED vars
  <2>1. UNCHANGED <<socks, udpq, sock2socklib, sock2udp, udp2sock, tcp2sock, clist>>
    BY <1>2 DEF Application, ApplicationCall, Call, minet_socket, minet_bind, minet_listen,
                minet_accept, minet_connect, minet_read, minet_write, minet_close,
                minet_unserved, vars, fifos, appFifos, udpFifos, tcpFifos, sockVars, udpVars
  <2> QED BY <2>1, DataBesides
<1>3. CASE CallReturn
  <2>1. /\ UNCHANGED <<socks, udpq, sock2udp, udp2sock, tcp2sock, clist>>
        /\ sock2socklib # <<>> /\ sock2socklib' = Tail(sock2socklib)
    BY <1>3 DEF CallReturn, Return, udpFifos, tcpFifos, sockVars, udpVars
  <2>2. Range(sock2socklib') \subseteq Range(sock2socklib)
    BY <1>1, <2>1, CallTypes, RangeTail
  <2> QED BY <2>1, <2>2, DataBesides
<1>4. CASE SockProcess
  <2>1. SockModuleStep /\ UNCHANGED clist
    BY <1>4 DEF SockProcess, udpVars
  <2> QED BY <1>1, <2>1, UDPWriteData, UDPStatusData, TCPWriteData, TCPStatusData,
             AppRequestData DEF SockModuleStep
<1> QED BY <1>1, <1>2, <1>3, <1>4, DatagramData, UdpRequestData, TcpRequestData, SegmentData
        DEF Next

\* At first there is no data anywhere.
LEMMA DataInit == Init => DataInv
<1> SUFFICES ASSUME Init PROVE DataInv
  OBVIOUS
<1>1. /\ sock2socklib = <<>> /\ sock2udp = <<>> /\ udp2sock = <<>> /\ tcp2sock = <<>>
      /\ udpq = <<>> /\ clist = <<>> /\ socks = [i \in Sock |-> FreeRecord]
  BY DEF Init, FifosInit, SockInit, UdpInit
<1>2. \A i \in Sock : StockOf(socks[i])
  BY <1>1, StockEmpty DEF FreeRecord
<1>3. Range(<<>>) = {}
  BY DEF Range
<1> QED BY <1>1, <1>2, <1>3 DEF DataInv, Stocked

LEMMA DataInvariant == Spec => []DataInv
<1>1. Init => DataInv
  BY DataInit
<1>2. SocketInv /\ SocketInv' /\ DataInv /\ [Next]_vars => DataInv'
  BY DataKept
<1> QED BY <1>1, <1>2, SocketInvariant, PTL DEF Spec

\* Data the application gets or can get from a socket was sent to that socket's port,
\* even when it was forwarded for an earlier owner of the descriptor or under a
\* connection the socket has left since (udp_module.cc:85-96, SockStatus::FindConnection).
THEOREM DataFindsItsSocket == Spec => []DataIsForItsSocket
<1>1. SocketInv /\ DataInv => DataIsForItsSocket
  <2> SUFFICES ASSUME SocketInv, DataInv PROVE DataIsForItsSocket
    OBVIOUS
  <2>1. \A i \in Sock : SentTo(i, socks[i].bin)
    BY DEF DataInv, Stocked, StockOf, Genuine, SentTo
  <2>2. \A k \in DOMAIN sock2socklib : sock2socklib[k] \in Range(sock2socklib)
    BY DEF Range
  <2>3. \A k \in DOMAIN sock2socklib :
          SentTo(sock2socklib[k].sockfd, sock2socklib[k].data)
    BY <2>2 DEF DataInv, Genuine, SentTo
  <2> QED BY <2>1, <2>3 DEF DataIsForItsSocket
<1> QED BY <1>1, SocketInvariant, DataInvariant, PTL

\* What a TCP socket delivers was sent by the host it is connected to, although every
\* socket accepted on a port shares that port and the listening socket's record matches
\* any peer while it is in accept() (SockStatus::FindConnection, sock_module.cc
\* HandleTCPWrite).
THEOREM DataComesFromItsPeer == Spec => []DataIsFromItsPeer
<1>1. SocketInv /\ DataInv => DataIsFromItsPeer
  <2> SUFFICES ASSUME SocketInv, DataInv PROVE DataIsFromItsPeer
    OBVIOUS
  <2>1. \A i \in Sock : SentBy(i, socks[i].bin)
    BY DEF DataInv, Stocked, StockOf, Genuine, SentBy
  <2>2. \A k \in DOMAIN sock2socklib : sock2socklib[k] \in Range(sock2socklib)
    BY DEF Range
  <2>3. \A k \in DOMAIN sock2socklib :
          SentBy(sock2socklib[k].sockfd, sock2socklib[k].data)
    BY <2>2 DEF DataInv, Genuine, SentBy
  <2> QED BY <2>1, <2>3 DEF DataIsFromItsPeer
<1> QED BY <1>1, SocketInvariant, DataInvariant, PTL

-----------------------------------------------------------------------------
(***************************************************************************)
(* Without TCP every call in progress is held somewhere.                   *)
(***************************************************************************)

\* An open socket is of UDP, and only an open one has the handle of the application.
UdpSocket(r) ==
  /\ r.status # "FREE" => r.connection.protocol = "UDP"
  /\ r.toApp => r.status # "FREE"

UdpOnly ==
  /\ tcbs = {} /\ sock2tcp = <<>> /\ tcp2sock = <<>>
  /\ \A i \in Sock : UdpSocket(socks[i])

\* What will answer the call in progress: Holders, without their places.
CallHeld ==
  call # NoCall =>
    \/ socklib2sock # <<>> \/ sock2socklib # <<>>
    \/ \E i \in Sock : socks[i].status \in Pending
    \/ \E r \in Range(udpq) : r.type = "FORWARD"

\* A socket of a UDP stack goes to another state, or is closed.
LEMMA UdpOnlyKept ==
  ASSUME UdpOnly, NEW sock \in Sock, OthersKept(socks, socks', sock), UdpSocket(socks'[sock]),
         UNCHANGED <<tcbs, sock2tcp, tcp2sock>>
  PROVE  UdpOnly'
BY DEF UdpOnly, OthersKept

LEMMA UdpOnlyStatus ==
  ASSUME TypeOK, UdpOnly, NEW sock \in Sock, OfUdp(sock),
         NEW stat \in Status \ {"FREE"}, socks' = SetStatus(socks, sock, stat),
         UNCHANGED <<tcbs, sock2tcp, tcp2sock>>
  PROVE  UdpOnly'
<1>1. /\ OthersKept(socks, socks', sock) /\ socks'[sock].status = stat
      /\ socks'[sock].connection = socks[sock].connection
  BY SetStatusAt DEF TypeOK, SockTypeOK
<1> QED BY <1>1, UdpOnlyKept DEF UdpSocket, OfUdp

LEMMA UdpOnlyClosed ==
  ASSUME TypeOK, UdpOnly, NEW sock \in Sock, socks' = CloseSocket(socks, sock),
         UNCHANGED <<tcbs, sock2tcp, tcp2sock>>
  PROVE  UdpOnly'
<1>1. OthersKept(socks, socks', sock) /\ socks'[sock] = FreeRecord
  BY CloseSocketAt DEF TypeOK, SockTypeOK
<1>2. UdpSocket(socks'[sock])
  BY <1>1 DEF UdpSocket, FreeRecord
<1> QED BY <1>1, <1>2, UdpOnlyKept

\* The call is answered.
LEMMA HeldByReply ==
  ASSUME TypeOK, TypeOK', NEW m, sock2socklib' = Append(sock2socklib, m)
  PROVE  CallHeld'
<1>1. sock2socklib \in Seq(SockLibReply) /\ sock2socklib' \in Seq(SockLibReply)
  BY DEF TypeOK, FifosTypeOK
<1>2. m \in SockLibReply
  BY <1>1, Appended
<1>3. sock2socklib' # <<>>
  BY <1>1, <1>2
<1> QED BY <1>3 DEF CallHeld

\* The call is not concerned.
LEMMA HeldStill ==
  ASSUME CallHeld, UNCHANGED <<call, socklib2sock, sock2socklib>>,
         \A i \in Sock : socks'[i].status = socks[i].status,
         \A r \in Range(udpq) : r.type = "FORWARD" => r \in Range(udpq')
  PROVE  CallHeld'
BY DEF CallHeld

\* Data of udp_module.
LEMMA UDPWriteHeld ==
  ASSUME TypeOK, TypeOK', UdpOnly, CallHeld, HandleUDPWrite, UNCHANGED <<call, tcbs>>
  PROVE  UdpOnly' /\ CallHeld'
<1>1. PICK s : s = Head(udp2sock)
  OBVIOUS
<1>2. PICK sock : sock = FindConnection(socks, s.connection)
  OBVIOUS
<1>3. s \in SockRequestResponse
  BY <1>1, UDPHead DEF HandleUDPWrite, TypeOK
<1>4. UNCHANGED <<call, tcbs, socklib2sock, udpq, sock2tcp, tcp2sock>>
  BY DEF HandleUDPWrite, tcpFifos
<1>5. CASE UNCHANGED <<socks, sock2socklib>>
  BY <1>4, <1>5 DEF UdpOnly, CallHeld
<1>6. CASE sock > 0 /\ socks[sock].status = "CONNECTED" /\ DataForBuffer(s, sock)
  <2>1. sock \in Sock
    BY <1>2, <1>6, FoundExactly
  <2>2. /\ OthersKept(socks, socks', sock) /\ UNCHANGED sock2socklib
        /\ socks'[sock].status = socks[sock].status
        /\ socks'[sock].connection = socks[sock].connection
    BY <1>3, <1>6, <2>1, BufferedAt DEF DataForBuffer
  <2>3. UdpSocket(socks'[sock])
    BY <1>6, <2>1, <2>2 DEF UdpOnly, UdpSocket
  <2>4. UdpOnly'
    BY <1>4, <2>1, <2>2, <2>3, UdpOnlyKept
  <2>5. CallHeld'
    BY <1>4, <2>2, HeldStill DEF OthersKept
  <2> QED BY <2>4, <2>5
<1>7. CASE sock > 0 /\ socks[sock].status = "READ_PENDING" /\ DataForReader(s, sock)
  <2>1. sock \in Sock
    BY <1>2, <1>7, FoundExactly
  <2>2. OfUdp(sock)
    BY <1>7, <2>1 DEF UdpOnly, UdpSocket, OfUdp
  <2>3. UdpOnly'
    BY <1>4, <1>7, <2>1, <2>2, UdpOnlyStatus DEF DataForReader, Status
  <2>4. CallHeld'
    BY <1>7, RelayedData, HeldByReply DEF DataForReader
  <2> QED BY <2>3, <2>4
<1> QED BY <1>1, <1>2, <1>5, <1>6, <1>7 DEF HandleUDPWrite

\* A STATUS of udp_module answers the call or leaves its record where it is.
LEMMA UDPStatusHeld ==
  ASSUME TypeOK, TypeOK', CallInv, UdpOnly, CallHeld, HandleUDPStatus, UNCHANGED <<call, tcbs>>
  PROVE  UdpOnly' /\ CallHeld'
<1>1. PICK s : s = Head(udp2sock)
  OBVIOUS
<1>2. PICK request : request = Head(udpq)
  OBVIOUS
<1>3. PICK sock : sock = request.sock
  OBVIOUS
<1>4. /\ UNCHANGED <<call, tcbs, socklib2sock, sock2tcp, tcp2sock>>
      /\ udpq # <<>> /\ udpq' = Tail(udpq)
  BY DEF HandleUDPStatus, tcpFifos
<1>5. /\ request \in Range(udpq) /\ sock \in Sock
      /\ Range(udpq) = {request} \cup Range(udpq')
  BY <1>2, <1>3, <1>4, CallTypes, RangeTail DEF Records
<1>6. CASE request.type = "CLOSE" /\ UNCHANGED <<socks, sock2socklib>>
  <2>1. UdpOnly'
    BY <1>4, <1>6 DEF UdpOnly
  <2>2. CallHeld'
    BY <1>4, <1>5, <1>6, HeldStill
  <2> QED BY <2>1, <2>2
<1>7. CASE /\ request.type \in {"FORWARD", "WRITE"} /\ SendAppMessage(s, sock)
           /\ socks' = CloseSocket(socks, sock) \/ socks' = Settled(sock)
  <2>1. CallHeld'
    BY <1>7, RelayedData, HeldByReply
  <2>2. CASE socks' = CloseSocket(socks, sock)
    BY <1>4, <1>5, <2>1, <2>2, UdpOnlyClosed
  <2>3. CASE socks' = Settled(sock)
    <3>1. /\ OthersKept(socks, socks', sock)
          /\ socks'[sock].status \in {"BOUND", "CONNECTED"}
          /\ socks'[sock].connection = socks[sock].connection
      BY <1>5, <2>3, SettledAt
    <3>2. OfUdp(sock)
      BY <1>3, <1>5, <1>7 DEF CallInv, UdpRecords
    <3>3. UdpSocket(socks'[sock])
      BY <3>1, <3>2 DEF UdpSocket, OfUdp
    <3> QED BY <1>4, <1>5, <2>1, <3>1, <3>3, UdpOnlyKept
  <2> QED BY <1>7, <2>2, <2>3
<1> QED BY <1>1, <1>2, <1>3, <1>6, <1>7 DEF HandleUDPStatus

\* The request is answered at once: the table says whether the sockets stay of UDP.
LEMMA ServedHeld ==
  ASSUME TypeOK, TypeOK', UdpOnly, NEW d, NEW data, NEW err, AnswerNow(d, data, err),
         NEW sock \in Sock, OthersKept(socks, socks', sock), UdpSocket(socks'[sock]),
         UNCHANGED tcbs
  PROVE  UdpOnly' /\ CallHeld'
<1>1. UNCHANGED <<sock2tcp, tcp2sock>> /\ ReplyApp(d, data, err)
  BY DEF AnswerNow, tcpFifos
<1>2. CallHeld'
  BY <1>1, HeldByReply DEF ReplyApp
<1>3. UdpOnly'
  BY <1>1, UdpOnlyKept
<1> QED BY <1>2, <1>3

LEMMA RefusedHeld ==
  ASSUME TypeOK, TypeOK', UdpOnly, NEW d, NEW err, Refuse(d, err), UNCHANGED tcbs
  PROVE  UdpOnly' /\ CallHeld'
<1>1. AnswerNow(d, <<>>, err) /\ UNCHANGED socks
  BY DEF Refuse
<1>2. PICK sock \in Sock : TRUE
  BY UsableSock
<1>3. OthersKept(socks, socks', sock) /\ UdpSocket(socks'[sock])
  BY <1>1, <1>2 DEF UdpOnly, OthersKept
<1> QED BY <1>1, <1>2, <1>3, ServedHeld

\* The request goes on to udp_module; its record or its socket holds the call.
LEMMA ForwardedHeld ==
  ASSUME TypeOK, TypeOK', UdpOnly, NEW s, NEW sock \in Sock, Forward(s, sock),
         s.connection.protocol = "UDP", OthersKept(socks, socks', sock),
         UdpSocket(socks'[sock]), s.type = "FORWARD" \/ socks'[sock].status \in Pending,
         UNCHANGED tcbs
  PROVE  UdpOnly' /\ CallHeld'
<1>1. SendUDPRequest(s, sock)
  BY DEF Forward, SendRequest
<1>2. UNCHANGED <<sock2tcp, tcp2sock>>
  BY <1>1 DEF SendUDPRequest, tcpFifos
<1>3. UdpOnly'
  BY <1>2, UdpOnlyKept
<1>4. CASE socks'[sock].status \in Pending
  BY <1>3, <1>4 DEF CallHeld
<1>5. CASE s.type = "FORWARD"
  <2>1. PICK r : r = RecordOf(s, sock)
    OBVIOUS
  <2>2. r.type = "FORWARD" /\ udpq' = Append(udpq, r)
    BY <1>1, <1>5, <2>1, RequestAt DEF SendUDPRequest
  <2>3. udpq \in Seq(RequestRecord) /\ udpq' \in Seq(RequestRecord)
    BY DEF TypeOK, SockTypeOK
  <2>4. r \in Range(udpq')
    BY <2>2, <2>3, Appended, RangeAppend
  <2> QED BY <1>3, <2>2, <2>4 DEF CallHeld
<1> QED BY <1>3, <1>4, <1>5

\* mSOCKET: without TCP every socket asked for is of UDP.
LEMMA SocketHeld ==
  ASSUME "TCP" \notin Protocols, TypeOK, TypeOK', CallInv, UdpOnly, mSOCKET, UNCHANGED tcbs
  PROVE  UdpOnly' /\ CallHeld'
<1>1. CASE Refuse(AppRequest.sockfd, "ERESOURCE_UNAVAIL")
  BY <1>1, RefusedHeld
<1>2. CASE ~ Refuse(AppRequest.sockfd, "ERESOURCE_UNAVAIL")
  <2>1. PICK sock : sock = FindFreeSock(socks)
    OBVIOUS
  <2>2. PICK c : c = [socks[sock].connection EXCEPT
                        !.protocol = AppRequest.connection.protocol]
    OBVIOUS
  <2>3. PICK record : record = [connection |-> c, bin |-> socks[sock].bin,
                                status |-> "UNBOUND", toApp |-> TRUE]
    OBVIOUS
  <2>4. /\ sock >= 0 /\ AnswerNow(sock, <<>>, "EOK")
        /\ socks' = [socks EXCEPT ![sock] =
             [connection |-> [@.connection EXCEPT
                                !.protocol = AppRequest.connection.protocol],
              bin |-> @.bin, status |-> "UNBOUND", toApp |-> TRUE]]
    BY <1>2, <2>1 DEF mSOCKET
  <2>5. socks \in SockTable
    BY DEF TypeOK, SockTypeOK
  <2>6. sock \in Sock
    BY <2>1, <2>4, <2>5, FindFreeSockRange, UsableSock
  <2>7. OthersKept(socks, socks', sock) /\ socks'[sock] = record
    BY <2>2, <2>3, <2>4, <2>5, <2>6 DEF OthersKept, SockTable
  <2>8. AppReceive("mSOCKET")
    BY DEF mSOCKET
  <2>9. AppRequest.type = "mSOCKET" /\ ProperRequest(AppRequest)
    BY <2>8, RequestTaken
  <2>10. AppRequest.connection.protocol = "UDP"
    BY <2>9, SockLibAssumption DEF ProperRequest
  <2>11. socks[sock].connection \in Connection
    BY <2>5, <2>6, TableRecord
  <2>12. c.protocol = "UDP"
    BY <2>2, <2>10, <2>11 DEF Connection
  <2>13. UdpSocket(socks'[sock])
    BY <2>3, <2>7, <2>12 DEF UdpSocket
  <2> QED BY <2>4, <2>6, <2>7, <2>13, ServedHeld
<1> QED BY <1>1, <1>2

\* mBIND waits for its FORWARD.
LEMMA BindHeld ==
  ASSUME TypeOK, TypeOK', CallInv, UdpOnly, mBIND, UNCHANGED tcbs
  PROVE  UdpOnly' /\ CallHeld'
<1>1. AppReceive("mBIND")
  BY DEF mBIND
<1>2. PICK sock \in Sock : sock = AppRequest.sockfd
  BY <1>1, RequestTaken
<1>3. CASE \E err : Refuse(sock, err)
  BY <1>3, RefusedHeld
<1>4. CASE ~ \E err : Refuse(sock, err)
  <2>1. PICK c : c = LocalEnd(socks[sock].connection, AppRequest.connection,
                              ResolveSrcPort(ports, AppRequest.connection))
    OBVIOUS
  <2>2. /\ socks[sock].status = "UNBOUND"
        /\ c.protocol = "UDP" => /\ socks' = [socks EXCEPT ![sock].connection = c]
                                 /\ Forward(Request("FORWARD", c, <<>>), sock)
    BY <1>2, <1>4, <2>1 DEF mBIND
  <2>3. c.protocol = "UDP"
    BY <1>2, <2>1, <2>2, LocalEndAt DEF UdpOnly, UdpSocket
  <2>4. socks \in SockTable /\ socks[sock] \in SockRecord
    BY TableRecord DEF TypeOK, SockTypeOK
  <2>5. /\ OthersKept(socks, socks', sock) /\ socks'[sock].connection = c
        /\ socks'[sock].status = "UNBOUND"
    BY <2>2, <2>3, <2>4 DEF OthersKept, SockTable, SockRecord
  <2>6. UdpSocket(socks'[sock])
    BY <2>3, <2>5 DEF UdpSocket
  <2>7. PICK s : s = Request("FORWARD", c, <<>>)
    OBVIOUS
  <2>8. s.type = "FORWARD" /\ s.connection.protocol = "UDP" /\ Forward(s, sock)
    BY <2>2, <2>3, <2>7, RequestAt
  <2> QED BY <2>5, <2>6, <2>8, ForwardedHeld
<1> QED BY <1>3, <1>4

\* mLISTEN on a UDP socket is refused.
LEMMA ListenHeld ==
  ASSUME TypeOK, TypeOK', CallInv, UdpOnly, mLISTEN, UNCHANGED tcbs
  PROVE  UdpOnly' /\ CallHeld'
<1>1. AppReceive("mLISTEN")
  BY DEF mLISTEN
<1>2. PICK sock \in Sock : sock = AppRequest.sockfd
  BY <1>1, RequestTaken
<1>3. socks[sock].status = "BOUND" => socks[sock].connection.protocol = "UDP"
  BY <1>2 DEF UdpOnly, UdpSocket
<1>4. \E d, err : Refuse(d, err)
  BY <1>2, <1>3 DEF mLISTEN
<1> QED BY <1>4, RefusedHeld

\* mACCEPT on a UDP socket is refused: it never listens.
LEMMA AcceptHeld ==
  ASSUME TypeOK, TypeOK', CallInv, PortInv, UdpOnly, mACCEPT, UNCHANGED tcbs
  PROVE  UdpOnly' /\ CallHeld'
<1>1. AppReceive("mACCEPT")
  BY DEF mACCEPT
<1>2. PICK sock \in Sock : sock = AppRequest.sockfd
  BY <1>1, RequestTaken
<1>3. socks[sock].status # "LISTENING"
  BY <1>2, OnlyTcpListens DEF UdpOnly, UdpSocket, OfUdp
<1>4. \E d, err : Refuse(d, err)
  BY <1>2, <1>3 DEF mACCEPT
<1> QED BY <1>4, RefusedHeld

\* mCONNECT waits for its FORWARD.
LEMMA ConnectHeld ==
  ASSUME TypeOK, TypeOK', CallInv, UdpOnly, mCONNECT, UNCHANGED tcbs
  PROVE  UdpOnly' /\ CallHeld'
<1>1. AppReceive("mCONNECT")
  BY DEF mCONNECT
<1>2. PICK sock \in Sock : sock = AppRequest.sockfd
  BY <1>1, RequestTaken
<1>3. CASE \E err : Refuse(sock, err)
  BY <1>3, RefusedHeld
<1>4. CASE ~ \E err : Refuse(sock, err)
  <2>1. PICK local :
          local = IF socks[sock].status = "BOUND" THEN socks[sock].connection
                  ELSE LocalEnd(socks[sock].connection, AppRequest.connection,
                                ResolveSrcPort(ports, AppRequest.connection))
    OBVIOUS
  <2>2. PICK c : c = [local EXCEPT !.dest = AppRequest.connection.dest,
                                   !.destport = AppRequest.connection.destport]
    OBVIOUS
  <2>3. /\ socks[sock].status \in {"UNBOUND", "BOUND"}
        /\ socks' = [socks EXCEPT
             ![sock].connection = c,
             ![sock].status = IF c.protocol = "UDP" THEN "CONNECTED" ELSE "CONNECT_PENDING"]
        /\ Forward(Request(IF c.protocol = "UDP" THEN "FORWARD" ELSE "CONNECT", c, <<>>), sock)
    BY <1>2, <1>4, <2>1, <2>2 DEF mCONNECT
  <2>4. socks[sock].connection.protocol = "UDP"
    BY <1>2, <2>3 DEF UdpOnly, UdpSocket
  <2>5. local.protocol = "UDP" /\ "protocol" \in DOMAIN local
    BY <1>2, <2>1, <2>4, LocalEndAt, CallTypes DEF LocalEnd, Connection
  <2>6. c.protocol = "UDP"
    BY <2>2, <2>5
  <2>7. socks \in SockTable /\ socks[sock] \in SockRecord
    BY TableRecord DEF TypeOK, SockTypeOK
  <2>8. /\ OthersKept(socks, socks', sock) /\ socks'[sock].connection = c
        /\ socks'[sock].status = "CONNECTED"
    BY <2>3, <2>6, <2>7 DEF OthersKept, SockTable, SockRecord
  <2>9. UdpSocket(socks'[sock])
    BY <2>6, <2>8 DEF UdpSocket
  <2>10. PICK s : s = Request("FORWARD", c, <<>>)
    OBVIOUS
  <2>11. s.type = "FORWARD" /\ s.connection.protocol = "UDP" /\ Forward(s, sock)
    BY <2>3, <2>6, <2>10, RequestAt
  <2> QED BY <2>8, <2>9, <2>11, ForwardedHeld
<1> QED BY <1>3, <1>4

\* mREAD is answered from the buffer, or waits for data.
LEMMA ReadHeld ==
  ASSUME TypeOK, TypeOK', CallInv, UdpOnly, mREAD, UNCHANGED tcbs
  PROVE  UdpOnly' /\ CallHeld'
<1>1. AppReceive("mREAD")
  BY DEF mREAD
<1>2. PICK sock \in Sock : sock = AppRequest.sockfd
  BY <1>1, RequestTaken
<1>3. CASE Refuse(sock, "EINVALID_OP")
  BY <1>3, RefusedHeld
<1>4. CASE AnswerNow(sock, socks[sock].bin, "EOK") /\ UNCHANGED socks
  <2>1. OthersKept(socks, socks', sock) /\ UdpSocket(socks'[sock])
    BY <1>4 DEF UdpOnly, OthersKept
  <2> QED BY <1>4, <2>1, ServedHeld
<1>5. CASE /\ socks[sock].status \in {"CONNECTED", "BOUND"}
           /\ socks' = SetStatus(socks, sock, "READ_PENDING") /\ UNCHANGED tcpFifos
  <2>1. OfUdp(sock)
    BY <1>5 DEF UdpOnly, UdpSocket, OfUdp
  <2>2. UNCHANGED <<sock2tcp, tcp2sock>>
    BY <1>5 DEF tcpFifos
  <2>3. UdpOnly'
    BY <1>5, <2>1, <2>2, UdpOnlyStatus DEF Status
  <2>4. socks'[sock].status = "READ_PENDING"
    BY <1>5, SetStatusAt DEF TypeOK, SockTypeOK, Status
  <2>5. CallHeld'
    BY <2>4 DEF CallHeld, Pending
  <2> QED BY <2>3, <2>5
<1> QED BY <1>2, <1>3, <1>4, <1>5 DEF mREAD

\* mWRITE waits for the STATUS of udp_module.
LEMMA WriteHeld ==
  ASSUME TypeOK, TypeOK', CallInv, UdpOnly, mWRITE, UNCHANGED tcbs
  PROVE  UdpOnly' /\ CallHeld'
<1>1. AppReceive("mWRITE")
  BY DEF mWRITE
<1>2. PICK sock \in Sock : sock = AppRequest.sockfd
  BY <1>1, RequestTaken
<1>3. CASE Refuse(sock, "EINVALID_OP")
  BY <1>3, RefusedHeld
<1>4. CASE /\ socks[sock].status = "CONNECTED"
           /\ Forward(Request("WRITE", socks[sock].connection, AppRequest.data), sock)
           /\ socks' = SetStatus(socks, sock, "WRITE_PENDING")
  <2>1. socks[sock].connection.protocol = "UDP"
    BY <1>4 DEF UdpOnly, UdpSocket
  <2>2. /\ OthersKept(socks, socks', sock) /\ socks'[sock].status = "WRITE_PENDING"
        /\ socks'[sock].connection = socks[sock].connection
    BY <1>4, SetStatusAt DEF TypeOK, SockTypeOK, Status
  <2>3. UdpSocket(socks'[sock])
    BY <2>1, <2>2 DEF UdpSocket
  <2>4. PICK s : s = Request("WRITE", socks[sock].connection, AppRequest.data)
    OBVIOUS
  <2>5. s.connection.protocol = "UDP" /\ Forward(s, sock)
    BY <1>4, <2>1, <2>4, RequestAt
  <2>6. socks'[sock].status \in Pending
    BY <2>2 DEF Pending
  <2> QED BY <2>2, <2>3, <2>5, <2>6, ForwardedHeld
<1> QED BY <1>2, <1>3, <1>4 DEF mWRITE

\* mCLOSE is answered at once; udp_module is told.
LEMMA CloseHeld ==
  ASSUME TypeOK, TypeOK', CallInv, UdpOnly, mCLOSE, UNCHANGED tcbs
  PROVE  UdpOnly' /\ CallHeld'
<1>1. AppReceive("mCLOSE")
  BY DEF mCLOSE
<1>2. PICK sock \in Sock : sock = AppRequest.sockfd
  BY <1>1, RequestTaken
<1>3. CASE Refuse(sock, "EINVALID_OP")
  BY <1>3, RefusedHeld
<1>4. CASE /\ socks[sock].toApp
           /\ SendRequest(Request("CLOSE", socks[sock].connection, <<>>), sock)
           /\ ReplyApp(sock, <<>>, "EOK") /\ socks' = CloseSocket(socks, sock)
  <2>1. socks[sock].connection.protocol = "UDP"
    BY <1>4 DEF UdpOnly, UdpSocket
  <2>2. PICK s : s = Request("CLOSE", socks[sock].connection, <<>>)
    OBVIOUS
  <2>3. SendUDPRequest(s, sock)
    BY <1>4, <2>1, <2>2, RequestAt DEF SendRequest
  <2>4. UNCHANGED <<sock2tcp, tcp2sock>>
    BY <2>3 DEF SendUDPRequest, tcpFifos
  <2>5. UdpOnly'
    BY <1>4, <2>4, UdpOnlyClosed
  <2>6. CallHeld'
    BY <1>4, HeldByReply DEF ReplyApp
  <2> QED BY <2>5, <2>6
<1> QED BY <1>2, <1>3, <1>4 DEF mCLOSE

LEMMA RequestHeld ==
  ASSUME "TCP" \notin Protocols, TypeOK, TypeOK', CallInv, PortInv, UdpOnly,
         ProcessAppRequest, UNCHANGED tcbs
  PROVE  UdpOnly' /\ CallHeld'
<1>1. CASE UnservedRequest
  <2>1. \E d, err : Refuse(d, err)
    BY <1>1 DEF UnservedRequest
  <2> QED BY <2>1, RefusedHeld
<1> QED BY <1>1, SocketHeld, BindHeld, ListenHeld, AcceptHeld, ConnectHeld, ReadHeld,
        WriteHeld, CloseHeld DEF ProcessAppRequest

\* Without TCP every step leaves a call in progress something that will answer it.
LEMMA HeldKept ==
  ASSUME "TCP" \notin Protocols, SocketInv, SocketInv', UdpOnly, CallHeld, [Next]_vars
  PROVE  UdpOnly' /\ CallHeld'
<1>1. TypeOK /\ TypeOK' /\ CallInv /\ PortInv
  BY DEF SocketInv
<1>2. CASE UNCHANGED vars
  BY <1>2 DEF UdpOnly, CallHeld, vars, fifos, appFifos, tcpFifos, sockVars, tcpVars
<1>3. CASE Application
  <2>1. /\ UNCHANGED <<tcbs, sock2tcp, tcp2sock, socks>>
        /\ \E m : socklib2sock' = Append(socklib2sock, m)
    BY <1>3 DEF Application, ApplicationCall, Call, minet_socket, minet_bind, minet_listen,
                minet_accept, minet_connect, minet_read, minet_write, minet_close,
                minet_unserved, tcpFifos, sockVars, tcpVars
  <2>2. PICK m : socklib2sock' = Append(socklib2sock, m)
    BY <2>1
  <2>3. socklib2sock \in Seq(SockLibRequest) /\ socklib2sock' \in Seq(SockLibRequest)
    BY <1>1 DEF TypeOK, FifosTypeOK
  <2>4. socklib2sock' # <<>>
    BY <2>2, <2>3, Appended
  <2> QED BY <2>1, <2>4 DEF UdpOnly, CallHeld
<1>4. CASE CallReturn
  BY <1>4 DEF CallReturn, Return, UdpOnly, CallHeld, tcpFifos, sockVars, tcpVars
<1>5. CASE SockProcess
  <2>1. SockModuleStep /\ UNCHANGED <<call, tcbs>> /\ sock2tcp = <<>> /\ tcp2sock = <<>>
    BY <1>5 DEF SockProcess, tcpVars, UdpOnly
  <2>2. ~HandleTCPWrite /\ ~HandleTCPStatus
    BY <2>1 DEF HandleTCPWrite, HandleTCPStatus, TCPReceive
  <2> QED BY <1>1, <2>1, <2>2, UDPWriteHeld, UDPStatusHeld, RequestHeld DEF SockModuleStep
<1>6. CASE UdpFromMux \/ UdpFromSock
  BY <1>6 DEF UdpFromMux, UdpFromSock, UdpOnly, CallHeld, appFifos, tcpFifos, sockVars, tcpVars
<1>7. ~TcpFromSock /\ ~TcpFromNetwork
  BY DEF TcpFromSock, TcpHandleSock, TcpFromNetwork, TcpNetwork, UdpOnly
<1> QED BY <1>2, <1>3, <1>4, <1>5, <1>6, <1>7 DEF Next

\* A call in progress is held somewhere, in a stack that opens no TCP socket: its answer
\* can still come, whatever udp_module answers and in whatever order data and requests
\* come in between (sock_module.cc ProcessAppRequest, HandleUDPWrite, HandleUDPStatus).
THEOREM UdpCallsAreHeld ==
  ASSUME "TCP" \notin Protocols
  PROVE  Spec => []NeverForgotten
<1>1. Init => UdpOnly /\ CallHeld
  BY DEF Init, SockLibInit, FifosInit, SockInit, TcpInit, UdpOnly, UdpSocket, CallHeld,
         FreeRecord
<1>2. SocketInv /\ SocketInv' /\ UdpOnly /\ CallHeld /\ [Next]_vars => UdpOnly' /\ CallHeld'
  BY HeldKept
<1>3. SocketInv /\ CallHeld => NeverForgotten
  <2> SUFFICES ASSUME SocketInv, CallHeld, call # NoCall PROVE Holders # {}
    BY DEF NeverForgotten
  <2>1. socklib2sock \in Seq(SockLibRequest) /\ sock2socklib \in Seq(SockLibReply)
        /\ udpq \in Seq(RequestRecord)
    BY DEF SocketInv, TypeOK, FifosTypeOK, SockTypeOK
  <2>2. CASE socklib2sock # <<>>
    <3>1. 1 \in DOMAIN socklib2sock
      BY <2>1, <2>2, AtTail
    <3> QED BY <3>1 DEF Holders
  <2>3. CASE sock2socklib # <<>>
    <3>1. 1 \in DOMAIN sock2socklib
      BY <2>1, <2>3, AtTail
    <3> QED BY <3>1 DEF Holders
  <2>4. CASE \E i \in Sock : socks[i].status \in Pending
    BY <2>4 DEF Holders
  <2>5. CASE \E r \in Range(udpq) : r.type = "FORWARD"
    <3>1. PICK k \in DOMAIN udpq : udpq[k].type = "FORWARD"
      BY <2>5 DEF Range
    <3> QED BY <3>1 DEF Holders
  <2> QED BY <2>2, <2>3, <2>4, <2>5 DEF CallHeld
<1> QED BY <1>1, <1>2, <1>3, SocketInvariant, PTL DEF Spec

-----------------------------------------------------------------------------
(***************************************************************************)
(* The forwarding list of udp_module, and the bound UDP sockets.           *)
(***************************************************************************)

\* A connection udp_module is told of: of UDP, with a port that somebody reserved.
Forwarded(c) ==
  /\ c.protocol = "UDP" /\ c.srcport # PORT_NONE
  /\ ports[c.srcport] # 0

\* The requests about one port that change the list, and the entries for the port.
ChangesTo(p) ==
  {m \in SockRequestResponse : m.type \in {"FORWARD", "CLOSE"} /\ PortOf(m) = p}
EntriesOf(p) == {c \in Connection : c.srcport = p}

\* The requests under way to udp_module that change the list.
Asked(type) == {m \in Range(sock2udp) : m.type = type}
Changes == Asked("FORWARD") \cup Asked("CLOSE")

Bound(i) == OfUdp(i) /\ Named(i)

\* One request and one entry at most for a port: none waits behind another.
OneForEach ==
  /\ \A m \in Changes : Forwarded(m.connection)
  /\ \A c \in Range(clist) : Forwarded(c)
  /\ \A p \in Port : Once(sock2udp, ChangesTo(p)) /\ Once(clist, EntriesOf(p))

(***************************************************************************)
(* What is under way accounts for the difference between the list and the  *)
(* sockets.  A FORWARD is for a bound socket and finds no entry for the    *)
(* port but one that it replaces; a CLOSE finds its entry, and no socket   *)
(* has the port any more.                                                  *)
(***************************************************************************)
Accounted ==
  /\ \A m \in Asked("FORWARD") :
       /\ \E i \in Sock : Bound(i) /\ socks[i].connection = m.connection
       /\ \A c \in Range(clist) : c.srcport = PortOf(m) => Matches(c, m.connection)
  /\ \A m \in Asked("CLOSE") :
       /\ m.connection \in Range(clist)
       /\ \A i \in Sock : Bound(i) => PortOf(socks[i]) # PortOf(m)
  /\ \A i \in Sock : Bound(i) =>
       \/ socks[i].connection \in Range(clist)
       \/ \E m \in Asked("FORWARD") : m.connection = socks[i].connection
  /\ \A c \in Range(clist) :
       \/ \E i \in Sock : Bound(i) /\ socks[i].connection = c
       \/ \E m \in Changes : PortOf(m) = c.srcport

\* udp_module refuses nothing.
NothingRefused == \A m \in Range(udp2sock) : m.type = "STATUS" => m.error = "EOK"

(***************************************************************************)
(* A UDP socket that can still be connected has its far end open, and one  *)
(* that can still be bound has no port, unless its FORWARD is under way.   *)
(***************************************************************************)
FarEnd(r) ==
  /\ r.status = "FREE" => ~ r.toApp
  /\ r.connection.protocol = "UDP" =>
       /\ r.connection.dest = IP_ADDRESS_ANY <=> r.connection.destport = PORT_ANY
       /\ r.status \in {"UNBOUND", "BOUND"} => r.connection.dest = IP_ADDRESS_ANY

Opens ==
  \A i \in Sock :
    /\ FarEnd(socks[i])
    /\ socks[i].status = "UNBOUND" /\ Bound(i) =>
         \E r \in Range(udpq) : r.type = "FORWARD" /\ r.sock = i

\* The application keeps to MayClose until its request is taken.
Closing ==
  \A m \in Range(socklib2sock) :
    /\ m.type = "mCLOSE" => socks[m.sockfd].status = "FREE" \/ Named(m.sockfd)
    /\ m.type = "mCONNECT" => m.connection.destport # PORT_ANY

ForwardInv == OneForEach /\ Accounted /\ NothingRefused /\ Opens /\ Closing

-----------------------------------------------------------------------------
(***************************************************************************)
(* Taking an entry out of the list.                                        *)
(***************************************************************************)

\* std::find with Matches: the first entry that matches, or the end.
LEMMA FirstMatch ==
  ASSUME NEW list \in Seq(Connection), NEW c, NEW i, i = FindMatching(list, c)
  PROVE  \/ i = 0 /\ \A j \in 1 .. Len(list) : ~ Matches(list[j], c)
         \/ i \in 1 .. Len(list) /\ Matches(list[i], c)
<1> DEFINE I == {j \in 1 .. Len(list) : Matches(list[j], c)}
<1>1. FindMatching(list, c) = IF I # {} THEN Min(I) ELSE 0
  BY DEF FindMatching, SelectInSeq
<1>2. I \in SUBSET Nat
  OBVIOUS
<1>3. I # {} => Min(I) \in I
  BY <1>2, MinProperties
<1> QED BY <1>1, <1>3

\* The entries behind the one erased move up.
LEMMA ErasedAt ==
  ASSUME NEW list \in Seq(Connection), NEW i \in 1 .. Len(list), NEW rest,
         rest = Erase(list, i)
  PROVE  /\ rest \in Seq(Connection) /\ Len(list) \in Nat /\ Len(rest) = Len(list) - 1
         /\ \A k \in 1 .. Len(list) - 1 :
              rest[k] = IF k < i THEN list[k] ELSE list[k + 1]
<1>1. Len(list) \in Nat /\ i \in Nat /\ i >= 1 /\ i <= Len(list)
  OBVIOUS
<1>2. PICK s1 : s1 = SubSeq(list, 1, i - 1)
  OBVIOUS
<1>3. PICK s2 : s2 = SubSeq(list, i + 1, Len(list))
  OBVIOUS
<1>4. /\ \A k \in 1 .. i - 1 : list[k] \in Connection
      /\ \A k \in i + 1 .. Len(list) : list[k] \in Connection
  BY <1>1, ElementOfSeq
<1>5. /\ s1 \in Seq(Connection) /\ Len(s1) = i - 1
      /\ \A k \in 1 .. i - 1 : s1[k] = list[k]
  <2>1. /\ s1 \in Seq(Connection)
        /\ Len(s1) = IF 1 <= i - 1 THEN (i - 1) - 1 + 1 ELSE 0
        /\ \A k \in 1 .. (i - 1) - 1 + 1 : s1[k] = list[1 + k - 1]
    BY <1>1, <1>2, <1>4, SubSeqProperties
  <2> QED BY <1>1, <2>1
<1>6. /\ s2 \in Seq(Connection) /\ Len(s2) = Len(list) - i
      /\ \A k \in 1 .. Len(list) - i : s2[k] = list[i + k]
  <2>1. /\ s2 \in Seq(Connection)
        /\ Len(s2) = IF i + 1 <= Len(list) THEN Len(list) - (i + 1) + 1 ELSE 0
        /\ \A k \in 1 .. Len(list) - (i + 1) + 1 : s2[k] = list[i + 1 + k - 1]
    BY <1>1, <1>3, <1>4, SubSeqProperties
  <2> QED BY <1>1, <2>1
<1>7. rest = s1 \o s2
  <2>1. i # 0
    BY <1>1
  <2>2. rest = RemoveAt(list, i)
    BY <2>1 DEF Erase
  <2> QED BY <1>2, <1>3, <2>2 DEF RemoveAt
<1>8. /\ rest \in Seq(Connection) /\ Len(rest) = Len(s1) + Len(s2)
      /\ \A k \in 1 .. Len(s1) + Len(s2) :
           rest[k] = IF k <= Len(s1) THEN s1[k] ELSE s2[k - Len(s1)]
  <2>1. /\ s1 \o s2 \in Seq(Connection) /\ Len(s1 \o s2) = Len(s1) + Len(s2)
        /\ \A k \in 1 .. Len(s1) + Len(s2) :
             (s1 \o s2)[k] = IF k <= Len(s1) THEN s1[k] ELSE s2[k - Len(s1)]
    BY <1>5, <1>6, ConcatProperties
  <2> QED BY <1>7, <2>1
<1>9. Len(rest) = Len(list) - 1
  BY <1>1, <1>5, <1>6, <1>8
<1>10. ASSUME NEW k \in 1 .. Len(list) - 1
       PROVE  rest[k] = IF k < i THEN list[k] ELSE list[k + 1]
  <2>1. rest[k] = IF k <= i - 1 THEN s1[k] ELSE s2[k - (i - 1)]
    BY <1>1, <1>5, <1>6, <1>8, <1>10
  <2>2. CASE k < i
    BY <1>1, <1>5, <1>10, <2>1, <2>2
  <2>3. CASE ~ (k < i)
    <3>1. k - (i - 1) \in 1 .. Len(list) - i /\ i + (k - (i - 1)) = k + 1
      BY <1>1, <1>10, <2>3
    <3> QED BY <1>1, <1>6, <1>10, <2>1, <2>3, <3>1
  <2> QED BY <2>2, <2>3
<1> QED BY <1>1, <1>8, <1>9, <1>10

\* Two connections that match are about one port, when both name theirs.
LEMMA MatchingPorts ==
  ASSUME NEW c, NEW d, Matches(c, d), c.srcport # PORT_NONE, d.srcport # PORT_NONE
  PROVE  c.srcport = d.srcport
BY DEF Matches, MatchesSource, PortsMatch, PORT_ANY

\* The only entry for a port, if it matches, is the one that is erased.
LEMMA ErasedEntry ==
  ASSUME NEW list \in Seq(Connection), NEW c \in Connection, c.srcport # PORT_NONE,
         \A e \in Range(list) : e.srcport # PORT_NONE,
         \A p \in Port : Once(list, EntriesOf(p)),
         \A e \in Range(list) : e.srcport = c.srcport => Matches(e, c),
         NEW i, i = FindMatching(list, c), NEW rest, rest = Erase(list, i)
  PROVE  /\ rest \in Seq(Connection)
         /\ Range(rest) = {e \in Range(list) : e.srcport # c.srcport}
         /\ \A p \in Port : Once(rest, EntriesOf(p))
         /\ i = 0 => \A e \in Range(list) : e.srcport # c.srcport
<1>1. /\ Len(list) \in Nat /\ DOMAIN list = 1 .. Len(list)
      /\ \A k \in 1 .. Len(list) : list[k] \in Range(list) /\ list[k] \in Connection
  BY ElementOfSeq DEF Range
<1>2. \A e \in Connection : e.srcport \in Port /\ e \in EntriesOf(e.srcport)
  BY DEF Connection, EntriesOf
<1>3. CASE i = 0
  <2>1. \A j \in 1 .. Len(list) : ~ Matches(list[j], c)
    <3>1. \/ i = 0 /\ \A j \in 1 .. Len(list) : ~ Matches(list[j], c)
          \/ i \in 1 .. Len(list) /\ Matches(list[i], c)
      BY FirstMatch
    <3>2. 0 \notin 1 .. Len(list)
      BY <1>1
    <3> QED BY <1>3, <3>1, <3>2
  <2>2. \A e \in Range(list) : e.srcport # c.srcport
    BY <1>1, <2>1 DEF Range
  <2>3. rest = list
    BY <1>3 DEF Erase
  <2> QED BY <2>2, <2>3
<1>4. CASE i # 0
  <2>1. i \in 1 .. Len(list) /\ Matches(list[i], c)
    BY <1>4, FirstMatch
  <2>2. list[i].srcport = c.srcport
    BY <1>1, <2>1, MatchingPorts
  <2>3. \A k \in 1 .. Len(list) : list[k].srcport = c.srcport => k = i
    <3>1. c.srcport \in Port
      BY <1>2
    <3>2. \A k \in 1 .. Len(list) : list[k].srcport = c.srcport => list[k] \in EntriesOf(c.srcport)
      BY <1>1 DEF EntriesOf
    <3> QED BY <1>1, <2>1, <2>2, <3>1, <3>2 DEF Once
  <2>4. /\ rest \in Seq(Connection) /\ Len(rest) = Len(list) - 1
        /\ \A k \in 1 .. Len(list) - 1 :
             rest[k] = IF k < i THEN list[k] ELSE list[k + 1]
    BY <2>1, ErasedAt
  <2>5. DOMAIN rest = 1 .. Len(list) - 1
    BY <1>1, <2>4
  <2>6. PICK at : at = [k \in 1 .. Len(list) - 1 |-> IF k < i THEN k ELSE k + 1]
    OBVIOUS
  <2>7. \A k \in 1 .. Len(list) - 1 :
          at[k] \in 1 .. Len(list) /\ at[k] # i /\ rest[k] = list[at[k]]
    BY <1>1, <2>1, <2>4, <2>6
  <2>8. \A j, k \in 1 .. Len(list) - 1 : at[j] = at[k] => j = k
    BY <1>1, <2>1, <2>6
  <2>9. \A n \in 1 .. Len(list) : n # i =>
          \E k \in 1 .. Len(list) - 1 : rest[k] = list[n]
    <3> SUFFICES ASSUME NEW n \in 1 .. Len(list), n # i
                 PROVE  \E k \in 1 .. Len(list) - 1 : rest[k] = list[n]
      OBVIOUS
    <3>1. CASE n < i
      <4>1. n \in 1 .. Len(list) - 1
        BY <1>1, <2>1, <3>1
      <4> QED BY <2>4, <3>1, <4>1
    <3>2. CASE n > i
      <4>1. n - 1 \in 1 .. Len(list) - 1 /\ ~ (n - 1 < i) /\ (n - 1) + 1 = n
        BY <1>1, <2>1, <3>2
      <4> QED BY <2>4, <4>1
    <3> QED BY <1>1, <2>1, <3>1, <3>2
  <2>10. Range(rest) = {e \in Range(list) : e.srcport # c.srcport}
    <3>1. ASSUME NEW e \in Range(rest)
          PROVE  e \in Range(list) /\ e.srcport # c.srcport
      <4>1. PICK k \in 1 .. Len(list) - 1 : e = rest[k]
        BY <2>5 DEF Range
      <4> QED BY <1>1, <2>3, <2>7, <4>1
    <3>2. ASSUME NEW e \in Range(list), e.srcport # c.srcport
          PROVE  e \in Range(rest)
      <4>1. PICK n \in 1 .. Len(list) : e = list[n]
        BY <1>1 DEF Range
      <4>2. n # i
        BY <2>2, <3>2, <4>1
      <4>3. PICK k \in 1 .. Len(list) - 1 : rest[k] = e
        BY <2>9, <4>1, <4>2
      <4> QED BY <2>5, <4>3 DEF Range
    <3> QED BY <3>1, <3>2
  <2>11. ASSUME NEW p \in Port
         PROVE  Once(rest, EntriesOf(p))
    <3> SUFFICES ASSUME NEW j \in 1 .. Len(list) - 1, NEW k \in 1 .. Len(list) - 1,
                        rest[j] \in EntriesOf(p), rest[k] \in EntriesOf(p)
                 PROVE  j = k
      BY <2>5 DEF Once
    <3>1. at[j] = at[k]
      BY <1>1, <2>7 DEF Once
    <3> QED BY <2>8, <3>1
  <2> QED BY <1>4, <2>4, <2>10, <2>11
<1> QED BY <1>3, <1>4

-----------------------------------------------------------------------------
(***************************************************************************)
(* Steps that leave the list and what changes it alone.                    *)
(***************************************************************************)

ListKept ==
  /\ UNCHANGED clist
  /\ Asked("FORWARD")' = Asked("FORWARD") /\ Asked("CLOSE")' = Asked("CLOSE")
  /\ \A p \in Port : Once(sock2udp, ChangesTo(p)) => Once(sock2udp', ChangesTo(p))
  /\ \A m \in Range(udp2sock') : m \in Range(udp2sock) \/ m.type # "STATUS" \/ m.error = "EOK"
  /\ Range(socklib2sock') \subseteq Range(socklib2sock)

\* A reservation is never given up.
ReservationsKept == \A p \in Port \ {PORT_NONE} : ports[p] # 0 => ports'[p] # 0

\* A socket is as bound as before, and what its status says of its far end holds.
Steady(i) ==
  /\ Bound(i)' <=> Bound(i)
  /\ Bound(i) => socks'[i].connection = socks[i].connection
  /\ FarEnd(socks'[i])
  /\ socks'[i].status = "UNBOUND" /\ Bound(i)' =>
       /\ socks[i].status = "UNBOUND"
       /\ \A r \in Range(udpq) : r.type = "FORWARD" /\ r.sock = i => r \in Range(udpq')

Closable(i) == socks[i].status = "FREE" \/ Named(i)

\* The elements of the FIFOs and the list.
LEMMA ForwardTypes ==
  ASSUME TypeOK
  PROVE  /\ clist \in Seq(Connection) /\ Range(clist) \subseteq Connection
         /\ sock2udp \in Seq(SockRequestResponse) /\ udp2sock \in Seq(SockRequestResponse)
         /\ \A m \in Range(sock2udp) : /\ m \in SockRequestResponse
                                       /\ m.connection \in Connection /\ PortOf(m) \in Port
         /\ \A c \in Connection : c.srcport \in Port
         /\ socklib2sock \in Seq(SockLibRequest)
<1>1. /\ clist \in Seq(Connection)
      /\ sock2udp \in Seq(SockRequestResponse) /\ udp2sock \in Seq(SockRequestResponse)
      /\ socklib2sock \in Seq(SockLibRequest)
  BY DEF TypeOK, UdpTypeOK, FifosTypeOK
<1>2. Range(clist) \subseteq Connection /\ Range(sock2udp) \subseteq SockRequestResponse
  BY <1>1, RangeBasics
<1>3. \A c \in Connection : c.srcport \in Port
  BY DEF Connection
<1>4. \A m \in SockRequestResponse : m.connection \in Connection
  BY MessageParts
<1> QED BY <1>1, <1>2, <1>3, <1>4 DEF PortOf

LEMMA ForwardSteady ==
  ASSUME TypeOK, ForwardInv, ListKept, ReservationsKept, \A i \in Sock : Steady(i),
         socklib2sock' = <<>> \/ \A i \in Sock : Closable(i) => Closable(i)'
  PROVE  ForwardInv'
<1>1. Changes' = Changes
  BY DEF ListKept, Changes
<1>2. /\ \A m \in Changes : m.connection.srcport \in Port
      /\ \A c \in Range(clist) : c.srcport \in Port
  BY ForwardTypes DEF Changes, Asked
<1>3. \A c : c.srcport \in Port /\ Forwarded(c) => Forwarded(c)'
  BY DEF Forwarded, ReservationsKept
<1>4. OneForEach'
  <2>1. \A m \in Changes' : Forwarded(m.connection)'
    BY <1>1, <1>2, <1>3 DEF ForwardInv, OneForEach
  <2>2. \A c \in Range(clist') : Forwarded(c)'
    BY <1>2, <1>3 DEF ForwardInv, OneForEach, ListKept
  <2>3. \A p \in Port : Once(sock2udp', ChangesTo(p)) /\ Once(clist', EntriesOf(p))
    BY DEF ForwardInv, OneForEach, ListKept
  <2> QED BY <2>1, <2>2, <2>3 DEF OneForEach
<1>5. Accounted'
  <2>1. \A i \in Sock : /\ Bound(i)' <=> Bound(i)
                        /\ Bound(i) => socks'[i].connection = socks[i].connection
    BY DEF Steady
  <2>2. \A m \in Asked("FORWARD")' :
          /\ \E i \in Sock : Bound(i)' /\ socks'[i].connection = m.connection
          /\ \A c \in Range(clist') : c.srcport = PortOf(m) => Matches(c, m.connection)
    BY <2>1 DEF ForwardInv, Accounted, ListKept
  <2>3. \A m \in Asked("CLOSE")' :
          /\ m.connection \in Range(clist')
          /\ \A i \in Sock : Bound(i)' => PortOf(socks'[i]) # PortOf(m)
    BY <2>1 DEF ForwardInv, Accounted, ListKept, PortOf
  <2>4. \A i \in Sock : Bound(i)' =>
          \/ socks'[i].connection \in Range(clist')
          \/ \E m \in Asked("FORWARD")' : m.connection = socks'[i].connection
    BY <2>1 DEF ForwardInv, Accounted, ListKept
  <2>5. \A c \in Range(clist') :
          \/ \E i \in Sock : Bound(i)' /\ socks'[i].connection = c
          \/ \E m \in Changes' : PortOf(m) = c.srcport
    BY <1>1, <2>1 DEF ForwardInv, Accounted, ListKept
  <2> QED BY <2>2, <2>3, <2>4, <2>5 DEF Accounted
<1>6. NothingRefused'
  BY DEF ForwardInv, NothingRefused, ListKept
<1>7. Opens'
  BY DEF ForwardInv, Opens, Steady
<1>8. Closing'
  <2>1. CASE socklib2sock' = <<>>
    <3>1. Range(<<>>) = {}
      BY DEF Range
    <3> QED BY <2>1, <3>1 DEF Closing
  <2>2. CASE \A i \in Sock : Closable(i) => Closable(i)'
    <3>1. \A m \in Range(socklib2sock) : m.sockfd \in Sock
      <4>1. Range(socklib2sock) \subseteq SockLibRequest
        BY ForwardTypes, RangeBasics
      <4> QED BY <4>1 DEF SockLibRequest
    <3> QED BY <2>2, <3>1 DEF ForwardInv, Closing, Closable, ListKept
  <2> QED BY <2>1, <2>2
<1> QED BY <1>4, <1>5, <1>6, <1>7, <1>8 DEF ForwardInv

\* A socket that does not change, nor its FORWARD.
LEMMA SteadySame ==
  ASSUME ForwardInv, NEW i \in Sock, socks'[i] = socks[i],
         \A r \in Range(udpq) : r.type = "FORWARD" /\ r.sock = i => r \in Range(udpq')
  PROVE  Steady(i)
<1>1. (Bound(i)' <=> Bound(i)) /\ FarEnd(socks'[i])
  BY DEF Bound, OfUdp, Named, PortOf, ForwardInv, Opens
<1> QED BY <1>1 DEF Steady

\* One socket changes; the FORWARD of another stays.
LEMMA SteadyButOne ==
  ASSUME ForwardInv, NEW sock \in Sock, OthersKept(socks, socks', sock), Steady(sock),
         \A r \in Range(udpq) : r.type = "FORWARD" /\ r.sock # sock => r \in Range(udpq')
  PROVE  \A i \in Sock : Steady(i)
<1> SUFFICES ASSUME NEW i \in Sock, i # sock PROVE Steady(i)
  OBVIOUS
<1>1. socks'[i] = socks[i]
  BY DEF OthersKept
<1> QED BY <1>1, SteadySame

\* No socket changes.
LEMMA SteadyAll ==
  ASSUME ForwardInv, UNCHANGED socks,
         \A r \in Range(udpq) : r.type = "FORWARD" => r \in Range(udpq')
  PROVE  /\ \A i \in Sock : Steady(i)
         /\ \A i \in Sock : Closable(i) => Closable(i)'
<1> QED BY SteadySame DEF Closable, Named, PortOf

\* A socket goes to another state.
LEMMA SteadyStatus ==
  ASSUME ForwardInv, NEW sock \in Sock, OthersKept(socks, socks', sock),
         socks'[sock].connection = socks[sock].connection,
         socks'[sock].status \notin {"FREE", "UNBOUND"}, socks[sock].status # "FREE",
         socks'[sock].status = "BOUND" /\ OfUdp(sock) =>
           socks[sock].connection.dest = IP_ADDRESS_ANY \/ socks[sock].connection.destport = PORT_ANY
  PROVE  /\ Steady(sock)
         /\ \A i \in Sock : Closable(i) => Closable(i)'
<1>1. Bound(sock)' <=> Bound(sock)
  BY DEF Bound, OfUdp, Named, PortOf
<1>2. FarEnd(socks[sock])
  BY DEF ForwardInv, Opens
<1>3. FarEnd(socks'[sock])
  BY <1>2 DEF FarEnd, OfUdp
<1>4. \A i \in Sock : Closable(i) => Closable(i)'
  BY DEF Closable, Named, PortOf, OthersKept
<1> QED BY <1>1, <1>3, <1>4 DEF Steady

\* A socket without a forward is closed.
LEMMA SteadyClosed ==
  ASSUME NEW sock \in Sock, OthersKept(socks, socks', sock), ~ Bound(sock),
         socks'[sock] = FreeRecord
  PROVE  /\ Steady(sock)
         /\ \A i \in Sock : Closable(i) => Closable(i)'
<1>1. ~ Bound(sock)' /\ FarEnd(socks'[sock])
  BY DEF Bound, OfUdp, FarEnd, FreeRecord, NoConnection
<1>2. \A i \in Sock : Closable(i) => Closable(i)'
  BY DEF Closable, Named, PortOf, OthersKept, FreeRecord
<1> QED BY <1>1, <1>2 DEF Steady

\* A socket of another protocol, or none, becomes one of another protocol.
LEMMA SteadyTcp ==
  ASSUME NEW sock \in Sock, ~ Bound(sock), socks'[sock].connection.protocol # "UDP",
         socks'[sock].status # "FREE"
  PROVE  Steady(sock)
<1>1. ~ Bound(sock)' /\ FarEnd(socks'[sock])
  BY DEF Bound, OfUdp, FarEnd
<1> QED BY <1>1 DEF Steady

\* A message that changes nothing in the list is sent to udp_module.
LEMMA NoChangeSent ==
  ASSUME TypeOK, TypeOK', NEW s, sock2udp' = Append(sock2udp, s),
         s.type \notin {"FORWARD", "CLOSE"}
  PROVE  /\ Asked("FORWARD")' = Asked("FORWARD") /\ Asked("CLOSE")' = Asked("CLOSE")
         /\ \A p \in Port : Once(sock2udp, ChangesTo(p)) => Once(sock2udp', ChangesTo(p))
<1>1. sock2udp \in Seq(SockRequestResponse) /\ sock2udp' \in Seq(SockRequestResponse)
  BY DEF TypeOK, FifosTypeOK
<1>2. s \in SockRequestResponse
  BY <1>1, Appended
<1>3. Range(sock2udp') = Range(sock2udp) \cup {s}
  BY <1>1, <1>2, RangeAppend
<1>4. \A p : s \notin ChangesTo(p)
  BY DEF ChangesTo
<1>5. \A p \in Port : Once(sock2udp, ChangesTo(p)) => Once(sock2udp', ChangesTo(p))
  BY <1>1, <1>2, <1>4, OnceAppend
<1> QED BY <1>3, <1>5 DEF Asked

\* An answer to udp_module changes nothing in the list.
LEMMA NoChangeReplied ==
  ASSUME TypeOK, TypeOK', NEW s, NEW data, NEW n, NEW err,
         ReplyUDP(StatusReply(s, data, n, err))
  PROVE  /\ Asked("FORWARD")' = Asked("FORWARD") /\ Asked("CLOSE")' = Asked("CLOSE")
         /\ \A p \in Port : Once(sock2udp, ChangesTo(p)) => Once(sock2udp', ChangesTo(p))
<1>1. PICK e : e = StatusReply(s, data, n, err)
  OBVIOUS
<1>2. e.type = "STATUS" /\ sock2udp' = Append(sock2udp, e)
  BY <1>1, StatusReplyAt DEF ReplyUDP
<1> QED BY <1>2, NoChangeSent

\* A message is taken from udp_module.
LEMMA UDPTaken ==
  ASSUME TypeOK, NEW type, UDPReceive(type)
  PROVE  /\ Head(udp2sock) \in Range(udp2sock) /\ Head(udp2sock).type = type
         /\ Range(udp2sock') \subseteq Range(udp2sock)
<1>1. /\ udp2sock # <<>> /\ udp2sock' = Tail(udp2sock) /\ Head(udp2sock).type = type
      /\ udp2sock \in Seq(SockRequestResponse)
  BY DEF UDPReceive, TypeOK, FifosTypeOK
<1> QED BY <1>1, RangeTail

\* Nothing has to do with udp_module's list in what is sent and received.
LEMMA ListUntouched ==
  ASSUME UNCHANGED <<clist, sock2udp>>, Range(udp2sock') \subseteq Range(udp2sock),
         Range(socklib2sock') \subseteq Range(socklib2sock)
  PROVE  ListKept
BY DEF ListKept, Asked

\* Data for a connected socket, of either transport.
LEMMA ReceivedSteady ==
  ASSUME TypeOK, ForwardInv, NEW s \in SockRequestResponse, NEW sock \in Sock,
         socks[sock].status \in {"CONNECTED", "READ_PENDING"},
         DataForBuffer(s, sock) \/ DataForReader(s, sock), UNCHANGED udpq
  PROVE  /\ \A i \in Sock : Steady(i)
         /\ \A i \in Sock : Closable(i) => Closable(i)'
<1>1. /\ OthersKept(socks, socks', sock)
      /\ socks'[sock].connection = socks[sock].connection
      /\ socks'[sock].status \in {"CONNECTED", "READ_PENDING"}
  <2>1. CASE DataForBuffer(s, sock)
    BY <2>1, BufferedAt DEF DataForBuffer
  <2>2. CASE DataForReader(s, sock)
    BY <2>2, SetStatusAt DEF DataForReader, TypeOK, SockTypeOK, Status
  <2> QED BY <2>1, <2>2
<1>2. Steady(sock) /\ \A i \in Sock : Closable(i) => Closable(i)'
  BY <1>1, SteadyStatus
<1> QED BY <1>1, <1>2, SteadyButOne

\* Data of udp_module.
LEMMA UDPWriteForward ==
  ASSUME TypeOK, TypeOK', CallInv, ForwardInv, HandleUDPWrite, UNCHANGED clist
  PROVE  ForwardInv'
<1>1. PICK s : s = Head(udp2sock)
  OBVIOUS
<1>2. PICK sock : sock = FindConnection(socks, s.connection)
  OBVIOUS
<1>3. s \in SockRequestResponse /\ Range(udp2sock') \subseteq Range(udp2sock)
  BY <1>1, UDPHead, UDPTaken DEF HandleUDPWrite, TypeOK
<1>4. UNCHANGED <<clist, ports, udpq, socklib2sock>>
  BY DEF HandleUDPWrite
<1>5. \/ ReplyUDP(UnmatchedReply(s)) \/ ReplyUDP(BufferReply(s, sock))
      \/ ReplyUDP(TakenReply(s)) \/ ReplyUDP(RefusedReply(s))
  BY <1>1, <1>2 DEF HandleUDPWrite
<1>6. /\ Asked("FORWARD")' = Asked("FORWARD") /\ Asked("CLOSE")' = Asked("CLOSE")
      /\ \A p \in Port : Once(sock2udp, ChangesTo(p)) => Once(sock2udp', ChangesTo(p))
  BY <1>5, NoChangeReplied DEF UnmatchedReply, BufferReply, TakenReply, RefusedReply
<1>7. ListKept /\ ReservationsKept
  BY <1>3, <1>4, <1>6 DEF ListKept, ReservationsKept
<1>8. CASE UNCHANGED socks
  <2>1. /\ \A i \in Sock : Steady(i)
        /\ \A i \in Sock : Closable(i) => Closable(i)'
    BY <1>4, <1>8, SteadyAll
  <2> QED BY <1>7, <2>1, ForwardSteady
<1>9. CASE /\ sock > 0 /\ socks[sock].status \in {"CONNECTED", "READ_PENDING"}
           /\ DataForBuffer(s, sock) \/ DataForReader(s, sock)
  <2>1. /\ \A i \in Sock : Steady(i)
        /\ \A i \in Sock : Closable(i) => Closable(i)'
    BY <1>2, <1>3, <1>4, <1>9, FoundExactly, ReceivedSteady
  <2> QED BY <1>7, <2>1, ForwardSteady
<1> QED BY <1>1, <1>2, <1>8, <1>9 DEF HandleUDPWrite

\* A STATUS of udp_module: the bind, connect or write is settled.
LEMMA UDPStatusForward ==
  ASSUME TypeOK, TypeOK', CallInv, ForwardInv, HandleUDPStatus, UNCHANGED clist
  PROVE  ForwardInv'
<1>1. PICK s : s = Head(udp2sock)
  OBVIOUS
<1>2. PICK request : request = Head(udpq)
  OBVIOUS
<1>3. PICK sock : sock = request.sock
  OBVIOUS
<1>4. /\ UNCHANGED <<clist, ports, sock2udp, socklib2sock>> /\ UDPReceive("STATUS")
      /\ udpq # <<>> /\ udpq' = Tail(udpq)
  BY DEF HandleUDPStatus
<1>5. /\ request \in Range(udpq) /\ sock \in Sock
      /\ Range(udpq) = {request} \cup Range(udpq')
  BY <1>2, <1>3, <1>4, CallTypes, RangeTail DEF Records
<1>6. /\ s \in Range(udp2sock) /\ s.type = "STATUS" /\ Range(udp2sock') \subseteq Range(udp2sock)
  BY <1>1, <1>4, UDPTaken
<1>7. ListKept /\ ReservationsKept
  BY <1>4, <1>6, ListUntouched DEF ReservationsKept
<1>8. s.error = "EOK"
  BY <1>6 DEF ForwardInv, NothingRefused
<1>9. CASE request.type = "CLOSE" /\ UNCHANGED socks
  <2>1. \A r \in Range(udpq) : r.type = "FORWARD" => r \in Range(udpq')
    BY <1>5, <1>9
  <2>2. /\ \A i \in Sock : Steady(i)
        /\ \A i \in Sock : Closable(i) => Closable(i)'
    BY <1>9, <2>1, SteadyAll
  <2> QED BY <1>7, <2>2, ForwardSteady
<1>10. CASE request.type \in {"FORWARD", "WRITE"} /\ socks' = Settled(sock)
  <2>1. PICK c : c = socks[sock].connection
    OBVIOUS
  <2>2. /\ OthersKept(socks, socks', sock)
        /\ socks'[sock].status \in {"BOUND", "CONNECTED"}
        /\ socks'[sock].connection = c
    BY <1>5, <1>10, <2>1, SettledAt
  <2>3. socks'[sock].status = "BOUND" => c.dest = IP_ADDRESS_ANY \/ c.destport = PORT_ANY
    BY <1>5, <1>10, <2>1, SetStatusAt DEF Settled, TypeOK, SockTypeOK, Status
  <2>4. socks[sock].status # "FREE"
    BY <1>3, <1>5, <1>10 DEF CallInv, UdpRecords
  <2>5. Steady(sock) /\ \A i \in Sock : Closable(i) => Closable(i)'
    BY <1>5, <2>1, <2>2, <2>3, <2>4, SteadyStatus
  <2>6. \A i \in Sock : Steady(i)
    BY <1>3, <1>5, <2>2, <2>5, SteadyButOne
  <2> QED BY <1>7, <2>5, <2>6, ForwardSteady
<1> QED BY <1>1, <1>2, <1>3, <1>8, <1>9, <1>10 DEF HandleUDPStatus

\* tcp_module has nothing to do with the list.
LEMMA TcpForward ==
  ASSUME TypeOK, ForwardInv, UNCHANGED <<clist, ports, udpFifos, udpq>>,
         Range(socklib2sock') \subseteq Range(socklib2sock), \A i \in Sock : Steady(i),
         socklib2sock' = <<>> \/ \A i \in Sock : Closable(i) => Closable(i)'
  PROVE  ForwardInv'
<1>1. ListKept /\ ReservationsKept
  BY ListUntouched DEF udpFifos, ReservationsKept
<1> QED BY <1>1, ForwardSteady

\* A socket of another protocol that waits goes to another state, or is closed.
LEMMA WaiterForward ==
  ASSUME TypeOK, CallInv, ForwardInv,
         UNCHANGED <<clist, ports, udpFifos, udpq, socklib2sock>>,
         NEW sock \in Sock, socks[sock].status \in Pending, ~ OfUdp(sock),
         \/ socks' = CloseSocket(socks, sock)
         \/ \E stat \in Status \ {"FREE"} : socks' = SetStatus(socks, sock, stat)
  PROVE  ForwardInv'
<1>1. socklib2sock' = <<>>
  BY DEF CallInv, PendingWaits, Waits
<1>2. ~ Bound(sock)
  BY DEF Bound
<1>3. OthersKept(socks, socks', sock) /\ Steady(sock)
  <2>1. CASE socks' = CloseSocket(socks, sock)
    BY <1>2, <2>1, CloseSocketAt, SteadyClosed DEF TypeOK, SockTypeOK
  <2>2. ASSUME NEW stat \in Status \ {"FREE"}, socks' = SetStatus(socks, sock, stat)
        PROVE  OthersKept(socks, socks', sock) /\ Steady(sock)
    <3>1. /\ OthersKept(socks, socks', sock) /\ socks'[sock].status = stat
          /\ socks'[sock].connection = socks[sock].connection
      BY <2>2, SetStatusAt DEF TypeOK, SockTypeOK
    <3> QED BY <1>2, <3>1, SteadyTcp DEF OfUdp
  <2> QED BY <2>1, <2>2
<1>4. \A i \in Sock : Steady(i)
  BY <1>3, SteadyButOne
<1>5. Range(socklib2sock') \subseteq Range(socklib2sock)
  OBVIOUS
<1> QED BY <1>1, <1>4, <1>5, TcpForward

\* A new connection gets a free socket.
LEMMA AcceptForward ==
  ASSUME TypeOK, CallInv, PortInv, ForwardInv,
         UNCHANGED <<clist, ports, udpFifos, udpq, socklib2sock>>,
         NEW s \in SockRequestResponse, NEW sock \in Sock,
         socks[sock].status = "ACCEPT_PENDING", Answers(socks[sock], s.connection),
         CompleteAccept(s, sock)
  PROVE  ForwardInv'
<1>1. ~ OfUdp(sock) /\ "ACCEPT_PENDING" \in Pending /\ "LISTENING" \in Status \ {"FREE"}
  BY DEF PortInv, Shapes, RecordShape, Pending, Status
<1>2. PICK listening : listening = SetStatus(socks, sock, "LISTENING")
  OBVIOUS
<1>3. PICK newsock : newsock = FindFreeSock(listening)
  OBVIOUS
<1>4. PICK accepted : accepted = [connection |-> s.connection, bin |-> <<>>,
                                  status |-> "CONNECTED", toApp |-> TRUE]
  OBVIOUS
<1>5. CASE socks' = listening
  BY <1>1, <1>2, <1>5, WaiterForward
<1>6. CASE newsock > 0 /\ socks' = [listening EXCEPT ![newsock] = accepted]
  <2>1. /\ listening \in SockTable /\ OthersKept(socks, listening, sock)
        /\ listening[sock].status = "LISTENING"
        /\ listening[sock].connection = socks[sock].connection
    BY <1>1, <1>2, SetStatusType, SetStatusAt DEF TypeOK, SockTypeOK
  <2>2. newsock \in Sock /\ listening[newsock].status = "FREE"
    BY <1>3, <1>6, <2>1, FindFreeSockRange, UsableSock
  <2>3. newsock # sock /\ socks[newsock].status = "FREE"
    BY <2>1, <2>2 DEF OthersKept
  <2>4. /\ socks'[newsock] = accepted
        /\ \A i \in Sock : i # newsock => socks'[i] = listening[i]
    BY <1>6, <2>1, <2>2 DEF SockTable
  <2>5. s.connection.protocol # "UDP"
    BY <1>1, CallTypes DEF Answers, OfUdp, Connection, SockRequestResponse
  <2>6. ~ Bound(sock) /\ ~ Bound(newsock)
    BY <1>1, <2>2, <2>3 DEF Bound, OfUdp, PortInv, Shapes, RecordShape, NoConnection
  <2>7. Steady(newsock)
    BY <1>4, <2>2, <2>4, <2>5, <2>6, SteadyTcp
  <2>8. Steady(sock)
    BY <1>1, <2>1, <2>3, <2>4, <2>6, SteadyTcp DEF OfUdp
  <2>9. \A i \in Sock : i # sock /\ i # newsock => socks'[i] = socks[i]
    BY <2>1, <2>4 DEF OthersKept
  <2>10. \A i \in Sock : Steady(i)
    BY <2>7, <2>8, <2>9, SteadySame
  <2>11. socklib2sock' = <<>>
    BY <1>1 DEF CallInv, PendingWaits, Waits
  <2>12. Range(socklib2sock') \subseteq Range(socklib2sock)
    OBVIOUS
  <2> QED BY <2>10, <2>11, <2>12, TcpForward
<1> QED BY <1>2, <1>3, <1>4, <1>5, <1>6 DEF CompleteAccept

\* Data of tcp_module, a connection or the outcome of a connect.
LEMMA TCPWriteForward ==
  ASSUME TypeOK, CallInv, PortInv, ForwardInv, HandleTCPWrite, UNCHANGED clist
  PROVE  ForwardInv'
<1>1. PICK s : s = Head(tcp2sock)
  OBVIOUS
<1>2. PICK sock : sock = FindConnection(socks, s.connection)
  OBVIOUS
<1>3. s \in SockRequestResponse
  BY <1>1, TCPHead DEF HandleTCPWrite, TypeOK
<1>4. UNCHANGED <<clist, ports, udpFifos, udpq, socklib2sock>>
  BY DEF HandleTCPWrite
<1>5. Range(socklib2sock') \subseteq Range(socklib2sock)
  BY <1>4
<1>6. sock > 0 => sock \in Sock /\ Answers(socks[sock], s.connection)
  BY <1>2, FindConnectionRange, UsableSock DEF TypeOK, SockTypeOK
<1>7. CASE UNCHANGED socks
  <2>1. /\ \A i \in Sock : Steady(i)
        /\ \A i \in Sock : Closable(i) => Closable(i)'
    BY <1>4, <1>7, SteadyAll
  <2> QED BY <1>4, <1>5, <2>1, TcpForward
<1>8. CASE /\ sock > 0 /\ socks[sock].status \in {"CONNECTED", "READ_PENDING"}
           /\ DataForBuffer(s, sock) \/ DataForReader(s, sock)
  <2>1. /\ \A i \in Sock : Steady(i)
        /\ \A i \in Sock : Closable(i) => Closable(i)'
    BY <1>3, <1>4, <1>6, <1>8, ReceivedSteady
  <2> QED BY <1>4, <1>5, <2>1, TcpForward
<1>9. CASE sock > 0 /\ socks[sock].status = "CONNECT_PENDING" /\ CompleteConnect(s, sock)
  <2>1. ~ OfUdp(sock) /\ socks[sock].status \in Pending /\ "CONNECTED" \in Status \ {"FREE"}
    BY <1>6, <1>9 DEF PortInv, Shapes, RecordShape, Pending, Status
  <2>2. \/ socks' = CloseSocket(socks, sock)
        \/ socks' = SetStatus(socks, sock, "CONNECTED")
    BY <1>9 DEF CompleteConnect
  <2> QED BY <1>4, <1>6, <1>9, <2>1, <2>2, WaiterForward
<1>10. CASE sock > 0 /\ socks[sock].status = "ACCEPT_PENDING" /\ CompleteAccept(s, sock)
  BY <1>3, <1>4, <1>6, <1>10, AcceptForward
<1> QED BY <1>1, <1>2, <1>7, <1>8, <1>9, <1>10 DEF HandleTCPWrite

\* A STATUS of tcp_module.
LEMMA TCPStatusForward ==
  ASSUME TypeOK, TcpAnswersPair, CallInv, PortInv, ForwardInv, HandleTCPStatus, UNCHANGED clist
  PROVE  ForwardInv'
<1>1. PICK s : s = Head(tcp2sock)
  OBVIOUS
<1>2. PICK request : request = Head(tcpq)
  OBVIOUS
<1>3. PICK sock : sock = request.sock
  OBVIOUS
<1>4. /\ UNCHANGED <<clist, ports, udpFifos, udpq, socklib2sock>>
      /\ tcp2sock # <<>> /\ s.type = "STATUS" /\ tcpq # <<>>
  BY <1>1 DEF HandleTCPStatus, TCPReceive
<1>5. request \in Range(tcpq) /\ sock \in Sock
  BY <1>2, <1>3, <1>4, CallTypes, RangeTail DEF Records
<1>6. Range(socklib2sock') \subseteq Range(socklib2sock)
  BY <1>4
<1>7. CASE UNCHANGED socks
  <2>1. /\ \A i \in Sock : Steady(i)
        /\ \A i \in Sock : Closable(i) => Closable(i)'
    BY <1>4, <1>7, SteadyAll
  <2> QED BY <1>4, <1>6, <2>1, TcpForward
<1>8. CASE /\ s.error # "EOK"
           /\ \/ socks' = CloseSocket(socks, sock)
              \/ socks' = SetStatus(socks, sock, "LISTENING")
  <2>1. socks[sock].status \in {"CONNECT_PENDING", "ACCEPT_PENDING"}
    BY <1>1, <1>2, <1>3, <1>4, <1>8, RefusalFindsSocket DEF PortInv
  <2>2. ~ OfUdp(sock) /\ socks[sock].status \in Pending /\ "LISTENING" \in Status \ {"FREE"}
    BY <1>5, <2>1 DEF PortInv, Shapes, RecordShape, Pending, Status
  <2> QED BY <1>4, <1>5, <1>8, <2>2, WaiterForward
<1>9. CASE request.type = "WRITE" /\ socks' = SetStatus(socks, sock, "CONNECTED")
  <2>1. /\ socks[sock].status = "WRITE_PENDING" /\ ~ OfUdp(sock)
        /\ "WRITE_PENDING" \in Pending /\ "CONNECTED" \in Status \ {"FREE"}
    BY <1>3, <1>5, <1>9 DEF CallInv, TcpRecords, Pending, Status
  <2> QED BY <1>4, <1>5, <1>9, <2>1, WaiterForward
<1> QED BY <1>1, <1>2, <1>3, <1>7, <1>8, <1>9 DEF HandleTCPStatus

-----------------------------------------------------------------------------
(***************************************************************************)
(* Requests of the application: nobody else's FORWARD is under way.        *)
(***************************************************************************)

\* No FORWARD is on its way to udp_module when none waits for its STATUS.
LEMMA NoForwardAsked ==
  ASSUME TypeOK, UdpAnswersPair, NoneRelayed
  PROVE  Asked("FORWARD") = {}
<1> SUFFICES ASSUME NEW m \in Range(sock2udp), m.type = "FORWARD"
             PROVE  FALSE
  BY DEF Asked
<1>1. /\ sock2udp \in Seq(SockRequestResponse) /\ udp2sock \in Seq(SockRequestResponse)
      /\ Len(sock2udp) \in Nat /\ Len(udp2sock) \in Nat /\ DOMAIN sock2udp = 1 .. Len(sock2udp)
  BY DEF TypeOK, FifosTypeOK
<1>2. PICK k \in 1 .. Len(sock2udp) : m = sock2udp[k]
  BY <1>1 DEF Range
<1>3. PICK n : n = Len(udp2sock) + k
  OBVIOUS
<1>4. /\ n \in 1 .. Len(udp2sock) + Len(sock2udp) /\ ~ (n <= Len(udp2sock))
      /\ n - Len(udp2sock) = k
  BY <1>1, <1>3
<1>5. MessageAt(udp2sock, sock2udp, n) = m
  BY <1>2, <1>4 DEF MessageAt
<1>6. n \in InFlight(udp2sock, sock2udp)
  BY <1>4, <1>5 DEF InFlight
<1>7. PICK f \in [DOMAIN udpq -> InFlight(udp2sock, sock2udp)] :
         PairedBy(f, udp2sock, sock2udp, udpq)
  BY DEF UdpAnswersPair, Paired
<1>8. PICK j \in DOMAIN udpq : f[j] = n
  BY <1>6, <1>7 DEF PairedBy
<1>9. m.type \in {"STATUS", udpq[j].type}
  BY <1>5, <1>7, <1>8 DEF PairedBy
<1> QED BY <1>9 DEF NoneRelayed, Range

\* A request that changes nothing in the list, about one socket.
LEMMA AskedForward ==
  ASSUME TypeOK, TypeOK', CallInv, ForwardInv, NEW type, AppReceive(type),
         UNCHANGED <<clist, udp2sock>>, ReservationsKept,
         NEW sock \in Sock, OthersKept(socks, socks', sock), Steady(sock),
         \/ UNCHANGED sock2udp
         \/ \E s : sock2udp' = Append(sock2udp, s) /\ s.type \notin {"FORWARD", "CLOSE"}
  PROVE  ForwardInv'
<1>1. socklib2sock' = <<>> /\ \A r \in Range(udpq) : r.type # "FORWARD"
  BY RequestTaken DEF NoneRelayed
<1>2. Range(<<>>) = {}
  BY DEF Range
<1>3. /\ Asked("FORWARD")' = Asked("FORWARD") /\ Asked("CLOSE")' = Asked("CLOSE")
      /\ \A p \in Port : Once(sock2udp, ChangesTo(p)) => Once(sock2udp', ChangesTo(p))
  <2>1. CASE UNCHANGED sock2udp
    BY <2>1 DEF Asked
  <2>2. CASE \E s : sock2udp' = Append(sock2udp, s) /\ s.type \notin {"FORWARD", "CLOSE"}
    BY <2>2, NoChangeSent
  <2> QED BY <2>1, <2>2
<1>4. ListKept
  BY <1>1, <1>2, <1>3 DEF ListKept
<1>5. \A i \in Sock : Steady(i)
  BY <1>1, SteadyButOne
<1> QED BY <1>1, <1>4, <1>5, ForwardSteady

\* A request that is refused.
LEMMA RefusedForward ==
  ASSUME TypeOK, TypeOK', CallInv, ForwardInv, NEW type, AppReceive(type),
         NEW d, NEW err, Refuse(d, err), UNCHANGED clist
  PROVE  ForwardInv'
<1>1. UNCHANGED <<socks, ports, udpq, sock2udp, udp2sock>>
  BY DEF Refuse, AnswerNow, udpFifos
<1>2. PICK sock \in Sock : TRUE
  BY UsableSock
<1>3. OthersKept(socks, socks', sock) /\ Steady(sock)
  BY <1>1, <1>2, SteadySame DEF OthersKept
<1> QED BY <1>1, <1>2, <1>3, AskedForward DEF ReservationsKept

\* A request answered at once.
LEMMA ServedForward ==
  ASSUME TypeOK, TypeOK', CallInv, ForwardInv, NEW type, AppReceive(type),
         NEW d, NEW data, NEW err, AnswerNow(d, data, err), UNCHANGED clist, ReservationsKept,
         NEW sock \in Sock, OthersKept(socks, socks', sock), Steady(sock)
  PROVE  ForwardInv'
<1>1. UNCHANGED <<sock2udp, udp2sock>>
  BY DEF AnswerNow, udpFifos
<1> QED BY <1>1, AskedForward

\* A request passed on that changes nothing in the list.
LEMMA SentForward ==
  ASSUME TypeOK, TypeOK', CallInv, ForwardInv, NEW type, AppReceive(type),
         NEW s, NEW sock \in Sock, SendRequest(s, sock),
         s.connection.protocol = "UDP" => s.type \notin {"FORWARD", "CLOSE"},
         UNCHANGED clist, ReservationsKept,
         OthersKept(socks, socks', sock), Steady(sock)
  PROVE  ForwardInv'
<1>1. /\ UNCHANGED udp2sock
      /\ UNCHANGED sock2udp \/ (sock2udp' = Append(sock2udp, s)
                                /\ s.type \notin {"FORWARD", "CLOSE"})
  BY DEF SendRequest, SendUDPRequest, SendTCPRequest, udpFifos
<1> QED BY <1>1, AskedForward

\* mSOCKET: a new socket has no port and no far end.
LEMMA SocketForward ==
  ASSUME TypeOK, TypeOK', CallInv, PortInv, ForwardInv, mSOCKET, UNCHANGED clist
  PROVE  ForwardInv'
<1>1. AppReceive("mSOCKET")
  BY DEF mSOCKET
<1>2. CASE Refuse(AppRequest.sockfd, "ERESOURCE_UNAVAIL")
  BY <1>1, <1>2, RefusedForward
<1>3. CASE ~ Refuse(AppRequest.sockfd, "ERESOURCE_UNAVAIL")
  <2>1. PICK sock : sock = FindFreeSock(socks)
    OBVIOUS
  <2>2. PICK c : c = [socks[sock].connection EXCEPT
                        !.protocol = AppRequest.connection.protocol]
    OBVIOUS
  <2>3. PICK record : record = [connection |-> c, bin |-> socks[sock].bin,
                                status |-> "UNBOUND", toApp |-> TRUE]
    OBVIOUS
  <2>4. /\ sock >= 0 /\ AnswerNow(sock, <<>>, "EOK") /\ UNCHANGED ports
        /\ socks' = [socks EXCEPT ![sock] =
             [connection |-> [@.connection EXCEPT
                                !.protocol = AppRequest.connection.protocol],
              bin |-> @.bin, status |-> "UNBOUND", toApp |-> TRUE]]
    BY <1>3, <2>1 DEF mSOCKET
  <2>5. socks \in SockTable
    BY DEF TypeOK, SockTypeOK
  <2>6. sock \in Sock /\ socks[sock].status = "FREE"
    BY <2>1, <2>4, <2>5, FindFreeSockRange, UsableSock
  <2>7. OthersKept(socks, socks', sock) /\ socks'[sock] = record
    BY <2>2, <2>3, <2>4, <2>5, <2>6 DEF OthersKept, SockTable
  <2>8. socks[sock].connection = NoConnection
    BY <2>6 DEF PortInv, Shapes, RecordShape
  <2>9. /\ c.srcport = PORT_NONE /\ c.dest = IP_ADDRESS_ANY /\ c.destport = PORT_ANY
    BY <2>2, <2>8 DEF NoConnection, PORT_ANY
  <2>10. ~ Bound(sock) /\ ~ Bound(sock)'
    BY <2>3, <2>7, <2>8, <2>9 DEF Bound, Named, OfUdp, PortOf, NoConnection
  <2>11. FarEnd(socks'[sock])
    BY <2>3, <2>7, <2>9 DEF FarEnd
  <2>12. Steady(sock)
    BY <2>10, <2>11 DEF Steady
  <2> QED BY <1>1, <2>4, <2>6, <2>7, <2>12, ServedForward DEF ReservationsKept
<1> QED BY <1>2, <1>3

\* mLISTEN and mACCEPT: no UDP socket listens.
LEMMA ListenForward ==
  ASSUME TypeOK, TypeOK', CallInv, ForwardInv, mLISTEN, UNCHANGED clist
  PROVE  ForwardInv'
<1>1. AppReceive("mLISTEN")
  BY DEF mLISTEN
<1>2. PICK sock \in Sock : sock = AppRequest.sockfd
  BY <1>1, RequestTaken
<1>3. CASE \E d, err : Refuse(d, err)
  BY <1>1, <1>3, RefusedForward
<1>4. CASE ~ \E d, err : Refuse(d, err)
  <2>1. PICK c : c = [socks[sock].connection EXCEPT !.dest = IP_ADDRESS_ANY,
                                                    !.destport = PORT_ANY]
    OBVIOUS
  <2>2. /\ ~ OfUdp(sock) /\ UNCHANGED ports
        /\ socks' = [socks EXCEPT ![sock].connection = c, ![sock].status = "LISTENING"]
        /\ AnswerNow(sock, <<>>, "EOK")
    BY <1>2, <1>4, <2>1 DEF mLISTEN, OfUdp
  <2>3. socks \in SockTable /\ socks[sock] \in SockRecord
    BY TableRecord DEF TypeOK, SockTypeOK
  <2>4. /\ OthersKept(socks, socks', sock) /\ socks'[sock].connection = c
        /\ socks'[sock].status = "LISTENING"
    BY <2>2, <2>3 DEF OthersKept, SockTable, SockRecord
  <2>5. c.protocol = socks[sock].connection.protocol
    BY <2>1, CallTypes DEF Connection
  <2>6. Steady(sock)
    BY <2>2, <2>4, <2>5, SteadyTcp DEF Bound, OfUdp
  <2> QED BY <1>1, <2>2, <2>4, <2>6, ServedForward DEF ReservationsKept
<1> QED BY <1>3, <1>4

LEMMA AcceptRequestForward ==
  ASSUME TypeOK, TypeOK', CallInv, PortInv, ForwardInv, mACCEPT, UNCHANGED clist
  PROVE  ForwardInv'
<1>1. AppReceive("mACCEPT")
  BY DEF mACCEPT
<1>2. PICK sock \in Sock : sock = AppRequest.sockfd
  BY <1>1, RequestTaken
<1>3. CASE \E err : Refuse(sock, err)
  BY <1>1, <1>3, RefusedForward
<1>4. CASE ~ \E err : Refuse(sock, err)
  <2>1. PICK s : s = Request("ACCEPT", socks[sock].connection, <<>>)
    OBVIOUS
  <2>2. /\ socks[sock].status = "LISTENING" /\ SendRequest(s, sock) /\ UNCHANGED ports
        /\ socks' = SetStatus(socks, sock, "ACCEPT_PENDING")
    BY <1>2, <1>4, <2>1 DEF mACCEPT, Forward
  <2>3. ~ OfUdp(sock) /\ s.type = "ACCEPT"
    BY <2>1, <2>2, OnlyTcpListens, RequestAt
  <2>4. /\ OthersKept(socks, socks', sock) /\ socks'[sock].status = "ACCEPT_PENDING"
        /\ socks'[sock].connection = socks[sock].connection
    BY <2>2, SetStatusAt DEF TypeOK, SockTypeOK, Status
  <2>5. Steady(sock)
    BY <2>3, <2>4, SteadyTcp DEF Bound, OfUdp
  <2> QED BY <1>1, <2>2, <2>3, <2>4, <2>5, SentForward DEF ReservationsKept
<1> QED BY <1>3, <1>4

\* mREAD and mWRITE put their socket to wait.
LEMMA ReadForward ==
  ASSUME TypeOK, TypeOK', CallInv, ForwardInv, mREAD, UNCHANGED clist
  PROVE  ForwardInv'
<1>1. AppReceive("mREAD")
  BY DEF mREAD
<1>2. PICK sock \in Sock : sock = AppRequest.sockfd
  BY <1>1, RequestTaken
<1>3. CASE Refuse(sock, "EINVALID_OP")
  BY <1>1, <1>3, RefusedForward
<1>4. CASE AnswerNow(sock, socks[sock].bin, "EOK") /\ UNCHANGED <<socks, ports>>
  <2>1. OthersKept(socks, socks', sock) /\ Steady(sock)
    <3>1. UNCHANGED udpq
      BY <1>4 DEF AnswerNow
    <3> QED BY <1>4, <3>1, SteadySame DEF OthersKept
  <2> QED BY <1>1, <1>4, <2>1, ServedForward DEF ReservationsKept
<1>5. CASE /\ socks[sock].status \in {"CONNECTED", "BOUND"}
           /\ socks' = SetStatus(socks, sock, "READ_PENDING")
           /\ UNCHANGED <<ports, udpFifos>>
  <2>1. /\ OthersKept(socks, socks', sock) /\ socks'[sock].status = "READ_PENDING"
        /\ socks'[sock].connection = socks[sock].connection
    BY <1>5, SetStatusAt DEF TypeOK, SockTypeOK, Status
  <2>2. Steady(sock)
    BY <1>5, <2>1, SteadyStatus
  <2> QED BY <1>1, <1>5, <2>1, <2>2, AskedForward DEF ReservationsKept, udpFifos
<1> QED BY <1>2, <1>3, <1>4, <1>5 DEF mREAD

LEMMA WriteForward ==
  ASSUME TypeOK, TypeOK', CallInv, ForwardInv, mWRITE, UNCHANGED clist
  PROVE  ForwardInv'
<1>1. AppReceive("mWRITE")
  BY DEF mWRITE
<1>2. PICK sock \in Sock : sock = AppRequest.sockfd
  BY <1>1, RequestTaken
<1>3. CASE Refuse(sock, "EINVALID_OP")
  BY <1>1, <1>3, RefusedForward
<1>4. CASE ~ Refuse(sock, "EINVALID_OP")
  <2>1. PICK s : s = Request("WRITE", socks[sock].connection, AppRequest.data)
    OBVIOUS
  <2>2. /\ socks[sock].status = "CONNECTED" /\ SendRequest(s, sock) /\ UNCHANGED ports
        /\ socks' = SetStatus(socks, sock, "WRITE_PENDING")
    BY <1>2, <1>4, <2>1 DEF mWRITE, Forward
  <2>3. s.type = "WRITE"
    BY <2>1, RequestAt
  <2>4. /\ OthersKept(socks, socks', sock) /\ socks'[sock].status = "WRITE_PENDING"
        /\ socks'[sock].connection = socks[sock].connection
    BY <2>2, SetStatusAt DEF TypeOK, SockTypeOK, Status
  <2>5. Steady(sock)
    BY <2>2, <2>4, SteadyStatus
  <2> QED BY <1>1, <2>2, <2>3, <2>4, <2>5, SentForward DEF ReservationsKept
<1> QED BY <1>3, <1>4

\* A socket that is bound, or bound already and now connected, has its FORWARD sent:
\* the list has no entry for the port but the one the socket had.
LEMMA ForwardSent ==
  ASSUME TypeOK, TypeOK', UdpAnswersPair, CallInv, PortInv, ForwardInv,
         NEW type, AppReceive(type), UNCHANGED clist, ReservationsKept,
         NEW s, NEW sock \in Sock, SendUDPRequest(s, sock), s.type = "FORWARD",
         NEW c \in Connection, s.connection = c, c.protocol = "UDP",
         c.srcport # PORT_NONE, ports'[c.srcport] # 0,
         OthersKept(socks, socks', sock), socks'[sock].connection = c, FarEnd(socks'[sock]),
         \/ ~ Bound(sock) /\ ports[c.srcport] = 0
         \/ /\ Bound(sock) /\ PortOf(socks[sock]) = c.srcport
            /\ Matches(socks[sock].connection, c)
  PROVE  ForwardInv'
<1>1. PICK p : p = c.srcport
  OBVIOUS
<1>2. p \in Port /\ PortOf(s) = p
  BY <1>1, ForwardTypes DEF PortOf
<1>3. /\ socklib2sock' = <<>> /\ NoneRelayed
      /\ \A r \in Range(udpq) : r.type # "FORWARD"
  BY RequestTaken DEF NoneRelayed
<1>4. Asked("FORWARD") = {}
  BY <1>3, NoForwardAsked
<1>5. PICK r : r = RecordOf(s, sock)
  OBVIOUS
<1>6. /\ sock2udp' = Append(sock2udp, s) /\ udpq' = Append(udpq, r)
      /\ UNCHANGED udp2sock /\ r.type = "FORWARD" /\ r.sock = sock
  BY <1>5, RequestAt DEF SendUDPRequest
<1>7. /\ sock2udp \in Seq(SockRequestResponse) /\ sock2udp' \in Seq(SockRequestResponse)
      /\ udpq \in Seq(RequestRecord) /\ udpq' \in Seq(RequestRecord)
  BY DEF TypeOK, FifosTypeOK, SockTypeOK
<1>8. s \in SockRequestResponse /\ r \in RequestRecord
  BY <1>6, <1>7, Appended
<1>9. /\ Range(sock2udp') = Range(sock2udp) \cup {s}
      /\ Range(udpq') = Range(udpq) \cup {r}
  BY <1>6, <1>7, <1>8, RangeAppend
<1>10. /\ Asked("FORWARD")' = {s} /\ Asked("CLOSE")' = Asked("CLOSE")
       /\ Changes' = Changes \cup {s}
  BY <1>4, <1>9 DEF Asked, Changes
<1>11. \A m \in Changes : PortOf(m) # p
  <2> SUFFICES ASSUME NEW m \in Asked("CLOSE"), PortOf(m) = p PROVE FALSE
    BY <1>4 DEF Changes
  <2>1. CASE ports[c.srcport] = 0
    BY <1>1, <2>1 DEF ForwardInv, OneForEach, Changes, Forwarded, PortOf
  <2>2. CASE Bound(sock) /\ PortOf(socks[sock]) = c.srcport
    BY <1>1, <2>2 DEF ForwardInv, Accounted
  <2> QED BY <2>1, <2>2
<1>12. \A e \in Range(clist) : e.srcport = p => Bound(sock) /\ e = socks[sock].connection
  <2> SUFFICES ASSUME NEW e \in Range(clist), e.srcport = p
               PROVE  Bound(sock) /\ e = socks[sock].connection
    OBVIOUS
  <2>1. Forwarded(e)
    BY DEF ForwardInv, OneForEach
  <2>2. Bound(sock) /\ PortOf(socks[sock]) = p
    BY <1>1, <2>1 DEF Forwarded
  <2>3. PICK i \in Sock : Bound(i) /\ socks[i].connection = e
    BY <1>11 DEF ForwardInv, Accounted
  <2>4. Alone(sock)
    BY <2>2 DEF PortInv, Shapes, PortUse, Unused, Bound
  <2>5. i = sock
    BY <2>2, <2>3, <2>4 DEF Alone, PortOf
  <2> QED BY <2>2, <2>3, <2>5
<1>13. OneForEach'
  <2>1. \A d : d.srcport \in Port /\ Forwarded(d) => Forwarded(d)'
    BY DEF Forwarded, ReservationsKept
  <2>2. /\ \A m \in Changes : m.connection.srcport \in Port
        /\ \A e \in Range(clist) : e.srcport \in Port
    BY ForwardTypes DEF Changes, Asked
  <2>3. \A m \in Changes' : Forwarded(m.connection)'
    BY <1>10, <2>1, <2>2 DEF ForwardInv, OneForEach, Forwarded
  <2>4. \A e \in Range(clist') : Forwarded(e)'
    BY <2>1, <2>2 DEF ForwardInv, OneForEach
  <2>5. ASSUME NEW q \in Port
        PROVE  Once(sock2udp', ChangesTo(q)) /\ Once(clist', EntriesOf(q))
    <3>1. Once(sock2udp, ChangesTo(q)) /\ Once(clist, EntriesOf(q))
      BY DEF ForwardInv, OneForEach
    <3>2. s \in ChangesTo(q) => Range(sock2udp) \cap ChangesTo(q) = {}
      BY <1>2, <1>11 DEF ChangesTo, Changes, Asked
    <3>3. Once(Append(sock2udp, s), ChangesTo(q))
      BY <1>7, <1>8, <3>1, <3>2, OnceAppend
    <3> QED BY <1>6, <3>1, <3>3
  <2> QED BY <2>3, <2>4, <2>5 DEF OneForEach
<1>14. /\ Bound(sock)'
       /\ \A i \in Sock : i # sock => /\ Bound(i)' <=> Bound(i)
                                      /\ socks'[i] = socks[i]
  BY DEF Bound, OfUdp, Named, PortOf, OthersKept
<1>15. Accounted'
  <2>1. \A m \in Asked("FORWARD")' :
          /\ \E i \in Sock : Bound(i)' /\ socks'[i].connection = m.connection
          /\ \A e \in Range(clist') : e.srcport = PortOf(m) => Matches(e, m.connection)
    BY <1>2, <1>10, <1>12, <1>14
  <2>2. \A m \in Asked("CLOSE")' :
          /\ m.connection \in Range(clist')
          /\ \A i \in Sock : Bound(i)' => PortOf(socks'[i]) # PortOf(m)
    <3> SUFFICES ASSUME NEW m \in Asked("CLOSE")
                 PROVE  /\ m.connection \in Range(clist')
                        /\ \A i \in Sock : Bound(i)' => PortOf(socks'[i]) # PortOf(m)
      BY <1>10
    <3>1. m.connection \in Range(clist')
      BY DEF ForwardInv, Accounted
    <3>2. ASSUME NEW i \in Sock, Bound(i)'
          PROVE  PortOf(socks'[i]) # PortOf(m)
      <4>1. CASE i = sock
        BY <1>1, <1>11, <4>1 DEF Changes, PortOf
      <4>2. CASE i # sock
        BY <1>14, <3>2, <4>2 DEF ForwardInv, Accounted
      <4> QED BY <4>1, <4>2
    <3> QED BY <3>1, <3>2
  <2>3. \A i \in Sock : Bound(i)' =>
          \/ socks'[i].connection \in Range(clist')
          \/ \E m \in Asked("FORWARD")' : m.connection = socks'[i].connection
    <3> SUFFICES ASSUME NEW i \in Sock, Bound(i)'
                 PROVE  \/ socks'[i].connection \in Range(clist')
                        \/ \E m \in Asked("FORWARD")' : m.connection = socks'[i].connection
      OBVIOUS
    <3>1. CASE i = sock
      BY <1>10, <3>1
    <3>2. CASE i # sock
      BY <1>4, <1>14, <3>2 DEF ForwardInv, Accounted
    <3> QED BY <3>1, <3>2
  <2>4. \A e \in Range(clist') :
          \/ \E i \in Sock : Bound(i)' /\ socks'[i].connection = e
          \/ \E m \in Changes' : PortOf(m) = e.srcport
    <3> SUFFICES ASSUME NEW e \in Range(clist)
                 PROVE  \/ \E i \in Sock : Bound(i)' /\ socks'[i].connection = e
                        \/ \E m \in Changes' : PortOf(m) = e.srcport
      OBVIOUS
    <3>1. CASE e.srcport = p
      BY <1>2, <1>10, <3>1
    <3>2. CASE e.srcport # p
      <4>1. CASE \E m \in Changes : PortOf(m) = e.srcport
        BY <1>10, <4>1
      <4>2. CASE \E i \in Sock : Bound(i) /\ socks[i].connection = e
        <5>1. PICK i \in Sock : Bound(i) /\ socks[i].connection = e
          BY <4>2
        <5>2. i # sock
          BY <1>1, <3>2, <5>1 DEF PortOf
        <5> QED BY <1>14, <5>1, <5>2
      <4> QED BY <4>1, <4>2 DEF ForwardInv, Accounted
    <3> QED BY <3>1, <3>2
  <2> QED BY <2>1, <2>2, <2>3, <2>4 DEF Accounted
<1>16. NothingRefused'
  BY <1>6 DEF ForwardInv, NothingRefused
<1>17. Opens'
  <2> SUFFICES ASSUME NEW i \in Sock
               PROVE  /\ FarEnd(socks'[i])
                      /\ socks'[i].status = "UNBOUND" /\ Bound(i)' =>
                           \E u \in Range(udpq') : u.type = "FORWARD" /\ u.sock = i
    BY DEF Opens
  <2>1. CASE i = sock
    BY <1>6, <1>9, <2>1
  <2>2. CASE i # sock
    BY <1>3, <1>14, <2>2 DEF ForwardInv, Opens
  <2> QED BY <2>1, <2>2
<1>18. Closing'
  <2>1. Range(<<>>) = {}
    BY DEF Range
  <2> QED BY <1>3, <2>1 DEF Closing
<1> QED BY <1>13, <1>15, <1>16, <1>17, <1>18 DEF ForwardInv

\* A port that is taken stays taken.
LEMMA ReservationKept ==
  ASSUME TypeOK, PortInv, NEW sock \in Sock, socks[sock].status # "FREE", NEW port,
         port = ResolveSrcPort(ports, AppRequest.connection), port >= 0,
         AppRequest.connection \in Connection, ports' = AssignPort(ports, port, sock)
  PROVE  /\ port \in Port \ {PORT_NONE} /\ ports[port] = 0 /\ ports'[port] # 0
         /\ ReservationsKept
<1>1. sock # 0
  BY DEF PortInv, Shapes, RecordShape
<1>2. port \in Port \ {PORT_NONE} /\ Reserved(port, sock)
  BY PortResolved
<1>3. ports \in PortTable /\ ports[port] = 0
  BY ResolveSrcPortRange DEF TypeOK, SockTypeOK
<1> QED BY <1>1, <1>2, <1>3 DEF Reserved, ReservationsKept

\* A UDP socket that was never bound has no port when nobody waits for a FORWARD.
LEMMA NotYetBound ==
  ASSUME ForwardInv, NoneRelayed, NEW sock \in Sock, socks[sock].status = "UNBOUND"
  PROVE  ~ Bound(sock)
BY DEF ForwardInv, Opens, NoneRelayed

\* mBIND gives a port nobody has to a socket that has none.
LEMMA BindForward ==
  ASSUME TypeOK, TypeOK', UdpAnswersPair, CallInv, PortInv, ForwardInv, mBIND, UNCHANGED clist
  PROVE  ForwardInv'
<1>1. AppReceive("mBIND")
  BY DEF mBIND
<1>2. PICK sock \in Sock : sock = AppRequest.sockfd
  BY <1>1, RequestTaken
<1>3. CASE \E err : Refuse(sock, err)
  BY <1>1, <1>3, RefusedForward
<1>4. CASE ~ \E err : Refuse(sock, err)
  <2>1. PICK port : port = ResolveSrcPort(ports, AppRequest.connection)
    OBVIOUS
  <2>2. PICK c : c = LocalEnd(socks[sock].connection, AppRequest.connection, port)
    OBVIOUS
  <2>3. /\ socks[sock].status = "UNBOUND" /\ port >= 0
        /\ ports' = AssignPort(ports, port, sock)
        /\ \/ /\ c.protocol = "UDP"
              /\ socks' = [socks EXCEPT ![sock].connection = c]
              /\ Forward(Request("FORWARD", c, <<>>), sock)
           \/ /\ c.protocol # "UDP"
              /\ socks' = [socks EXCEPT ![sock].connection = c, ![sock].status = "BOUND"]
              /\ AnswerNow(sock, <<>>, "EOK")
    BY <1>2, <1>4, <2>1, <2>2 DEF mBIND
  <2>4. /\ c.srcport = port /\ c.dest = socks[sock].connection.dest
        /\ c.destport = socks[sock].connection.destport
        /\ c.protocol = socks[sock].connection.protocol
    BY <2>2, LocalEndAt
  <2>5. AppRequest.connection \in Connection /\ NoneRelayed
    BY <1>1, RequestTaken
  <2>6. /\ port \in Port \ {PORT_NONE} /\ ports[port] = 0 /\ ports'[port] # 0
        /\ ReservationsKept
    BY <2>1, <2>3, <2>5, ReservationKept
  <2>7. ~ Bound(sock)
    BY <2>3, <2>5, NotYetBound
  <2>8. socks \in SockTable /\ socks[sock] \in SockRecord
    BY TableRecord DEF TypeOK, SockTypeOK
  <2>9. /\ OthersKept(socks, socks', sock) /\ socks'[sock].connection = c
        /\ socks'[sock].status = IF c.protocol = "UDP" THEN "UNBOUND" ELSE "BOUND"
    BY <2>3, <2>8 DEF OthersKept, SockTable, SockRecord
  <2>10. CASE c.protocol # "UDP"
    <3>1. AnswerNow(sock, <<>>, "EOK")
      BY <2>3, <2>10
    <3>2. Steady(sock)
      BY <2>7, <2>9, <2>10, SteadyTcp
    <3> QED BY <1>1, <2>6, <2>9, <3>1, <3>2, ServedForward
  <2>11. CASE c.protocol = "UDP"
    <3>1. PICK s : s = Request("FORWARD", c, <<>>)
      OBVIOUS
    <3>2. s.type = "FORWARD" /\ s.connection = c /\ SendUDPRequest(s, sock)
      BY <2>3, <2>11, <3>1, RequestAt DEF Forward, SendRequest
    <3>3. FarEnd(socks[sock])
      BY DEF ForwardInv, Opens
    <3>4. FarEnd(socks'[sock])
      BY <2>3, <2>4, <2>9, <2>11, <3>3 DEF FarEnd
    <3>5. c \in Connection
      BY <2>9, CallTypes DEF TypeOK, SockTypeOK, SockTable, SockRecord
    <3> QED BY <1>1, <2>4, <2>6, <2>7, <2>9, <2>11, <3>2, <3>4, <3>5, ForwardSent
  <2> QED BY <2>10, <2>11
<1> QED BY <1>3, <1>4

\* mCONNECT names the far end, which a bound socket still has open: the new forward
\* replaces the old one.
LEMMA ConnectForward ==
  ASSUME TypeOK, TypeOK', UdpAnswersPair, CallInv, PortInv, DataInv, ForwardInv, mCONNECT,
         UNCHANGED clist
  PROVE  ForwardInv'
<1>1. AppReceive("mCONNECT")
  BY DEF mCONNECT
<1>2. PICK sock \in Sock : sock = AppRequest.sockfd
  BY <1>1, RequestTaken
<1>3. CASE \E err : Refuse(sock, err)
  BY <1>1, <1>3, RefusedForward
<1>4. CASE ~ \E err : Refuse(sock, err)
  <2>1. PICK port : port = ResolveSrcPort(ports, AppRequest.connection)
    OBVIOUS
  <2>2. PICK local : local = IF socks[sock].status = "BOUND" THEN socks[sock].connection
                             ELSE LocalEnd(socks[sock].connection, AppRequest.connection, port)
    OBVIOUS
  <2>3. PICK c : c = [local EXCEPT !.dest = AppRequest.connection.dest,
                                   !.destport = AppRequest.connection.destport]
    OBVIOUS
  <2>4. /\ socks[sock].status \in {"UNBOUND", "BOUND"}
        /\ socks[sock].status = "BOUND" \/ port >= 0
        /\ ports' = IF socks[sock].status = "BOUND" THEN ports ELSE AssignPort(ports, port, sock)
        /\ socks' = [socks EXCEPT ![sock].connection = c,
             ![sock].status = IF c.protocol = "UDP" THEN "CONNECTED" ELSE "CONNECT_PENDING"]
        /\ Forward(Request(IF c.protocol = "UDP" THEN "FORWARD" ELSE "CONNECT", c, <<>>), sock)
    BY <1>2, <1>4, <2>1, <2>2, <2>3 DEF mCONNECT
  <2>5. PICK s : s = Request(IF c.protocol = "UDP" THEN "FORWARD" ELSE "CONNECT", c, <<>>)
    OBVIOUS
  <2>6. /\ s.type = IF c.protocol = "UDP" THEN "FORWARD" ELSE "CONNECT"
        /\ s.connection = c /\ SendRequest(s, sock)
    BY <2>4, <2>5, RequestAt DEF Forward
  <2>7. /\ socks \in SockTable /\ socks[sock] \in SockRecord
        /\ socks[sock].connection \in Connection
        /\ AppRequest.connection \in Connection /\ NoneRelayed
    BY <1>1, TableRecord, RequestTaken DEF TypeOK, SockTypeOK, SockRecord
  <2>8. PICK stat : stat = IF c.protocol = "UDP" THEN "CONNECTED" ELSE "CONNECT_PENDING"
    OBVIOUS
  <2>9. /\ OthersKept(socks, socks', sock) /\ socks'[sock].connection = c
        /\ socks'[sock].status = stat
    BY <2>4, <2>7, <2>8 DEF OthersKept, SockTable, SockRecord
  <2>10. /\ c.protocol = socks[sock].connection.protocol
         /\ c.dest = AppRequest.connection.dest /\ c.destport = AppRequest.connection.destport
         /\ c.srcport = IF socks[sock].status = "BOUND" THEN PortOf(socks[sock]) ELSE port
         /\ socks[sock].status = "BOUND" => c.src = socks[sock].connection.src
    <3>1. CASE socks[sock].status = "BOUND"
      BY <2>2, <2>3, <2>7, <3>1 DEF Connection, PortOf
    <3>2. CASE socks[sock].status # "BOUND"
      BY <2>2, <2>3, <3>2 DEF LocalEnd
    <3> QED BY <3>1, <3>2
  <2>11. ReservationsKept
    <3>1. CASE socks[sock].status = "BOUND"
      BY <2>4, <3>1 DEF ReservationsKept
    <3>2. CASE socks[sock].status = "UNBOUND"
      BY <2>1, <2>4, <2>7, <3>2, ReservationKept
    <3> QED BY <2>4, <3>1, <3>2
  <2>12. CASE c.protocol # "UDP"
    <3>1. Steady(sock) /\ s.type = "CONNECT"
      BY <2>6, <2>8, <2>9, <2>10, <2>12, SteadyTcp DEF Bound, OfUdp
    <3> QED BY <1>1, <2>6, <2>9, <2>11, <2>12, <3>1, SentForward
  <2>13. CASE c.protocol = "UDP"
    <3>1. SendUDPRequest(s, sock) /\ s.type = "FORWARD"
      BY <2>6, <2>13 DEF SendRequest
    <3>2. c.dest # IP_ADDRESS_ANY /\ c.destport # PORT_ANY
      <4>1. AppRequest \in Range(socklib2sock) /\ AppRequest.type = "mCONNECT"
        BY <1>1, CallTypes, RequestTaken, RangeTail DEF AppRequest
      <4>2. AppRequest.connection.dest \in Remotes
        BY <1>1, <4>1, RequestTaken DEF ProperRequest
      <4> QED BY <2>10, <4>1, <4>2, SockIntAssumption DEF ForwardInv, Closing
    <3>3. FarEnd(socks'[sock])
      BY <2>8, <2>9, <2>13, <3>2 DEF FarEnd
    <3>4. c \in Connection
      BY <2>9, CallTypes DEF TypeOK, SockTypeOK, SockTable, SockRecord
    <3>5. CASE socks[sock].status = "UNBOUND"
      <4>1. /\ c.srcport = port /\ port \in Port \ {PORT_NONE}
            /\ ports[port] = 0 /\ ports'[port] # 0
        BY <2>1, <2>4, <2>7, <2>10, <3>5, ReservationKept
      <4>2. ~ Bound(sock)
        BY <2>7, <3>5, NotYetBound
      <4> QED BY <1>1, <2>6, <2>9, <2>11, <2>13, <3>1, <3>3, <3>4, <4>1, <4>2, ForwardSent
    <3>6. CASE socks[sock].status = "BOUND"
      <4>1. OfUdp(sock) /\ c.srcport = PortOf(socks[sock])
        BY <2>10, <2>13, <3>6 DEF OfUdp
      <4>2. Named(sock)
        BY <3>6, <4>1 DEF DataInv, Stocked, StockOf, OfUdp, Named
      <4>3. ports'[c.srcport] # 0 /\ c.srcport # PORT_NONE
        BY <2>4, <3>6, <4>1, <4>2 DEF PortInv, Shapes, RecordShape, Held, Named
      <4>4. socks[sock].connection.dest = IP_ADDRESS_ANY /\ socks[sock].connection.destport = PORT_ANY
        BY <3>6, <4>1 DEF ForwardInv, Opens, FarEnd, OfUdp
      <4>5. Matches(socks[sock].connection, c)
        BY <2>10, <3>6, <4>1, <4>4
        DEF Matches, MatchesSource, MatchesDest, AddressesMatch, PortsMatch, PortOf
      <4> QED BY <1>1, <2>6, <2>9, <2>11, <2>13, <3>1, <3>3, <3>4, <4>1, <4>2, <4>3, <4>5,
                 ForwardSent DEF Bound
    <3> QED BY <2>4, <3>5, <3>6
  <2> QED BY <2>12, <2>13
<1> QED BY <1>3, <1>4

\* A socket that is closed has its CLOSE sent: the list has its entry.
LEMMA CloseForward ==
  ASSUME TypeOK, TypeOK', UdpAnswersPair, CallInv, PortInv, ForwardInv, mCLOSE, UNCHANGED clist
  PROVE  ForwardInv'
<1>1. AppReceive("mCLOSE")
  BY DEF mCLOSE
<1>2. PICK sock \in Sock : sock = AppRequest.sockfd
  BY <1>1, RequestTaken
<1>3. CASE \E err : Refuse(sock, err)
  BY <1>1, <1>3, RefusedForward
<1>4. CASE ~ \E err : Refuse(sock, err)
  <2>1. PICK c : c = socks[sock].connection
    OBVIOUS
  <2>2. PICK s : s = Request("CLOSE", c, <<>>)
    OBVIOUS
  <2>3. /\ socks[sock].toApp /\ SendRequest(s, sock) /\ UNCHANGED ports
        /\ socks' = CloseSocket(socks, sock)
    BY <1>2, <1>4, <2>1, <2>2 DEF mCLOSE
  <2>4. s.type = "CLOSE" /\ s.connection = c
    BY <2>2, RequestAt
  <2>5. OthersKept(socks, socks', sock) /\ socks'[sock] = FreeRecord
    BY <2>3, CloseSocketAt DEF TypeOK, SockTypeOK
  <2>6. CASE c.protocol # "UDP"
    <3>1. ~ Bound(sock)
      BY <2>1, <2>6 DEF Bound, OfUdp
    <3>2. Steady(sock)
      BY <2>5, <3>1, SteadyClosed
    <3> QED BY <1>1, <2>3, <2>4, <2>5, <2>6, <3>2, SentForward DEF ReservationsKept
  <2>7. CASE c.protocol = "UDP"
    <3>1. Bound(sock)
      <4>1. AppRequest \in Range(socklib2sock) /\ AppRequest.type = "mCLOSE"
        BY <1>1, CallTypes, RequestTaken, RangeTail DEF AppRequest
      <4>2. socks[sock].status # "FREE"
        BY <2>3 DEF ForwardInv, Opens, FarEnd
      <4>3. Named(sock)
        BY <1>2, <4>1, <4>2 DEF ForwardInv, Closing
      <4> QED BY <2>1, <2>7, <4>3 DEF Bound, OfUdp
    <3>2. PICK p : p = c.srcport
      OBVIOUS
    <3>3. PortOf(s) = p /\ PortOf(socks[sock]) = p /\ p # PORT_NONE
      BY <2>1, <2>4, <3>1, <3>2 DEF PortOf, Bound, Named
    <3>4. Alone(sock) /\ ports[p] # 0
      <4>1. Held(sock) /\ sock # 0
        <5>1. socks[sock].connection # NoConnection
          BY <2>1, <2>7 DEF NoConnection
        <5> QED BY <3>1, <5>1 DEF PortInv, Shapes, RecordShape, Bound
      <4>2. Alone(sock)
        BY <3>1 DEF PortInv, Shapes, PortUse, Unused, Bound
      <4> QED BY <3>3, <4>1, <4>2 DEF Held
    <3>5. /\ socklib2sock' = <<>> /\ NoneRelayed
          /\ \A r \in Range(udpq) : r.type # "FORWARD"
      BY <1>1, RequestTaken DEF NoneRelayed
    <3>6. Asked("FORWARD") = {}
      BY <3>5, NoForwardAsked
    <3>7. sock2udp' = Append(sock2udp, s) /\ UNCHANGED <<clist, ports, udp2sock>>
      BY <2>3, <2>4, <2>7 DEF SendRequest, SendUDPRequest
    <3>8. /\ sock2udp \in Seq(SockRequestResponse) /\ sock2udp' \in Seq(SockRequestResponse)
      BY DEF TypeOK, FifosTypeOK
    <3>9. s \in SockRequestResponse
      BY <3>7, <3>8, Appended
    <3>10. Range(sock2udp') = Range(sock2udp) \cup {s}
      BY <3>7, <3>8, <3>9, RangeAppend
    <3>11. /\ Asked("FORWARD")' = {} /\ Asked("CLOSE")' = Asked("CLOSE") \cup {s}
           /\ Changes' = Changes \cup {s}
      BY <2>4, <3>6, <3>10 DEF Asked, Changes
    <3>12. c \in Range(clist)
      BY <2>1, <3>1, <3>6 DEF ForwardInv, Accounted
    <3>13. \A m \in Changes : PortOf(m) # p
      BY <3>1, <3>3, <3>6 DEF ForwardInv, Accounted, Changes
    <3>14. OneForEach'
      <4>1. \A d : Forwarded(d) => Forwarded(d)'
        BY <3>7 DEF Forwarded
      <4>2. \A m \in Changes' : Forwarded(m.connection)'
        BY <2>4, <2>7, <3>2, <3>3, <3>4, <3>7, <3>11, <4>1 DEF ForwardInv, OneForEach, Forwarded
      <4>3. \A e \in Range(clist') : Forwarded(e)'
        BY <3>7, <4>1 DEF ForwardInv, OneForEach
      <4>4. ASSUME NEW q \in Port
            PROVE  Once(sock2udp', ChangesTo(q)) /\ Once(clist', EntriesOf(q))
        <5>1. Once(sock2udp, ChangesTo(q)) /\ Once(clist, EntriesOf(q))
          BY DEF ForwardInv, OneForEach
        <5>2. s \in ChangesTo(q) => Range(sock2udp) \cap ChangesTo(q) = {}
          BY <3>3, <3>13 DEF ChangesTo, Changes, Asked
        <5>3. Once(Append(sock2udp, s), ChangesTo(q))
          BY <3>8, <3>9, <5>1, <5>2, OnceAppend
        <5> QED BY <3>7, <5>1, <5>3
      <4> QED BY <4>2, <4>3, <4>4 DEF OneForEach
    <3>15. /\ ~ Bound(sock)'
           /\ \A i \in Sock : i # sock => /\ Bound(i)' <=> Bound(i)
                                          /\ socks'[i] = socks[i]
      BY <2>5 DEF Bound, OfUdp, Named, PortOf, OthersKept, FreeRecord, NoConnection
    <3>16. Accounted'
      <4>1. \A m \in Asked("FORWARD")' :
              /\ \E i \in Sock : Bound(i)' /\ socks'[i].connection = m.connection
              /\ \A e \in Range(clist') : e.srcport = PortOf(m) => Matches(e, m.connection)
        BY <3>11
      <4>2. \A m \in Asked("CLOSE")' :
              /\ m.connection \in Range(clist')
              /\ \A i \in Sock : Bound(i)' => PortOf(socks'[i]) # PortOf(m)
        <5>1. s.connection \in Range(clist')
          BY <2>4, <3>7, <3>12
        <5>2. \A i \in Sock : Bound(i)' => PortOf(socks'[i]) # PortOf(s)
          BY <3>3, <3>4, <3>15 DEF Alone
        <5>3. ASSUME NEW m \in Asked("CLOSE")
              PROVE  /\ m.connection \in Range(clist')
                     /\ \A i \in Sock : Bound(i)' => PortOf(socks'[i]) # PortOf(m)
          BY <3>7, <3>15 DEF ForwardInv, Accounted
        <5> QED BY <3>11, <5>1, <5>2, <5>3
      <4>3. \A i \in Sock : Bound(i)' =>
              \/ socks'[i].connection \in Range(clist')
              \/ \E m \in Asked("FORWARD")' : m.connection = socks'[i].connection
        BY <3>6, <3>7, <3>15 DEF ForwardInv, Accounted
      <4>4. \A e \in Range(clist') :
              \/ \E i \in Sock : Bound(i)' /\ socks'[i].connection = e
              \/ \E m \in Changes' : PortOf(m) = e.srcport
        <5> SUFFICES ASSUME NEW e \in Range(clist)
                     PROVE  \/ \E i \in Sock : Bound(i)' /\ socks'[i].connection = e
                            \/ \E m \in Changes' : PortOf(m) = e.srcport
          BY <3>7
        <5>1. CASE e.srcport = p
          BY <3>3, <3>11, <5>1
        <5>2. CASE \E m \in Changes : PortOf(m) = e.srcport
          BY <3>11, <5>2
        <5>3. CASE e.srcport # p /\ \E i \in Sock : Bound(i) /\ socks[i].connection = e
          <6>1. PICK i \in Sock : Bound(i) /\ socks[i].connection = e
            BY <5>3
          <6>2. i # sock
            BY <3>3, <5>3, <6>1 DEF PortOf
          <6> QED BY <3>15, <6>1, <6>2
        <5> QED BY <5>1, <5>2, <5>3 DEF ForwardInv, Accounted
      <4> QED BY <4>1, <4>2, <4>3, <4>4 DEF Accounted
    <3>17. NothingRefused'
      BY <3>7 DEF ForwardInv, NothingRefused
    <3>18. Opens'
      <4>1. FarEnd(FreeRecord)
        BY DEF FarEnd, FreeRecord, NoConnection
      <4> QED BY <2>5, <3>5, <3>15, <4>1 DEF ForwardInv, Opens
    <3>19. Closing'
      <4>1. Range(<<>>) = {}
        BY DEF Range
      <4> QED BY <3>5, <4>1 DEF Closing
    <3> QED BY <3>14, <3>16, <3>17, <3>18, <3>19 DEF ForwardInv
  <2> QED BY <2>6, <2>7
<1> QED BY <1>3, <1>4

\* Any request of the application.
LEMMA AppRequestForward ==
  ASSUME TypeOK, TypeOK', UdpAnswersPair, CallInv, PortInv, DataInv, ForwardInv,
         ProcessAppRequest, UNCHANGED clist
  PROVE  ForwardInv'
<1>1. CASE UnservedRequest
  BY <1>1, RefusedForward DEF UnservedRequest
<1> QED BY <1>1, SocketForward, BindForward, ListenForward, AcceptRequestForward,
        ConnectForward, ReadForward, WriteForward, CloseForward DEF ProcessAppRequest

-----------------------------------------------------------------------------
(***************************************************************************)
(* udp_module changes its list.                                            *)
(***************************************************************************)

\* A request that changes the list is taken: no other is about its port.
LEMMA ChangeTaken ==
  ASSUME TypeOK, ForwardInv, sock2udp # <<>>, sock2udp' = Tail(sock2udp),
         NEW req, req = Head(sock2udp), req.type \in {"FORWARD", "CLOSE"}
  PROVE  /\ req \in Asked(req.type) /\ req \in Changes
         /\ req.connection \in Connection /\ PortOf(req) \in Port
         /\ Forwarded(req.connection)
         /\ \A type \in {"FORWARD", "CLOSE"} :
              Asked(type)' = {m \in Asked(type) : PortOf(m) # PortOf(req)}
         /\ Changes' = {m \in Changes : PortOf(m) # PortOf(req)}
         /\ \A q \in Port : Once(sock2udp', ChangesTo(q))
<1>1. sock2udp \in Seq(SockRequestResponse)
  BY ForwardTypes
<1>2. /\ Range(sock2udp) = {req} \cup Range(sock2udp')
  BY <1>1, RangeTail
<1>3. req \in Asked(req.type) /\ req \in Changes
  BY <1>2 DEF Asked, Changes
<1>4. req \in SockRequestResponse /\ req.connection \in Connection /\ PortOf(req) \in Port
  BY <1>2, ForwardTypes
<1>5. Forwarded(req.connection)
  BY <1>3 DEF ForwardInv, OneForEach
<1>6. /\ Once(sock2udp, ChangesTo(PortOf(req))) /\ req \in ChangesTo(PortOf(req))
  BY <1>4 DEF ForwardInv, OneForEach, ChangesTo
<1>7. Range(sock2udp') \cap ChangesTo(PortOf(req)) = {}
  BY <1>1, <1>6, OnceTail
<1>8. \A m \in Range(sock2udp') : m \in SockRequestResponse
  BY <1>2, ForwardTypes
<1>9. \A type \in {"FORWARD", "CLOSE"} :
        Asked(type)' = {m \in Asked(type) : PortOf(m) # PortOf(req)}
  BY <1>2, <1>7, <1>8 DEF Asked, ChangesTo
<1>10. Changes' = {m \in Changes : PortOf(m) # PortOf(req)}
  BY <1>9 DEF Changes
<1>11. \A q \in Port : Once(sock2udp', ChangesTo(q))
  BY <1>1, OnceTail DEF ForwardInv, OneForEach
<1> QED BY <1>3, <1>4, <1>5, <1>9, <1>10, <1>11

\* An answer to sock_module that refuses nothing.
LEMMA NothingRefusedBy ==
  ASSUME TypeOK, TypeOK', NothingRefused, NEW req, NEW n, UDPReply(req, n, "EOK")
  PROVE  NothingRefused'
<1>1. PICK e : e = StatusReply(req, <<>>, n, "EOK")
  OBVIOUS
<1>2. e.error = "EOK" /\ udp2sock' = Append(udp2sock, e)
  BY <1>1 DEF UDPReply, StatusReply
<1>3. udp2sock \in Seq(SockRequestResponse) /\ udp2sock' \in Seq(SockRequestResponse)
  BY DEF TypeOK, FifosTypeOK
<1>4. e \in SockRequestResponse
  BY <1>2, <1>3, Appended
<1>5. Range(udp2sock') = Range(udp2sock) \cup {e}
  BY <1>2, <1>3, <1>4, RangeAppend
<1> QED BY <1>2, <1>5 DEF NothingRefused

\* Only the list and the FIFOs of udp_module change.
LEMMA SocketsForward ==
  ASSUME ForwardInv, UNCHANGED <<socks, udpq, socklib2sock>>
  PROVE  /\ Opens' /\ Closing'
         /\ \A i \in Sock : Bound(i)' <=> Bound(i)
<1>1. \A i \in Sock : (Bound(i)' <=> Bound(i)) /\ (FarEnd(socks'[i]) <=> FarEnd(socks[i]))
  BY DEF Bound, OfUdp, Named, PortOf
<1>2. Opens'
  BY <1>1 DEF ForwardInv, Opens
<1>3. Closing'
  BY DEF ForwardInv, Closing, Named, PortOf
<1> QED BY <1>1, <1>2, <1>3

\* A FORWARD replaces the entry of its port, if there is one.
LEMMA HandleForwardForward ==
  ASSUME TypeOK, TypeOK', PortInv, ForwardInv, sock2udp # <<>>, sock2udp' = Tail(sock2udp),
         NEW req, req = Head(sock2udp), HandleForward(req),
         UNCHANGED <<socks, ports, udpq, socklib2sock>>
  PROVE  ForwardInv'
<1>1. PICK c : c = req.connection
  OBVIOUS
<1>2. PICK p : p = c.srcport
  OBVIOUS
<1>3. PICK i : i = FindMatching(clist, c)
  OBVIOUS
<1>4. PICK rest : rest = Erase(clist, i)
  OBVIOUS
<1>5. req.type = "FORWARD" /\ clist' = Append(rest, c) /\ UDPReply(req, 0, "EOK")
  BY <1>1, <1>3, <1>4 DEF HandleForward
<1>6. /\ req \in Asked("FORWARD") /\ c \in Connection /\ p \in Port /\ PortOf(req) = p
      /\ Forwarded(c)
      /\ Asked("FORWARD")' = {m \in Asked("FORWARD") : PortOf(m) # p}
      /\ Asked("CLOSE")' = {m \in Asked("CLOSE") : PortOf(m) # p}
      /\ Changes' = {m \in Changes : PortOf(m) # p}
      /\ \A q \in Port : Once(sock2udp', ChangesTo(q))
  BY <1>1, <1>2, <1>5, ChangeTaken DEF PortOf
<1>7. PICK owner \in Sock : Bound(owner) /\ socks[owner].connection = c
  BY <1>1, <1>6 DEF ForwardInv, Accounted
<1>8. \A e \in Range(clist) : e.srcport = p => Matches(e, c)
  BY <1>1, <1>6 DEF ForwardInv, Accounted
<1>9. /\ \A e \in Range(clist) : e.srcport # PORT_NONE
      /\ \A q \in Port : Once(clist, EntriesOf(q))
      /\ clist \in Seq(Connection) /\ c.srcport # PORT_NONE
  BY <1>6, ForwardTypes DEF ForwardInv, OneForEach, Forwarded
<1>10. /\ rest \in Seq(Connection)
       /\ Range(rest) = {e \in Range(clist) : e.srcport # p}
       /\ \A q \in Port : Once(rest, EntriesOf(q))
  BY <1>2, <1>3, <1>4, <1>6, <1>8, <1>9, ErasedEntry
<1>11. Range(clist') = Range(rest) \cup {c}
  BY <1>5, <1>6, <1>10, RangeAppend
<1>12. \A j \in Sock : Bound(j) /\ PortOf(socks[j]) = p => j = owner
  <2>1. Alone(owner)
    BY <1>7 DEF PortInv, Shapes, PortUse, Unused, Bound
  <2>2. PortOf(socks[owner]) = p
    BY <1>2, <1>7 DEF PortOf
  <2> QED BY <2>1, <2>2 DEF Alone
<1>13. OneForEach'
  <2>1. \A d : Forwarded(d) => Forwarded(d)'
    BY DEF Forwarded
  <2>2. \A m \in Changes' : Forwarded(m.connection)'
    BY <1>6, <2>1 DEF ForwardInv, OneForEach
  <2>3. \A e \in Range(clist') : Forwarded(e)'
    BY <1>6, <1>10, <1>11, <2>1 DEF ForwardInv, OneForEach
  <2>4. ASSUME NEW q \in Port PROVE Once(clist', EntriesOf(q))
    <3>1. c \in EntriesOf(q) => Range(rest) \cap EntriesOf(q) = {}
      BY <1>2, <1>10 DEF EntriesOf
    <3>2. Once(Append(rest, c), EntriesOf(q))
      BY <1>6, <1>10, <3>1, OnceAppend
    <3> QED BY <1>5, <3>2
  <2> QED BY <1>6, <2>2, <2>3, <2>4 DEF OneForEach
<1>14. Opens' /\ Closing' /\ \A j \in Sock : Bound(j)' <=> Bound(j)
  BY SocketsForward
<1>15. Accounted'
  <2>1. \A m \in Asked("FORWARD")' :
          /\ \E j \in Sock : Bound(j)' /\ socks'[j].connection = m.connection
          /\ \A e \in Range(clist') : e.srcport = PortOf(m) => Matches(e, m.connection)
    BY <1>2, <1>6, <1>10, <1>11, <1>14 DEF ForwardInv, Accounted
  <2>2. \A m \in Asked("CLOSE")' :
          /\ m.connection \in Range(clist')
          /\ \A j \in Sock : Bound(j)' => PortOf(socks'[j]) # PortOf(m)
    BY <1>6, <1>10, <1>11, <1>14 DEF ForwardInv, Accounted, PortOf
  <2>3. \A j \in Sock : Bound(j)' =>
          \/ socks'[j].connection \in Range(clist')
          \/ \E m \in Asked("FORWARD")' : m.connection = socks'[j].connection
    <3> SUFFICES ASSUME NEW j \in Sock, Bound(j)
                 PROVE  \/ socks[j].connection \in Range(clist')
                        \/ \E m \in Asked("FORWARD")' : m.connection = socks[j].connection
      BY <1>14
    <3>1. CASE PortOf(socks[j]) = p
      BY <1>7, <1>11, <1>12, <3>1
    <3>2. CASE PortOf(socks[j]) # p
      BY <1>6, <1>10, <1>11, <3>2 DEF ForwardInv, Accounted, PortOf
    <3> QED BY <3>1, <3>2
  <2>4. \A e \in Range(clist') :
          \/ \E j \in Sock : Bound(j)' /\ socks'[j].connection = e
          \/ \E m \in Changes' : PortOf(m) = e.srcport
    <3> SUFFICES ASSUME NEW e \in Range(clist')
                 PROVE  \/ \E j \in Sock : Bound(j) /\ socks[j].connection = e
                        \/ \E m \in Changes' : PortOf(m) = e.srcport
      BY <1>14
    <3>1. CASE e = c
      BY <1>7, <3>1
    <3>2. CASE e # c
      BY <1>6, <1>10, <1>11, <3>2 DEF ForwardInv, Accounted
    <3> QED BY <3>1, <3>2
  <2> QED BY <2>1, <2>2, <2>3, <2>4 DEF Accounted
<1>16. NothingRefused'
  BY <1>5, NothingRefusedBy DEF ForwardInv
<1> QED BY <1>13, <1>14, <1>15, <1>16 DEF ForwardInv

\* A CLOSE takes the entry of its port, which is there.
LEMMA HandleCloseForward ==
  ASSUME TypeOK, TypeOK', ForwardInv, sock2udp # <<>>, sock2udp' = Tail(sock2udp),
         NEW req, req = Head(sock2udp), HandleClose(req),
         UNCHANGED <<socks, ports, udpq, socklib2sock>>
  PROVE  ForwardInv'
<1>1. PICK c : c = req.connection
  OBVIOUS
<1>2. PICK p : p = c.srcport
  OBVIOUS
<1>3. PICK i : i = FindMatching(clist, c)
  OBVIOUS
<1>4. PICK err : err = IF i = 0 THEN "ENOMATCH" ELSE "EOK"
  OBVIOUS
<1>5. req.type = "CLOSE" /\ clist' = Erase(clist, i) /\ UDPReply(req, 0, err)
  BY <1>1, <1>3, <1>4 DEF HandleClose
<1>6. /\ req \in Asked("CLOSE") /\ c \in Connection /\ p \in Port /\ PortOf(req) = p
      /\ Forwarded(c)
      /\ Asked("FORWARD")' = {m \in Asked("FORWARD") : PortOf(m) # p}
      /\ Asked("CLOSE")' = {m \in Asked("CLOSE") : PortOf(m) # p}
      /\ Changes' = {m \in Changes : PortOf(m) # p}
      /\ \A q \in Port : Once(sock2udp', ChangesTo(q))
  BY <1>1, <1>2, <1>5, ChangeTaken DEF PortOf
<1>7. c \in Range(clist) /\ \A j \in Sock : Bound(j) => PortOf(socks[j]) # p
  BY <1>1, <1>6 DEF ForwardInv, Accounted
<1>8. /\ \A e \in Range(clist) : e.srcport # PORT_NONE
      /\ \A q \in Port : Once(clist, EntriesOf(q))
      /\ clist \in Seq(Connection) /\ c.srcport # PORT_NONE
  BY <1>6, ForwardTypes DEF ForwardInv, OneForEach, Forwarded
<1>9. \A e \in Range(clist) : e.srcport = p => Matches(e, c)
  <2>1. \A e \in Range(clist) : e.srcport = p => e = c
    BY <1>2, <1>6, <1>7, <1>8, ForwardTypes DEF Once, EntriesOf, Range
  <2>2. Matches(c, c)
    BY DEF Matches, MatchesSource, MatchesDest, AddressesMatch, PortsMatch
  <2> QED BY <2>1, <2>2
<1>10. PICK rest : rest = Erase(clist, i)
  OBVIOUS
<1>11. /\ rest \in Seq(Connection)
       /\ Range(rest) = {e \in Range(clist) : e.srcport # p}
       /\ \A q \in Port : Once(rest, EntriesOf(q))
       /\ i = 0 => \A e \in Range(clist) : e.srcport # p
  BY <1>2, <1>3, <1>6, <1>8, <1>9, <1>10, ErasedEntry
<1>12. err = "EOK"
  BY <1>2, <1>4, <1>7, <1>11
<1>13. clist' = rest
  BY <1>5, <1>10
<1>14. OneForEach'
  <2>1. \A d : Forwarded(d) => Forwarded(d)'
    BY DEF Forwarded
  <2> QED BY <1>6, <1>11, <1>13, <2>1 DEF ForwardInv, OneForEach
<1>15. Opens' /\ Closing' /\ \A j \in Sock : Bound(j)' <=> Bound(j)
  BY SocketsForward
<1>16. Accounted'
  <2>1. \A m \in Asked("FORWARD")' :
          /\ \E j \in Sock : Bound(j)' /\ socks'[j].connection = m.connection
          /\ \A e \in Range(clist') : e.srcport = PortOf(m) => Matches(e, m.connection)
    BY <1>6, <1>11, <1>13, <1>15 DEF ForwardInv, Accounted
  <2>2. \A m \in Asked("CLOSE")' :
          /\ m.connection \in Range(clist')
          /\ \A j \in Sock : Bound(j)' => PortOf(socks'[j]) # PortOf(m)
    BY <1>6, <1>11, <1>13, <1>15 DEF ForwardInv, Accounted, PortOf
  <2>3. \A j \in Sock : Bound(j)' =>
          \/ socks'[j].connection \in Range(clist')
          \/ \E m \in Asked("FORWARD")' : m.connection = socks'[j].connection
    BY <1>6, <1>7, <1>11, <1>13, <1>15 DEF ForwardInv, Accounted, PortOf
  <2>4. \A e \in Range(clist') :
          \/ \E j \in Sock : Bound(j)' /\ socks'[j].connection = e
          \/ \E m \in Changes' : PortOf(m) = e.srcport
    BY <1>6, <1>11, <1>13, <1>15 DEF ForwardInv, Accounted
  <2> QED BY <2>1, <2>2, <2>3, <2>4 DEF Accounted
<1>17. NothingRefused'
  BY <1>5, <1>12, NothingRefusedBy DEF ForwardInv
<1> QED BY <1>14, <1>15, <1>16, <1>17 DEF ForwardInv

\* A WRITE or a STATUS of sock_module leaves the list alone.
LEMMA OtherRequestForward ==
  ASSUME TypeOK, TypeOK', ForwardInv, sock2udp # <<>>, sock2udp' = Tail(sock2udp),
         NEW req, req = Head(sock2udp), HandleWrite(req) \/ HandleStatus(req),
         UNCHANGED <<socks, ports, udpq, socklib2sock>>
  PROVE  ForwardInv'
<1>1. UNCHANGED clist /\ req.type \notin {"FORWARD", "CLOSE"}
  BY DEF HandleWrite, HandleStatus
<1>2. sock2udp \in Seq(SockRequestResponse)
  BY ForwardTypes
<1>3. Range(sock2udp) = {req} \cup Range(sock2udp')
  BY <1>2, RangeTail
<1>4. Asked("FORWARD")' = Asked("FORWARD") /\ Asked("CLOSE")' = Asked("CLOSE")
  BY <1>1, <1>3 DEF Asked
<1>5. \A p \in Port : Once(sock2udp, ChangesTo(p)) => Once(sock2udp', ChangesTo(p))
  BY <1>2, OnceTail
<1>6. \A m \in Range(udp2sock') : m \in Range(udp2sock) \/ m.error = "EOK"
  <2>1. CASE UNCHANGED udp2sock
    BY <2>1
  <2>2. CASE \E n : UDPReply(req, n, "EOK")
    <3>1. PICK n : UDPReply(req, n, "EOK")
      BY <2>2
    <3>2. PICK e : e = StatusReply(req, <<>>, n, "EOK")
      OBVIOUS
    <3>3. e.error = "EOK" /\ udp2sock' = Append(udp2sock, e)
      BY <3>1, <3>2 DEF UDPReply, StatusReply
    <3>4. udp2sock \in Seq(SockRequestResponse) /\ udp2sock' \in Seq(SockRequestResponse)
      BY DEF TypeOK, FifosTypeOK
    <3>5. e \in SockRequestResponse
      BY <3>3, <3>4, Appended
    <3>6. Range(udp2sock') = Range(udp2sock) \cup {e}
      BY <3>3, <3>4, <3>5, RangeAppend
    <3> QED BY <3>3, <3>6
  <2> QED BY <2>1, <2>2 DEF HandleWrite, HandleStatus
<1>7. ListKept /\ ReservationsKept
  BY <1>1, <1>4, <1>5, <1>6 DEF ListKept, ReservationsKept
<1>8. /\ \A i \in Sock : Steady(i)
      /\ \A i \in Sock : Closable(i) => Closable(i)'
  BY SteadyAll
<1> QED BY <1>7, <1>8, ForwardSteady

\* udp_module serves a request, or passes a datagram up.
LEMMA UdpModuleForward ==
  ASSUME TypeOK, TypeOK', PortInv, ForwardInv, UdpFromSock \/ UdpFromMux
  PROVE  ForwardInv'
<1>1. UNCHANGED <<socks, ports, udpq, socklib2sock>>
  BY DEF UdpFromSock, UdpFromMux, appFifos, sockVars
<1>2. CASE UdpFromSock
  <2>1. PICK req : req = Head(sock2udp)
    OBVIOUS
  <2>2. /\ sock2udp # <<>> /\ sock2udp' = Tail(sock2udp)
        /\ HandleForward(req) \/ HandleWrite(req) \/ HandleClose(req) \/ HandleStatus(req)
    BY <1>2, <2>1 DEF UdpFromSock, HandleSock
  <2> QED BY <1>1, <2>1, <2>2, HandleForwardForward, HandleCloseForward, OtherRequestForward
<1>3. CASE UdpFromMux
  <2>1. PICK d \in Datagram : HandleMux(d)
    BY <1>3 DEF UdpFromMux
  <2>2. /\ UNCHANGED <<clist, sock2udp>>
        /\ \/ UNCHANGED udp2sock
           \/ \E m : udp2sock' = Append(udp2sock, m) /\ m.type = "WRITE"
    BY <2>1 DEF HandleMux
  <2>3. \A m \in Range(udp2sock') : m \in Range(udp2sock) \/ m.type = "WRITE"
    <3>1. CASE UNCHANGED udp2sock
      BY <3>1
    <3>2. CASE \E m : udp2sock' = Append(udp2sock, m) /\ m.type = "WRITE"
      <4>1. PICK m : udp2sock' = Append(udp2sock, m) /\ m.type = "WRITE"
        BY <3>2
      <4>2. udp2sock \in Seq(SockRequestResponse) /\ udp2sock' \in Seq(SockRequestResponse)
        BY DEF TypeOK, FifosTypeOK
      <4>3. m \in SockRequestResponse
        BY <4>1, <4>2, Appended
      <4>4. Range(udp2sock') = Range(udp2sock) \cup {m}
        BY <4>1, <4>2, <4>3, RangeAppend
      <4> QED BY <4>1, <4>4
    <3> QED BY <2>2, <3>1, <3>2
  <2>4. ListKept /\ ReservationsKept
    BY <1>1, <2>2, <2>3 DEF ListKept, ReservationsKept, Asked
  <2>5. /\ \A i \in Sock : Steady(i)
        /\ \A i \in Sock : Closable(i) => Closable(i)'
    BY <1>1, SteadyAll
  <2> QED BY <2>4, <2>5, ForwardSteady
<1> QED BY <1>2, <1>3

\* The application asks, and may close only what it has bound; the reply comes.
LEMMA ApplicationForward ==
  ASSUME ClosesUnbound = FALSE, TypeOK, TypeOK', CallInv, ForwardInv, Application
  PROVE  ForwardInv'
<1>1. /\ call = NoCall /\ UNCHANGED <<clist, sock2udp, udp2sock, socks, ports, udpq>>
      /\ \E m : /\ socklib2sock' = Append(socklib2sock, m)
                /\ m.type = "mCLOSE" => MayClose(m.sockfd)
                /\ m.type = "mCONNECT" => m.connection.destport \in PeerPorts
  <2> DEFINE Proper(m) == /\ m.type = "mCLOSE" => MayClose(m.sockfd)
                          /\ m.type = "mCONNECT" => m.connection.destport \in PeerPorts
             Asks == \E m : socklib2sock' = Append(socklib2sock, m) /\ Proper(m)
  <2>1. ApplicationCall /\ UNCHANGED <<clist, sock2udp, udp2sock, socks, ports, udpq>>
    BY DEF Application, udpFifos, sockVars, udpVars
  <2>2. ASSUME NEW type \in SlrrType \ {"mCLOSE", "mCONNECT"}, NEW sockfd, NEW c, NEW data,
               Call(type, sockfd, c, data)
        PROVE  call = NoCall /\ Asks
    BY <2>2 DEF Call
  <2>3. UnservedType \subseteq SlrrType \ {"mCLOSE", "mCONNECT"}
    BY DEF SlrrType, UnservedType
  <2>4. ASSUME NEW protocol \in Protocols, minet_socket(protocol)
        PROVE  call = NoCall /\ Asks
    <3>1. PICK c : c = [NoConnection EXCEPT !.protocol = protocol]
      OBVIOUS
    <3>2. Call("mSOCKET", 0, c, <<>>)
      BY <2>4, <3>1 DEF minet_socket
    <3> HIDE DEF Asks
    <3> QED BY <2>2, <3>2 DEF SlrrType
  <2>5. ASSUME NEW sockfd \in Sock, NEW addr, NEW port, minet_bind(sockfd, addr, port)
        PROVE  call = NoCall /\ Asks
    BY <2>2, <2>5 DEF minet_bind, SlrrType
  <2>6. ASSUME NEW sockfd \in Sock, minet_listen(sockfd) \/ minet_accept(sockfd)
                                      \/ minet_read(sockfd)
        PROVE  call = NoCall /\ Asks
    BY <2>2, <2>6 DEF minet_listen, minet_accept, minet_read, SlrrType
  <2>7. ASSUME NEW sockfd \in Sock, NEW len, minet_write(sockfd, len)
        PROVE  call = NoCall /\ Asks
    BY <2>2, <2>7 DEF minet_write, SlrrType
  <2>8. ASSUME NEW sockfd \in Sock, NEW type \in Unserved, minet_unserved(type, sockfd)
        PROVE  call = NoCall /\ Asks
    BY <2>2, <2>3, <2>8, SockLibAssumption DEF minet_unserved
  <2>9. ASSUME NEW sockfd \in Sock, MayClose(sockfd), minet_close(sockfd)
        PROVE  call = NoCall /\ Asks
    BY <2>9 DEF minet_close, Call
  <2>10. ASSUME NEW sockfd \in Sock, NEW host \in Remotes, NEW port \in PeerPorts,
                minet_connect(sockfd, host, port)
         PROVE  call = NoCall /\ Asks
    <3>1. PICK c : c = [NoConnection EXCEPT !.dest = host, !.destport = port]
      OBVIOUS
    <3>2. Call("mCONNECT", sockfd, c, <<>>)
      BY <2>10, <3>1 DEF minet_connect
    <3>3. c.destport = port
      BY <3>1 DEF NoConnection
    <3>4. PICK m : m = [type |-> "mCONNECT", sockfd |-> sockfd, connection |-> c, data |-> <<>>]
      OBVIOUS
    <3>5. Proper(m)
      BY <3>3, <3>4
    <3>6. call = NoCall /\ socklib2sock' = Append(socklib2sock, m)
      BY <3>2, <3>4 DEF Call
    <3> QED BY <3>5, <3>6
  <2>11. call = NoCall /\ Asks
    BY <2>1, <2>4, <2>5, <2>6, <2>7, <2>8, <2>9, <2>10 DEF ApplicationCall
  <2> QED BY <2>1, <2>11
<1>2. PICK m : /\ socklib2sock' = Append(socklib2sock, m)
               /\ m.type = "mCLOSE" => MayClose(m.sockfd)
               /\ m.type = "mCONNECT" => m.connection.destport \in PeerPorts
  BY <1>1
<1>3. socklib2sock \in Seq(SockLibRequest) /\ socklib2sock' \in Seq(SockLibRequest)
  BY DEF TypeOK, FifosTypeOK
<1>4. m \in SockLibRequest /\ socklib2sock = <<>>
  BY <1>1, <1>2, <1>3, Appended DEF CallInv, OneMessage
<1>5. Range(socklib2sock') = {m}
  BY <1>2, <1>3, <1>4, OnlyMessage
<1>6. Closing'
  <2>1. m.type = "mCLOSE" => socks'[m.sockfd].status = "FREE" \/ Named(m.sockfd)'
    BY <1>1, <1>2 DEF MayClose, Named, PortOf
  <2>2. m.type = "mCONNECT" => m.connection.destport # PORT_ANY
    BY <1>2, SockIntAssumption DEF PORT_ANY, PORT_NONE
  <2> QED BY <1>5, <2>1, <2>2 DEF Closing
<1>7. OneForEach' /\ Accounted' /\ NothingRefused' /\ Opens'
  BY <1>1 DEF ForwardInv, OneForEach, Accounted, NothingRefused, Opens, Forwarded, Asked, Changes,
              Bound, OfUdp, Named, PortOf
<1> QED BY <1>6, <1>7 DEF ForwardInv

\* Every step.
LEMMA ForwardKept ==
  ASSUME ClosesUnbound = FALSE, SocketInv, SocketInv', DataInv, ForwardInv, [Next]_vars
  PROVE  ForwardInv'
<1>1. TypeOK /\ TypeOK' /\ UdpAnswersPair /\ TcpAnswersPair /\ CallInv /\ PortInv
  BY DEF SocketInv, Pairing
<1>2. CASE /\ UNCHANGED <<clist, ports, udpFifos, udpq, socks>>
           /\ Range(socklib2sock') \subseteq Range(socklib2sock)
  <2>1. /\ \A i \in Sock : Steady(i)
        /\ \A i \in Sock : Closable(i) => Closable(i)'
    BY <1>2, SteadyAll
  <2> QED BY <1>1, <1>2, <2>1, TcpForward
<1>3. CASE UNCHANGED vars
  BY <1>2, <1>3 DEF vars, fifos, appFifos, sockVars, udpVars
<1>4. CASE CallReturn \/ TcpFromSock \/ TcpFromNetwork
  BY <1>2, <1>4 DEF CallReturn, Return, TcpFromSock, TcpFromNetwork, appFifos, sockVars, udpVars
<1>5. CASE SockProcess
  <2>1. SockModuleStep /\ UNCHANGED clist
    BY <1>5 DEF SockProcess, udpVars
  <2> QED BY <1>1, <2>1, TCPWriteForward, TCPStatusForward, UDPWriteForward, UDPStatusForward,
          AppRequestForward DEF SockModuleStep
<1>6. CASE UdpFromMux \/ UdpFromSock
  BY <1>1, <1>6, UdpModuleForward
<1>7. CASE Application
  BY <1>1, <1>7, ApplicationForward
<1> QED BY <1>3, <1>4, <1>5, <1>6, <1>7 DEF Next

LEMMA ForwardInit == Init => ForwardInv
<1> SUFFICES ASSUME Init PROVE ForwardInv
  OBVIOUS
<1>1. /\ clist = <<>> /\ sock2udp = <<>> /\ udp2sock = <<>> /\ socklib2sock = <<>>
      /\ \A i \in Sock : socks[i] = FreeRecord
  BY DEF Init, UdpInit, FifosInit, SockInit
<1>2. Range(<<>>) = {} /\ \A X : Once(<<>>, X)
  BY DEF Range, Once
<1>3. OneForEach /\ NothingRefused /\ Closing
  BY <1>1, <1>2 DEF OneForEach, NothingRefused, Closing, Changes, Asked
<1>4. \A i \in Sock : ~ Bound(i) /\ FarEnd(socks[i])
  BY <1>1 DEF Bound, OfUdp, FarEnd, FreeRecord, NoConnection
<1>5. Accounted
  BY <1>1, <1>2, <1>4 DEF Accounted, Asked
<1>6. Opens
  BY <1>4 DEF Opens
<1> QED BY <1>3, <1>5, <1>6 DEF ForwardInv

\* An entry is known by its port.
LEMMA OneEntry ==
  ASSUME SocketInv, ForwardInv, NEW c \in Range(clist), NEW d \in Range(clist),
         c.srcport = d.srcport
  PROVE  c = d
<1>1. PICK m \in DOMAIN clist, n \in DOMAIN clist : clist[m] = c /\ clist[n] = d
  BY DEF Range
<1>2. c \in Connection /\ d \in Connection
  BY ForwardTypes DEF Range, SocketInv
<1>3. PICK p \in Port : p = c.srcport
  BY <1>2 DEF Connection
<1>4. Once(clist, EntriesOf(p))
  BY DEF ForwardInv, OneForEach
<1> QED BY <1>1, <1>2, <1>3, <1>4 DEF Once, EntriesOf

\* What udp_module forwards for when it has served the requests under way are the bound
\* UDP sockets and nothing else, once for each, if the application closes no socket that
\* it has not bound (udp_module.cc FORWARD and CLOSE; sock_module.cc mBIND, mCONNECT,
\* mCLOSE).
THEOREM ForwardsFollowSockets ==
  ASSUME ClosesUnbound = FALSE
  PROVE  Spec => []ForwardsAreBoundSockets
<1>1. Init => ForwardInv
  BY ForwardInit
<1>2. SocketInv /\ SocketInv' /\ DataInv /\ ForwardInv /\ [Next]_vars => ForwardInv'
  BY ForwardKept
<1>3. SocketInv /\ ForwardInv => ForwardsAreBoundSockets
  <2> SUFFICES ASSUME SocketInv, ForwardInv
               PROVE  ForwardsAreBoundSockets
    OBVIOUS
  <2>1. \A i : i \in BoundUdp <=> i \in Sock /\ Bound(i)
    BY DEF BoundUdp, Bound, OfUdp, Named, PortOf
  <2>2. /\ Requested("FORWARD") = {m.connection : m \in Asked("FORWARD")}
        /\ Requested("CLOSE") = {m.connection : m \in Asked("CLOSE")}
    BY DEF Requested, Asked
  <2>3. ASSUME NEW c \in Untouched
        PROVE  \E i \in BoundUdp : socks[i].connection = c
    <3>1. c \in Range(clist) /\ \A m \in Changes : ~ Matches(c, m.connection)
      BY <2>2 DEF Untouched, Changes
    <3>2. ~ \E m \in Changes : PortOf(m) = c.srcport
      <4>1. \A m \in Asked("FORWARD") : PortOf(m) # c.srcport
        BY <3>1 DEF ForwardInv, Accounted, Changes
      <4>2. \A m \in Asked("CLOSE") : PortOf(m) # c.srcport
        <5> SUFFICES ASSUME NEW m \in Asked("CLOSE"), PortOf(m) = c.srcport
                     PROVE  FALSE
          OBVIOUS
        <5>1. m.connection \in Range(clist) /\ m.connection.srcport = c.srcport
          BY DEF ForwardInv, Accounted, PortOf
        <5>2. m.connection = c
          BY <3>1, <5>1, OneEntry
        <5>3. Matches(c, c)
          BY DEF Matches, MatchesSource, MatchesDest, AddressesMatch, PortsMatch
        <5> QED BY <3>1, <5>2, <5>3 DEF Changes
      <4> QED BY <4>1, <4>2 DEF Changes
    <3>3. \E i \in Sock : Bound(i) /\ socks[i].connection = c
      BY <3>1, <3>2 DEF ForwardInv, Accounted
    <3> QED BY <2>1, <3>3
  <2>4. ASSUME NEW c \in Requested("FORWARD")
        PROVE  \E i \in BoundUdp : socks[i].connection = c
    <3>1. \E i \in Sock : Bound(i) /\ socks[i].connection = c
      BY <2>2 DEF ForwardInv, Accounted
    <3> QED BY <2>1, <3>1
  <2>8. PortIsExclusive
    BY ExclusivePorts
  <2>5. ASSUME NEW i \in BoundUdp
        PROVE  socks[i].connection \in Untouched \cup Requested("FORWARD")
    <3>0. i \in Sock /\ Bound(i) BY <2>1
    <3> DEFINE c == socks[i].connection
    <3>1. CASE \E m \in Asked("FORWARD") : m.connection = c
      BY <2>2, <3>1
    <3>2. CASE c \in Range(clist) /\ ~ \E m \in Asked("FORWARD") : m.connection = c
      <4>1. Forwarded(c) /\ \A m \in Changes : Forwarded(m.connection)
        BY <3>2 DEF ForwardInv, OneForEach
      <4>2. \A m \in Changes : Matches(c, m.connection) => PortOf(m) = c.srcport
        BY <4>1 DEF Forwarded, Matches, MatchesSource, PortsMatch, PORT_ANY, PortOf
      <4>3. \A m \in Asked("FORWARD") : PortOf(m) # c.srcport
        <5> SUFFICES ASSUME NEW m \in Asked("FORWARD"), PortOf(m) = c.srcport
                     PROVE  FALSE
          OBVIOUS
        <5>1. PICK j \in Sock : Bound(j) /\ socks[j].connection = m.connection
          BY DEF ForwardInv, Accounted
        <5>2. j # i BY <3>2, <5>1
        <5>3. socks[j].connection.srcport = c.srcport BY <5>1 DEF PortOf
        <5> QED BY <2>8, <5>1, <5>2, <5>3 DEF PortIsExclusive
      <4>4. \A m \in Asked("CLOSE") : PortOf(m) # c.srcport
        BY <3>0 DEF ForwardInv, Accounted, PortOf
      <4>5. \A m \in Changes : ~ Matches(c, m.connection)
        BY <4>2, <4>3, <4>4 DEF Changes
      <4> QED BY <2>2, <3>2, <4>5 DEF Untouched, Changes
    <3> QED BY <3>0, <3>1, <3>2 DEF ForwardInv, Accounted
  <2>6. IsInjective(clist)
    <3> SUFFICES ASSUME NEW m \in DOMAIN clist, NEW n \in DOMAIN clist, clist[m] = clist[n]
                 PROVE  m = n
      BY DEF IsInjective
    <3>1. clist[m] \in Range(clist) /\ clist[m] \in Connection
      BY ForwardTypes DEF Range, SocketInv
    <3>2. PICK p \in Port : p = clist[m].srcport
      BY <3>1 DEF Connection
    <3>3. Once(clist, EntriesOf(p))
      BY DEF ForwardInv, OneForEach
    <3> QED BY <3>1, <3>2, <3>3 DEF Once, EntriesOf
  <2>7. Untouched \cup Requested("FORWARD") = {socks[i].connection : i \in BoundUdp}
    BY <2>3, <2>4, <2>5
  <2> QED BY <2>6, <2>7 DEF ForwardsAreBoundSockets
<1> QED BY <1>1, <1>2, <1>3, SocketInvariant, DataInvariant, PTL DEF Spec
==============================================================================

---------------------------- MODULE SocketProofs -----------------------------
(***************************************************************************)
(* Theorems of MinetSockets, for every number of sockets, ports and        *)
(* messages, every buffer size, every set of hosts and every bound: the    *)
(* types, and that STATUS messages and request records correspond          *)
(* (UdpAnswersPair, TcpAnswersPair).                                       *)
(***************************************************************************)
EXTENDS MinetSockets, SequenceTheorems, WellFoundedInduction, TLAPS

\* The least element of a nonempty set of naturals (FindFreeSock, FindFreePort
\* and FindMatching all take the first).
LEMMA MinProperties ==
  ASSUME NEW S \in SUBSET Nat, S # {}
  PROVE  Min(S) \in S /\ \A x \in S : Min(S) <= x
<1>1. PICK x \in S : \A y \in S : ~ (<<y, x>> \in OpToRel(<, Nat))
  BY NatLessThanWellFounded, WFMin
<1>2. ASSUME NEW y \in S
      PROVE  x =< y
  <2>1. x \in Nat /\ y \in Nat  OBVIOUS
  <2>2. <<y, x>> \in OpToRel(<, Nat) <=> y < x
    BY <2>1 DEF OpToRel
  <2>3. ~ (y < x)
    BY <1>1, <2>2, Zenon
  <2> QED BY <2>1, <2>3
<1> QED BY <1>2 DEF Min

\* A search of the forwarding list ends at one of its entries, or at 0 for
\* end().
LEMMA FindMatchingIndex ==
  ASSUME NEW list \in Seq(Connection), NEW c
  PROVE  FindMatching(list, c) \in 0 .. Len(list)
<1> DEFINE I == {i \in 1 .. Len(list) : Matches(list[i], c)}
<1>1. FindMatching(list, c) = IF I # {} THEN Min(I) ELSE 0
  BY DEF FindMatching, SelectInSeq
<1>2. I \in SUBSET Nat  OBVIOUS
<1>3. I # {} => Min(I) \in 1 .. Len(list)
  <2>1. I # {} => Min(I) \in I BY <1>2, MinProperties
  <2> QED BY <2>1
<1>4. Len(list) \in Nat  OBVIOUS
<1> HIDE DEF I
<1> QED BY <1>1, <1>3, <1>4

\* FindFreeSock gives -1 or a descriptor other than 0 whose record is free.
LEMMA FindFreeSockRange ==
  ASSUME NEW table \in SockTable
  PROVE  \/ FindFreeSock(table) = -1
         \/ /\ FindFreeSock(table) \in Usable
            /\ table[FindFreeSock(table)].status = "FREE"
<1>1. FreeSocks(table) \in SUBSET Nat
  BY SockIntAssumption DEF FreeSocks, Usable
<1> QED BY <1>1, MinProperties DEF FindFreeSock, FreeSocks

\* FindConnection gives -1 or a descriptor whose record answers the connection.
LEMMA FindConnectionRange ==
  ASSUME NEW table \in SockTable, NEW c
  PROVE  \/ FindConnection(table, c) = -1
         \/ /\ FindConnection(table, c) \in Usable
            /\ Answers(table[FindConnection(table, c)], c)
<1> DEFINE found == {i \in Usable : Answers(table[i], c)}
<1>1. found \in SUBSET Nat
  BY SockIntAssumption DEF Usable
<1>2. FindConnection(table, c) = IF found = {} THEN -1 ELSE Min(found)
  BY DEF FindConnection
<1> HIDE DEF found
<1>3. found # {} => Min(found) \in found
  BY <1>1, MinProperties
<1> QED BY <1>2, <1>3 DEF found

\* ResolveSrcPort gives -1 or a port nobody has reserved.
LEMMA ResolveSrcPortRange ==
  ASSUME NEW table \in PortTable, NEW c \in Connection
  PROVE  \/ ResolveSrcPort(table, c) = -1
         \/ /\ ResolveSrcPort(table, c) \in 1 .. NumPorts - 1
            /\ table[ResolveSrcPort(table, c)] = 0
<1>1. FreePorts(table, c.src) \in SUBSET Nat
  BY SockIntAssumption DEF FreePorts
<1>2. FreePorts(table, c.src) # {} => Min(FreePorts(table, c.src)) \in FreePorts(table, c.src)
  BY <1>1, MinProperties
<1> QED BY <1>2 DEF ResolveSrcPort, FindFreePort, FreePorts

\* The connection of a new Connection object is a connection.
LEMMA NoConnectionType == NoConnection \in Connection
BY SockIntAssumption DEF NoConnection, Connection, IPAddress, Port, PORT_NONE, Protocol

\* A freshly constructed record is a socket record.
LEMMA FreeRecordType == FreeRecord \in SockRecord
BY NoConnectionType DEF FreeRecord, SockRecord, Status

\* Descriptor 0 exists but no search ever returns it.
LEMMA UsableSock == Usable \subseteq Sock /\ 0 \in Sock /\ 0 \notin Usable
BY SockIntAssumption DEF Usable, Sock

-----------------------------------------------------------------------------
(* The socket table. *)

\* The capacity of an input buffer is a number of bytes.
LEMMA BinSizeNat == BinSize \in Nat
BY SockIntAssumption

\* A table whose records have their type and fit is a socket table.
LEMMA TableUpdate ==
  ASSUME NEW table \in SockTable, NEW sock \in Sock, NEW record \in SockRecord,
         Len(record.bin) <= BinSize
  PROVE  [table EXCEPT ![sock] = record] \in SockTable
BY DEF SockTable

\* What the records of a socket table are.
LEMMA TableRecord ==
  ASSUME NEW table \in SockTable, NEW sock \in Sock
  PROVE  /\ table[sock] \in SockRecord
         /\ Len(table[sock].bin) \in Nat
         /\ Len(table[sock].bin) <= BinSize
         /\ table[sock].connection \in Connection
BY DEF SockTable, SockRecord

\* SockStatus::SetStatus keeps the socket table well typed.
LEMMA SetStatusType ==
  ASSUME NEW table \in SockTable, NEW sock \in Sock, NEW stat \in Status
  PROVE  SetStatus(table, sock, stat) \in SockTable
<1> DEFINE record == [table[sock] EXCEPT !.status = stat]
<1>1. record \in SockRecord /\ record.bin = table[sock].bin
  BY TableRecord DEF SockRecord
<1>2. SetStatus(table, sock, stat) = [table EXCEPT ![sock] = record]
  BY DEF SetStatus
<1> QED BY <1>1, <1>2, TableRecord, TableUpdate, ZenonT(60)

\* SockStatus::CloseSocket keeps the socket table well typed.
LEMMA CloseSocketType ==
  ASSUME NEW table \in SockTable, NEW sock \in Sock
  PROVE  CloseSocket(table, sock) \in SockTable
<1>1. Len(FreeRecord.bin) <= BinSize
  BY BinSizeNat DEF FreeRecord
<1> QED BY <1>1, FreeRecordType, TableUpdate DEF CloseSocket

\* The table sock_module starts with is a socket table.
LEMMA InitTable == [i \in Sock |-> FreeRecord] \in SockTable
BY FreeRecordType, BinSizeNat DEF SockTable, FreeRecord

\* A socket opened, bound, connected or listening: any new connection and status.
LEMMA ConnectionUpdate ==
  ASSUME NEW table \in SockTable, NEW sock \in Sock,
         NEW c \in Connection, NEW stat \in Status
  PROVE  /\ [table EXCEPT ![sock].connection = c] \in SockTable
         /\ [table EXCEPT ![sock].connection = c, ![sock].status = stat] \in SockTable
<1> DEFINE r1 == [table[sock] EXCEPT !.connection = c]
           r2 == [r1 EXCEPT !.status = stat]
<1>1. /\ r1 \in SockRecord /\ r1.bin = table[sock].bin
      /\ r2 \in SockRecord /\ r2.bin = table[sock].bin
  BY TableRecord DEF SockRecord
<1>2. [table EXCEPT ![sock].connection = c] = [table EXCEPT ![sock] = r1]
  OBVIOUS
<1>3. [table EXCEPT ![sock].connection = c, ![sock].status = stat]
        = [table EXCEPT ![sock] = r2]
  BY DEF SockTable
<1> QED BY <1>1, <1>2, <1>3, TableRecord, TableUpdate

-----------------------------------------------------------------------------
(* Messages and FIFOs. *)

\* Receiving from a FIFO gives a message of its type and leaves such a FIFO.
LEMMA HeadOfMessages ==
  ASSUME NEW S, NEW fifo \in Seq(S), fifo # <<>>
  PROVE  Head(fifo) \in S /\ Tail(fifo) \in Seq(S)
BY HeadTailProperties

\* The fields of a SockRequestResponse.
LEMMA MessageParts ==
  ASSUME NEW s \in SockRequestResponse
  PROVE  /\ s.type \in SrrType /\ s.connection \in Connection
         /\ s.data \in Seq(Byte) /\ Len(s.data) \in Nat
         /\ s.bytes \in Nat /\ s.error \in Error
BY DEF SockRequestResponse

\* The fields of a library request.
LEMMA RequestParts ==
  ASSUME NEW s \in SockLibRequest
  PROVE  /\ s.sockfd \in Sock /\ s.connection \in Connection
         /\ s.data \in Seq(Byte)
BY DEF SockLibRequest

\* The STATUS that answers a message is a message.
LEMMA StatusReplyType ==
  ASSUME NEW s \in SockRequestResponse, NEW data \in Seq(Byte), NEW n \in Nat,
         NEW err \in Error
  PROVE  StatusReply(s, data, n, err) \in SockRequestResponse
BY DEF StatusReply, SockRequestResponse, SrrType

\* A request sock_module builds is a message.
LEMMA RequestType ==
  ASSUME NEW type \in SrrType, NEW c \in Connection, NEW data \in Seq(Byte)
  PROVE  Request(type, c, data) \in SockRequestResponse
BY DEF Request, SockRequestResponse, Error

\* MIN is a lower bound of its arguments.
LEMMA MinBounds ==
  ASSUME NEW m \in Nat, NEW n \in Nat
  PROVE  MIN(m, n) \in Nat /\ MIN(m, n) <= m /\ MIN(m, n) <= n
BY DEF MIN

\* What fits in a socket's buffer is neither more than the data nor more than
\* the room left.
LEMMA FitsBounds ==
  ASSUME SockTypeOK, NEW s \in SockRequestResponse, NEW sock \in Sock
  PROVE  /\ Fits(s, sock) \in Nat
         /\ Fits(s, sock) <= Len(s.data)
         /\ Fits(s, sock) <= BinSize - Len(socks[sock].bin)
<1>1. Len(s.data) \in Nat
  BY MessageParts
<1>2. Len(socks[sock].bin) \in Nat /\ Len(socks[sock].bin) <= BinSize
  BY TableRecord DEF SockTypeOK
<1>3. BinSize - Len(socks[sock].bin) \in Nat
  BY <1>2, BinSizeNat
<1> QED BY <1>1, <1>3, MinBounds DEF Fits

\* The four STATUS answers of sock_module to data are messages.
LEMMA SockReplyTypes ==
  ASSUME SockTypeOK, NEW s \in SockRequestResponse, NEW sock \in Sock
  PROVE  /\ BufferReply(s, sock) \in SockRequestResponse
         /\ TakenReply(s) \in SockRequestResponse
         /\ UnmatchedReply(s) \in SockRequestResponse
         /\ RefusedReply(s) \in SockRequestResponse
<1>1. <<>> \in Seq(Byte)
  OBVIOUS
<1>2. {"EOK", "EBUF_SPACE", "ENOMATCH", "EINVALID_OP"} \subseteq Error
  BY DEF Error
<1> QED BY <1>1, <1>2, MessageParts, FitsBounds, StatusReplyType
        DEF BufferReply, TakenReply, UnmatchedReply, RefusedReply

\* What is stored never exceeds the buffer.
LEMMA BufferedType ==
  ASSUME SockTypeOK, NEW s \in SockRequestResponse, NEW sock \in Sock
  PROVE  Buffered(s, sock) \in SockTable
<1> DEFINE n == Fits(s, sock)
           old == socks[sock].bin
           front == SubSeq(s.data, 1, n)
           record == [socks[sock] EXCEPT !.bin = old \o front]
<1>1. n \in Nat /\ n <= Len(s.data) /\ n <= BinSize - Len(old)
  BY FitsBounds
<1>2. s.data \in Seq(Byte) /\ old \in Seq(Byte) /\ socks \in SockTable
  BY TableRecord, MessageParts DEF SockTypeOK, SockRecord
<1>3. front \in Seq(Byte) /\ Len(front) = n
  <2>1. \A i \in 1 .. n : s.data[i] \in Byte
    BY <1>1, <1>2, ElementOfSeq
  <2> QED BY <1>1, <2>1, SubSeqProperties
<1>4. old \o front \in Seq(Byte) /\ Len(old \o front) <= BinSize
  BY <1>1, <1>2, <1>3, ConcatProperties, BinSizeNat
<1>5. record \in SockRecord /\ record.bin = old \o front
  BY <1>2, <1>4, TableRecord DEF SockRecord
<1>6. Buffered(s, sock) = [socks EXCEPT ![sock] = record]
  BY DEF Buffered
<1>7. record \in SockRecord /\ Len(record.bin) <= BinSize
  BY <1>4, <1>5
<1> HIDE DEF n, old, front, record
<1> QED BY <1>2, <1>6, <1>7, TableUpdate

\* SendAppMessage sends the library a reply.
LEMMA AppMessageType ==
  ASSUME FifosTypeOK, NEW s \in SockRequestResponse, NEW sock \in Sock,
         SendAppMessage(s, sock)
  PROVE  sock2socklib' \in Seq(SockLibReply)
<1> DEFINE m == [sockfd |-> sock, data |-> s.data, bytes |-> s.bytes, error |-> s.error]
<1>1. m \in SockLibReply
  BY MessageParts DEF SockLibReply
<1>2. sock2socklib' = Append(sock2socklib, m)
  BY DEF SendAppMessage
<1>3. sock2socklib \in Seq(SockLibReply)
  BY DEF FifosTypeOK
<1> QED BY <1>1, <1>2, <1>3, AppendProperties

\* An answer given at once is a reply to the library.
LEMMA ReplyAppType ==
  ASSUME FifosTypeOK, NEW sock \in Sock, NEW data \in Seq(Byte), NEW err \in Error,
         ReplyApp(sock, data, err)
  PROVE  sock2socklib' \in Seq(SockLibReply)
BY DEF ReplyApp, FifosTypeOK, SockLibReply

\* The record filed for a request has its type.
LEMMA RecordOfType ==
  ASSUME NEW s \in SockRequestResponse, NEW sock \in Sock
  PROVE  RecordOf(s, sock) \in RequestRecord
BY MessageParts DEF RecordOf, RequestRecord

\* SendUDPRequest and SendTCPRequest keep the FIFOs and the queues of records
\* well typed.
LEMMA SendRequestType ==
  ASSUME FifosTypeOK, SockTypeOK, NEW s \in SockRequestResponse, NEW sock \in Sock,
         SendRequest(s, sock)
  PROVE  /\ sock2udp' \in Seq(SockRequestResponse)
         /\ udp2sock' \in Seq(SockRequestResponse)
         /\ sock2tcp' \in Seq(SockRequestResponse)
         /\ tcp2sock' \in Seq(SockRequestResponse)
         /\ udpq' \in Seq(RequestRecord)
         /\ tcpq' \in Seq(RequestRecord)
<1>1. RecordOf(s, sock) \in RequestRecord
  BY RecordOfType
<1>2. CASE SendUDPRequest(s, sock)
  BY <1>1, <1>2 DEF SendUDPRequest, FifosTypeOK, SockTypeOK, tcpFifos
<1>3. CASE SendTCPRequest(s, sock)
  BY <1>1, <1>3 DEF SendTCPRequest, FifosTypeOK, SockTypeOK, udpFifos
<1> QED BY <1>2, <1>3 DEF SendRequest

-----------------------------------------------------------------------------
(* sock_module: messages from udp_module. *)

\* What sock_module receives from udp_module is a message.
LEMMA UDPHead ==
  ASSUME FifosTypeOK, NEW type, UDPReceive(type)
  PROVE  Head(udp2sock) \in SockRequestResponse /\ udp2sock' \in Seq(SockRequestResponse)
BY HeadOfMessages DEF UDPReceive, FifosTypeOK

\* Handing data to a waiting reader keeps the types.
LEMMA DataForReaderType ==
  ASSUME FifosTypeOK, SockTypeOK, NEW s \in SockRequestResponse, NEW sock \in Sock,
         DataForReader(s, sock)
  PROVE  sock2socklib' \in Seq(SockLibReply) /\ socks' \in SockTable
<1>1. "CONNECTED" \in Status
  BY DEF Status
<1> QED BY <1>1, AppMessageType, SetStatusType DEF DataForReader, SockTypeOK

\* Storing data in the input buffer keeps the types.
LEMMA DataForBufferType ==
  ASSUME FifosTypeOK, SockTypeOK, NEW s \in SockRequestResponse, NEW sock \in Sock,
         DataForBuffer(s, sock)
  PROVE  sock2socklib' \in Seq(SockLibReply) /\ socks' \in SockTable
BY BufferedType DEF DataForBuffer, FifosTypeOK

\* HandleUDPWrite keeps the types.
LEMMA UDPWriteType ==
  ASSUME FifosTypeOK, SockTypeOK, HandleUDPWrite
  PROVE  FifosTypeOK' /\ SockTypeOK'
<1> DEFINE s == Head(udp2sock)
           sock == FindConnection(socks, s.connection)
<1>1. s \in SockRequestResponse /\ udp2sock' \in Seq(SockRequestResponse)
  BY UDPHead DEF HandleUDPWrite
<1>2. sock > 0 => sock \in Sock
  BY FindConnectionRange, UsableSock DEF SockTypeOK
<1> HIDE DEF s, sock
<1>3. ASSUME NEW reply \in SockRequestResponse, ReplyUDP(reply)
      PROVE  sock2udp' \in Seq(SockRequestResponse)
  BY <1>3 DEF ReplyUDP, FifosTypeOK
<1>4. /\ sock2udp' \in Seq(SockRequestResponse)
      /\ sock2socklib' \in Seq(SockLibReply)
      /\ socks' \in SockTable
  <2>1. CASE /\ ReplyUDP(UnmatchedReply(s))
             /\ UNCHANGED <<socks, sock2socklib>>
    BY <1>1, <1>3, <2>1, UsableSock, SockReplyTypes DEF FifosTypeOK, SockTypeOK
  <2>2. CASE /\ sock > 0 /\ DataForBuffer(s, sock) /\ ReplyUDP(BufferReply(s, sock))
    BY <1>1, <1>2, <1>3, <2>2, SockReplyTypes, DataForBufferType
  <2>3. CASE /\ sock > 0 /\ DataForReader(s, sock) /\ ReplyUDP(TakenReply(s))
    BY <1>1, <1>2, <1>3, <2>3, SockReplyTypes, DataForReaderType
  <2>4. CASE /\ ReplyUDP(RefusedReply(s))
             /\ UNCHANGED <<socks, sock2socklib>>
    BY <1>1, <1>3, <2>4, UsableSock, SockReplyTypes DEF FifosTypeOK, SockTypeOK
  <2> QED BY <2>1, <2>2, <2>3, <2>4 DEF HandleUDPWrite, s, sock
<1>5. UNCHANGED <<ports, tcpq, udpq, sock2tcp, tcp2sock, socklib2sock>>
  BY DEF HandleUDPWrite, tcpFifos
<1> QED BY <1>1, <1>4, <1>5 DEF FifosTypeOK, SockTypeOK

\* The status a completed bind, connect or write leaves is a status.
LEMMA SettledType ==
  ASSUME SockTypeOK, NEW sock \in Sock
  PROVE  Settled(sock) \in SockTable
BY SetStatusType DEF Settled, SockTypeOK, Status

\* HandleUDPStatus keeps the types.
LEMMA UDPStatusType ==
  ASSUME FifosTypeOK, SockTypeOK, HandleUDPStatus
  PROVE  FifosTypeOK' /\ SockTypeOK'
<1> DEFINE s == Head(udp2sock)
           request == Head(udpq)
           sock == request.sock
<1>1. s \in SockRequestResponse /\ udp2sock' \in Seq(SockRequestResponse)
  BY UDPHead DEF HandleUDPStatus
<1>2. request \in RequestRecord /\ udpq' \in Seq(RequestRecord)
  BY HeadOfMessages DEF HandleUDPStatus, SockTypeOK
<1>3. sock \in Sock
  BY <1>2 DEF RequestRecord
<1>4. sock2socklib' \in Seq(SockLibReply) /\ socks' \in SockTable
  <2>1. CASE /\ SendAppMessage(s, sock)
             /\ socks' = CloseSocket(socks, sock) \/ socks' = Settled(sock)
    BY <1>1, <1>3, <2>1, AppMessageType, CloseSocketType, SettledType DEF SockTypeOK
  <2>2. CASE UNCHANGED <<socks, sock2socklib>>
    BY <2>2 DEF FifosTypeOK, SockTypeOK
  <2> QED BY <2>1, <2>2 DEF HandleUDPStatus
<1>5. UNCHANGED <<ports, tcpq, sock2udp, sock2tcp, tcp2sock, socklib2sock>>
  BY DEF HandleUDPStatus, tcpFifos
<1> QED BY <1>1, <1>2, <1>4, <1>5 DEF FifosTypeOK, SockTypeOK

-----------------------------------------------------------------------------
(* sock_module: messages from tcp_module. *)

\* What sock_module receives from tcp_module is a message.
LEMMA TCPHead ==
  ASSUME FifosTypeOK, NEW type, TCPReceive(type)
  PROVE  Head(tcp2sock) \in SockRequestResponse /\ tcp2sock' \in Seq(SockRequestResponse)
BY HeadOfMessages DEF TCPReceive, FifosTypeOK

\* Answering tcp_module keeps its FIFO well typed.
LEMMA TCPReplyType ==
  ASSUME FifosTypeOK, NEW reply \in SockRequestResponse, ReplyTCP(reply)
  PROVE  sock2tcp' \in Seq(SockRequestResponse)
BY DEF ReplyTCP, FifosTypeOK

\* The STATUS sent back for a message whose data is kept.
LEMMA EchoType ==
  ASSUME NEW s \in SockRequestResponse, NEW err \in Error
  PROVE  StatusReply(s, s.data, s.bytes, err) \in SockRequestResponse
BY MessageParts, StatusReplyType

\* The outcome of a connect keeps the types.
LEMMA CompleteConnectType ==
  ASSUME FifosTypeOK, SockTypeOK, NEW s \in SockRequestResponse, NEW sock \in Sock,
         CompleteConnect(s, sock)
  PROVE  /\ sock2socklib' \in Seq(SockLibReply)
         /\ socks' \in SockTable
         /\ sock2tcp' \in Seq(SockRequestResponse)
<1>1. sock2socklib' \in Seq(SockLibReply)
  BY AppMessageType DEF CompleteConnect
<1>2. socks' \in SockTable
  BY CloseSocketType, SetStatusType DEF CompleteConnect, SockTypeOK, Status
<1>3. sock2tcp' \in Seq(SockRequestResponse)
  BY EchoType, TCPReplyType DEF CompleteConnect, Error
<1> QED BY <1>1, <1>2, <1>3

\* A connection that arrives for an accept keeps the types.
LEMMA CompleteAcceptType ==
  ASSUME FifosTypeOK, SockTypeOK, NEW s \in SockRequestResponse, NEW sock \in Sock,
         CompleteAccept(s, sock)
  PROVE  /\ sock2socklib' \in Seq(SockLibReply)
         /\ socks' \in SockTable
         /\ sock2tcp' \in Seq(SockRequestResponse)
<1> DEFINE listening == SetStatus(socks, sock, "LISTENING")
           newsock == FindFreeSock(listening)
           accepted == [connection |-> s.connection, bin |-> <<>>,
                        status |-> "CONNECTED", toApp |-> TRUE]
<1>1. listening \in SockTable
  BY SetStatusType DEF SockTypeOK, Status
<1>2. newsock = -1 \/ newsock \in Sock
  BY <1>1, FindFreeSockRange, UsableSock
<1>3. accepted \in SockRecord /\ Len(accepted.bin) <= BinSize
  BY MessageParts, BinSizeNat DEF SockRecord, Status
<1> HIDE DEF listening, newsock, accepted
<1>4. newsock > 0 => [listening EXCEPT ![newsock] = accepted] \in SockTable
  BY <1>1, <1>2, <1>3, TableUpdate
<1>5. \A err \in Error : ReplyTCP(StatusReply(s, s.data, s.bytes, err))
        => sock2tcp' \in Seq(SockRequestResponse)
  BY EchoType, TCPReplyType
<1>6. sock2tcp' \in Seq(SockRequestResponse)
  BY <1>5 DEF CompleteAccept, Error
<1>7. socks' \in SockTable
  BY <1>1, <1>4 DEF CompleteAccept, listening, newsock, accepted
<1>8. sock2socklib' \in Seq(SockLibReply)
  <2>1. CASE SendAppMessage(s, sock) \/ (newsock > 0 /\ SendAppMessage(s, newsock))
    BY <1>2, <2>1, AppMessageType
  <2>2. CASE UNCHANGED sock2socklib
    BY <2>2 DEF FifosTypeOK
  <2> QED BY <2>1, <2>2 DEF CompleteAccept, listening, newsock
<1> QED BY <1>6, <1>7, <1>8

\* HandleTCPWrite keeps the types.
LEMMA TCPWriteType ==
  ASSUME FifosTypeOK, SockTypeOK, HandleTCPWrite
  PROVE  FifosTypeOK' /\ SockTypeOK'
<1> DEFINE s == Head(tcp2sock)
           sock == FindConnection(socks, s.connection)
<1>1. s \in SockRequestResponse /\ tcp2sock' \in Seq(SockRequestResponse)
  BY TCPHead DEF HandleTCPWrite
<1>2. sock > 0 => sock \in Sock
  BY FindConnectionRange, UsableSock DEF SockTypeOK
<1> HIDE DEF s, sock
<1>4. /\ sock2tcp' \in Seq(SockRequestResponse)
      /\ sock2socklib' \in Seq(SockLibReply)
      /\ socks' \in SockTable
  <2>1. CASE /\ ReplyTCP(UnmatchedReply(s))
             /\ UNCHANGED <<socks, sock2socklib>>
    BY <1>1, <2>1, UsableSock, SockReplyTypes, TCPReplyType DEF FifosTypeOK, SockTypeOK
  <2>2. CASE /\ sock > 0 /\ DataForBuffer(s, sock) /\ ReplyTCP(BufferReply(s, sock))
    BY <1>1, <1>2, <2>2, SockReplyTypes, TCPReplyType, DataForBufferType
  <2>3. CASE /\ sock > 0 /\ DataForReader(s, sock) /\ ReplyTCP(TakenReply(s))
    BY <1>1, <1>2, <2>3, SockReplyTypes, TCPReplyType, DataForReaderType
  <2>4. CASE sock > 0 /\ CompleteAccept(s, sock)
    BY <1>1, <1>2, <2>4, CompleteAcceptType
  <2>5. CASE sock > 0 /\ CompleteConnect(s, sock)
    BY <1>1, <1>2, <2>5, CompleteConnectType
  <2>6. CASE /\ ReplyTCP(RefusedReply(s))
             /\ UNCHANGED <<socks, sock2socklib>>
    BY <1>1, <2>6, UsableSock, SockReplyTypes, TCPReplyType DEF FifosTypeOK, SockTypeOK
  <2> QED BY <2>1, <2>2, <2>3, <2>4, <2>5, <2>6 DEF HandleTCPWrite, s, sock
<1>5. UNCHANGED <<ports, tcpq, udpq, sock2udp, udp2sock, socklib2sock>>
  BY DEF HandleTCPWrite, udpFifos
<1> QED BY <1>1, <1>4, <1>5 DEF FifosTypeOK, SockTypeOK

\* HandleTCPStatus keeps the types.
LEMMA TCPStatusType ==
  ASSUME FifosTypeOK, SockTypeOK, HandleTCPStatus
  PROVE  FifosTypeOK' /\ SockTypeOK'
<1> DEFINE s == Head(tcp2sock)
           request == Head(tcpq)
           sock == request.sock
<1>1. s \in SockRequestResponse /\ tcp2sock' \in Seq(SockRequestResponse)
  BY TCPHead DEF HandleTCPStatus
<1>2. request \in RequestRecord /\ tcpq' \in Seq(RequestRecord)
  BY HeadOfMessages DEF HandleTCPStatus, SockTypeOK
<1>3. sock \in Sock
  BY <1>2 DEF RequestRecord
<1>4. sock2socklib' \in Seq(SockLibReply) /\ socks' \in SockTable
  <2>1. CASE /\ SendAppMessage(s, sock)
             /\ \/ socks' = CloseSocket(socks, sock)
                \/ \E stat \in Status : socks' = SetStatus(socks, sock, stat)
    BY <1>1, <1>3, <2>1, AppMessageType, CloseSocketType, SetStatusType DEF SockTypeOK
  <2>2. CASE UNCHANGED <<socks, sock2socklib>>
    BY <2>2 DEF FifosTypeOK, SockTypeOK
  <2>3. {"LISTENING", "CONNECTED"} \subseteq Status
    BY DEF Status
  <2> QED BY <2>1, <2>2, <2>3 DEF HandleTCPStatus
<1>5. UNCHANGED <<ports, udpq, sock2tcp, sock2udp, udp2sock, socklib2sock>>
  BY DEF HandleTCPStatus, udpFifos
<1> QED BY <1>1, <1>2, <1>4, <1>5 DEF FifosTypeOK, SockTypeOK

-----------------------------------------------------------------------------
(* sock_module: requests of the application. *)

\* What sock_module receives from the library is a request.
LEMMA AppHead ==
  ASSUME FifosTypeOK, NEW type, AppReceive(type)
  PROVE  /\ AppRequest \in SockLibRequest
         /\ AppRequest.sockfd \in Sock /\ AppRequest.connection \in Connection
         /\ AppRequest.data \in Seq(Byte)
         /\ socklib2sock' \in Seq(SockLibRequest)
<1>1. AppRequest \in SockLibRequest /\ socklib2sock' \in Seq(SockLibRequest)
  BY HeadOfMessages DEF AppReceive, FifosTypeOK, AppRequest
<1> QED BY <1>1, RequestParts

\* A request answered at once leaves every other module alone.
LEMMA AnswerNowType ==
  ASSUME FifosTypeOK, SockTypeOK, NEW type, AppReceive(type),
         NEW sock \in Sock, NEW data \in Seq(Byte), NEW err \in Error,
         AnswerNow(sock, data, err), socks' \in SockTable, ports' \in PortTable
  PROVE  FifosTypeOK' /\ SockTypeOK'
<1>1. sock2socklib' \in Seq(SockLibReply)
  BY ReplyAppType DEF AnswerNow
<1>2. UNCHANGED <<tcpq, udpq, sock2udp, udp2sock, sock2tcp, tcp2sock>>
  BY DEF AnswerNow, udpFifos, tcpFifos
<1> QED BY <1>1, <1>2, AppHead DEF FifosTypeOK, SockTypeOK

\* Refusing a request keeps the types.
LEMMA RefuseType ==
  ASSUME FifosTypeOK, SockTypeOK, NEW type, AppReceive(type),
         NEW sock \in Sock, NEW err \in Error, Refuse(sock, err)
  PROVE  FifosTypeOK' /\ SockTypeOK'
<1>1. <<>> \in Seq(Byte)
  OBVIOUS
<1> QED BY <1>1, AnswerNowType DEF Refuse, SockTypeOK

\* A request passed on leaves the application waiting.
LEMMA ForwardType ==
  ASSUME FifosTypeOK, SockTypeOK, NEW type, AppReceive(type),
         NEW s \in SockRequestResponse, NEW sock \in Sock,
         Forward(s, sock), socks' \in SockTable, ports' \in PortTable
  PROVE  FifosTypeOK' /\ SockTypeOK'
<1>1. UNCHANGED sock2socklib /\ SendRequest(s, sock)
  BY DEF Forward
<1> QED BY <1>1, SendRequestType, AppHead DEF FifosTypeOK, SockTypeOK

\* The errors ProcessAppRequest answers with are error codes.
LEMMA ErrorCodes ==
  {"EOK", "EINVALID_OP", "ERESOURCE_UNAVAIL", "ENOT_SUPPORTED"} \subseteq Error
BY DEF Error

\* The fields of a connection.
LEMMA ConnectionParts ==
  ASSUME NEW c \in Connection
  PROVE  /\ c.src \in IPAddress /\ c.srcport \in Port
         /\ c.dest \in IPAddress /\ c.destport \in Port
         /\ c.protocol \in Protocol
BY DEF Connection

\* Giving a connection its local address and port leaves a connection.
LEMMA LocalEndType ==
  ASSUME NEW c \in Connection, NEW request \in Connection,
         NEW port \in 1 .. NumPorts - 1
  PROVE  LocalEnd(c, request, port) \in Connection
BY DEF LocalEnd, Connection, IPAddress, Port

\* Reserving a port keeps the port table well typed.
LEMMA PortUpdate ==
  ASSUME NEW table \in PortTable, NEW port \in 1 .. NumPorts - 1, NEW sock \in Sock
  PROVE  AssignPort(table, port, sock) \in PortTable
BY DEF AssignPort, PortTable

\* A socket request keeps the types.
LEMMA SocketType ==
  ASSUME FifosTypeOK, SockTypeOK, mSOCKET
  PROVE  FifosTypeOK' /\ SockTypeOK'
<1> DEFINE sock == FindFreeSock(socks)
           c == [socks[sock].connection EXCEPT !.protocol = AppRequest.connection.protocol]
           record == [connection |-> c, bin |-> socks[sock].bin,
                      status |-> "UNBOUND", toApp |-> TRUE]
<1>1. AppReceive("mSOCKET")
  BY DEF mSOCKET
<1>2. socks \in SockTable /\ ports \in PortTable
  BY DEF SockTypeOK
<1>3. CASE sock < 0 /\ Refuse(AppRequest.sockfd, "ERESOURCE_UNAVAIL")
  BY <1>1, <1>3, AppHead, RefuseType, ErrorCodes
<1>4. CASE /\ sock >= 0
           /\ socks' = [socks EXCEPT ![sock] = record]
           /\ AnswerNow(sock, <<>>, "EOK")
           /\ UNCHANGED ports
  <2>1. sock \in Sock
    BY <1>2, <1>4, FindFreeSockRange, UsableSock
  <2>2. c \in Connection
    BY <1>1, <1>2, <2>1, AppHead, TableRecord, ConnectionParts DEF Connection
  <2>3. record \in SockRecord /\ Len(record.bin) <= BinSize
    BY <1>2, <2>1, <2>2, TableRecord DEF SockRecord, Status
  <2>4. socks' \in SockTable
    BY <1>2, <1>4, <2>1, <2>3, TableUpdate
  <2>5. <<>> \in Seq(Byte)
    OBVIOUS
  <2> QED BY <1>1, <1>2, <1>4, <2>1, <2>4, <2>5, AnswerNowType, ErrorCodes
<1> QED BY <1>3, <1>4 DEF mSOCKET

\* Setting the far end leaves a connection.
LEMMA FarEndType ==
  ASSUME NEW c \in Connection, NEW ip \in IPAddress, NEW port \in Port
  PROVE  [c EXCEPT !.dest = ip, !.destport = port] \in Connection
BY DEF Connection

\* The wildcards are an address and a port.
LEMMA AnyIsAnAddress == IP_ADDRESS_ANY \in IPAddress /\ PORT_ANY \in Port
BY SockIntAssumption DEF IPAddress, Port, PORT_ANY, PORT_NONE

\* A bind request keeps the types.
LEMMA BindType ==
  ASSUME FifosTypeOK, SockTypeOK, mBIND
  PROVE  FifosTypeOK' /\ SockTypeOK'
<1> DEFINE sock == AppRequest.sockfd
           port == ResolveSrcPort(ports, AppRequest.connection)
           c == LocalEnd(socks[sock].connection, AppRequest.connection, port)
<1>1. AppReceive("mBIND")
  BY DEF mBIND
<1>2. /\ socks \in SockTable /\ ports \in PortTable
      /\ sock \in Sock /\ socks[sock].connection \in Connection
  BY <1>1, AppHead, TableRecord DEF SockTypeOK
<1>3. port >= 0 => port \in 1 .. NumPorts - 1
  BY <1>1, <1>2, AppHead, ResolveSrcPortRange
<1>4. port >= 0 => c \in Connection
  BY <1>1, <1>2, <1>3, AppHead, LocalEndType
<1>5. <<>> \in Seq(Byte) /\ "BOUND" \in Status /\ "FORWARD" \in SrrType
  BY DEF Status, SrrType
<1> HIDE DEF sock, port, c
<1>6. CASE \E err \in Error : Refuse(sock, err)
  BY <1>1, <1>2, <1>6, RefuseType
<1>7. CASE /\ port >= 0 /\ ports' = AssignPort(ports, port, sock)
           /\ socks' = [socks EXCEPT ![sock].connection = c]
           /\ Forward(Request("FORWARD", c, <<>>), sock)
  BY <1>1, <1>2, <1>3, <1>4, <1>5, <1>7, PortUpdate, ConnectionUpdate, RequestType,
     ForwardType
<1>8. CASE /\ port >= 0 /\ ports' = AssignPort(ports, port, sock)
           /\ socks' = [socks EXCEPT ![sock].connection = c, ![sock].status = "BOUND"]
           /\ AnswerNow(sock, <<>>, "EOK")
  BY <1>1, <1>2, <1>3, <1>4, <1>5, <1>8, PortUpdate, ConnectionUpdate, AnswerNowType,
     ErrorCodes
<1> QED BY <1>6, <1>7, <1>8, ErrorCodes DEF mBIND, sock, port, c

\* A listen request keeps the types.
LEMMA ListenType ==
  ASSUME FifosTypeOK, SockTypeOK, mLISTEN
  PROVE  FifosTypeOK' /\ SockTypeOK'
<1> DEFINE sock == AppRequest.sockfd
           c == [socks[sock].connection EXCEPT !.dest = IP_ADDRESS_ANY,
                                               !.destport = PORT_ANY]
<1>1. AppReceive("mLISTEN")
  BY DEF mLISTEN
<1>2. /\ socks \in SockTable /\ ports \in PortTable
      /\ sock \in Sock /\ socks[sock].connection \in Connection
  BY <1>1, AppHead, TableRecord DEF SockTypeOK
<1>3. c \in Connection
  BY <1>2, FarEndType, AnyIsAnAddress
<1>4. <<>> \in Seq(Byte) /\ "LISTENING" \in Status
  BY DEF Status
<1> HIDE DEF sock, c
<1>5. CASE \E fd \in Sock, err \in Error : Refuse(fd, err)
  BY <1>1, <1>5, RefuseType
<1>6. CASE /\ socks' = [socks EXCEPT ![sock].connection = c,
                                     ![sock].status = "LISTENING"]
           /\ AnswerNow(sock, <<>>, "EOK")
           /\ UNCHANGED ports
  BY <1>1, <1>2, <1>3, <1>4, <1>6, ConnectionUpdate, AnswerNowType, ErrorCodes
<1> QED BY <1>2, <1>5, <1>6, ErrorCodes, UsableSock DEF mLISTEN, sock, c

\* An accept request keeps the types.
LEMMA AcceptType ==
  ASSUME FifosTypeOK, SockTypeOK, mACCEPT
  PROVE  FifosTypeOK' /\ SockTypeOK'
<1> DEFINE sock == AppRequest.sockfd
<1>1. AppReceive("mACCEPT")
  BY DEF mACCEPT
<1>2. /\ socks \in SockTable /\ ports \in PortTable
      /\ sock \in Sock /\ socks[sock].connection \in Connection
  BY <1>1, AppHead, TableRecord DEF SockTypeOK
<1>3. <<>> \in Seq(Byte) /\ "ACCEPT_PENDING" \in Status /\ "ACCEPT" \in SrrType
  BY DEF Status, SrrType
<1> HIDE DEF sock
<1>4. CASE \E err \in Error : Refuse(sock, err)
  BY <1>1, <1>2, <1>4, RefuseType
<1>5. CASE /\ Forward(Request("ACCEPT", socks[sock].connection, <<>>), sock)
           /\ socks' = SetStatus(socks, sock, "ACCEPT_PENDING")
           /\ UNCHANGED ports
  BY <1>1, <1>2, <1>3, <1>5, SetStatusType, RequestType, ForwardType
<1> QED BY <1>4, <1>5, ErrorCodes DEF mACCEPT, sock

\* A connect request keeps the types.
LEMMA ConnectType ==
  ASSUME FifosTypeOK, SockTypeOK, mCONNECT
  PROVE  FifosTypeOK' /\ SockTypeOK'
<1> DEFINE sock == AppRequest.sockfd
           bound == socks[sock].status = "BOUND"
           port == ResolveSrcPort(ports, AppRequest.connection)
           local == IF bound THEN socks[sock].connection
                    ELSE LocalEnd(socks[sock].connection, AppRequest.connection, port)
           c == [local EXCEPT !.dest = AppRequest.connection.dest,
                              !.destport = AppRequest.connection.destport]
           udp == c.protocol = "UDP"
           stat == IF udp THEN "CONNECTED" ELSE "CONNECT_PENDING"
           type == IF udp THEN "FORWARD" ELSE "CONNECT"
<1>1. AppReceive("mCONNECT")
  BY DEF mCONNECT
<1>2. /\ socks \in SockTable /\ ports \in PortTable
      /\ sock \in Sock /\ socks[sock].connection \in Connection
  BY <1>1, AppHead, TableRecord DEF SockTypeOK
<1>3. port >= 0 => port \in 1 .. NumPorts - 1
  BY <1>1, <1>2, AppHead, ResolveSrcPortRange
<1>4. bound \/ port >= 0 => local \in Connection
  BY <1>1, <1>2, <1>3, AppHead, LocalEndType
<1>5. bound \/ port >= 0 => c \in Connection
  BY <1>1, <1>4, AppHead, ConnectionParts, FarEndType
<1>6. <<>> \in Seq(Byte) /\ stat \in Status /\ type \in SrrType
  BY DEF Status, SrrType
<1> HIDE DEF sock, bound, port, local, c, udp, stat, type
<1>7. CASE \E err \in Error : Refuse(sock, err)
  BY <1>1, <1>2, <1>7, RefuseType
<1>8. CASE /\ bound \/ port >= 0
           /\ ports' = IF bound THEN ports ELSE AssignPort(ports, port, sock)
           /\ socks' = [socks EXCEPT ![sock].connection = c, ![sock].status = stat]
           /\ Forward(Request(type, c, <<>>), sock)
  <2>1. ports' \in PortTable
    BY <1>2, <1>3, <1>8, PortUpdate
  <2>2. socks' \in SockTable /\ Request(type, c, <<>>) \in SockRequestResponse
    BY <1>2, <1>5, <1>6, <1>8, ConnectionUpdate, RequestType
  <2> QED BY <1>1, <1>2, <1>8, <2>1, <2>2, ForwardType
<1> QED BY <1>7, <1>8, ErrorCodes
        DEF mCONNECT, sock, bound, port, local, c, udp, stat, type

\* A read request keeps the types.
LEMMA ReadType ==
  ASSUME FifosTypeOK, SockTypeOK, mREAD
  PROVE  FifosTypeOK' /\ SockTypeOK'
<1> DEFINE sock == AppRequest.sockfd
<1>1. AppReceive("mREAD")
  BY DEF mREAD
<1>2. /\ socks \in SockTable /\ ports \in PortTable
      /\ sock \in Sock /\ socks[sock].bin \in Seq(Byte)
  BY <1>1, AppHead, TableRecord DEF SockTypeOK, SockRecord
<1> HIDE DEF sock
<1>3. CASE Refuse(sock, "EINVALID_OP")
  BY <1>1, <1>2, <1>3, RefuseType, ErrorCodes
<1>4. CASE AnswerNow(sock, socks[sock].bin, "EOK") /\ UNCHANGED <<socks, ports>>
  BY <1>1, <1>2, <1>4, AnswerNowType, ErrorCodes
<1>5. CASE /\ socks' = SetStatus(socks, sock, "READ_PENDING")
           /\ UNCHANGED <<ports, tcpq, udpq, udpFifos, tcpFifos, sock2socklib>>
  <2>1. socks' \in SockTable
    BY <1>2, <1>5, SetStatusType DEF Status
  <2> QED BY <1>1, <1>5, <2>1, AppHead DEF FifosTypeOK, SockTypeOK, udpFifos, tcpFifos
<1> QED BY <1>3, <1>4, <1>5 DEF mREAD, sock

\* A write request keeps the types.
LEMMA WriteType ==
  ASSUME FifosTypeOK, SockTypeOK, mWRITE
  PROVE  FifosTypeOK' /\ SockTypeOK'
<1> DEFINE sock == AppRequest.sockfd
<1>1. AppReceive("mWRITE")
  BY DEF mWRITE
<1>2. /\ socks \in SockTable /\ ports \in PortTable /\ AppRequest.data \in Seq(Byte)
      /\ sock \in Sock /\ socks[sock].connection \in Connection
  BY <1>1, AppHead, TableRecord DEF SockTypeOK
<1>3. "WRITE_PENDING" \in Status /\ "WRITE" \in SrrType
  BY DEF Status, SrrType
<1> HIDE DEF sock
<1>4. CASE Refuse(sock, "EINVALID_OP")
  BY <1>1, <1>2, <1>4, RefuseType, ErrorCodes
<1>5. CASE /\ Forward(Request("WRITE", socks[sock].connection, AppRequest.data), sock)
           /\ socks' = SetStatus(socks, sock, "WRITE_PENDING")
           /\ UNCHANGED ports
  BY <1>1, <1>2, <1>3, <1>5, SetStatusType, RequestType, ForwardType
<1> QED BY <1>4, <1>5 DEF mWRITE, sock

\* A close request keeps the types.
LEMMA CloseType ==
  ASSUME FifosTypeOK, SockTypeOK, mCLOSE
  PROVE  FifosTypeOK' /\ SockTypeOK'
<1> DEFINE sock == AppRequest.sockfd
           request == Request("CLOSE", socks[sock].connection, <<>>)
<1>1. AppReceive("mCLOSE")
  BY DEF mCLOSE
<1>2. /\ socks \in SockTable /\ ports \in PortTable /\ <<>> \in Seq(Byte)
      /\ sock \in Sock /\ socks[sock].connection \in Connection
  BY <1>1, AppHead, TableRecord DEF SockTypeOK
<1>3. request \in SockRequestResponse
  BY <1>2, RequestType DEF SrrType
<1> HIDE DEF sock, request
<1>4. CASE Refuse(sock, "EINVALID_OP")
  BY <1>1, <1>2, <1>4, RefuseType, ErrorCodes
<1>5. CASE /\ SendRequest(request, sock)
           /\ ReplyApp(sock, <<>>, "EOK")
           /\ socks' = CloseSocket(socks, sock)
           /\ UNCHANGED ports
  <2>1. socks' \in SockTable /\ sock2socklib' \in Seq(SockLibReply)
    BY <1>2, <1>5, CloseSocketType, ReplyAppType, ErrorCodes
  <2> QED BY <1>1, <1>2, <1>3, <1>5, <2>1, AppHead, SendRequestType
          DEF FifosTypeOK, SockTypeOK
<1> QED BY <1>4, <1>5 DEF mCLOSE, sock, request

\* A request sock_module does not serve keeps the types.
LEMMA UnservedRequestType ==
  ASSUME FifosTypeOK, SockTypeOK, UnservedRequest
  PROVE  FifosTypeOK' /\ SockTypeOK'
<1>1. PICK type \in UnservedType :
        AppReceive(type) /\ Refuse(AppRequest.sockfd, "EOK")
  BY DEF UnservedRequest
<1> QED BY <1>1, AppHead, RefuseType, ErrorCodes

\* Every turn of sock_module's event loop keeps the types.
LEMMA SockModuleType ==
  ASSUME FifosTypeOK, SockTypeOK, SockModuleStep
  PROVE  FifosTypeOK' /\ SockTypeOK'
BY TCPWriteType, TCPStatusType, UDPWriteType, UDPStatusType, SocketType, BindType,
   ListenType, AcceptType, ConnectType, ReadType, WriteType, CloseType,
   UnservedRequestType
   DEF SockModuleStep, ProcessAppRequest

-----------------------------------------------------------------------------
(* udp_module. *)

\* Erasing what a search found leaves a forwarding list.
LEMMA EraseType ==
  ASSUME NEW list \in Seq(Connection), NEW i \in 0 .. Len(list)
  PROVE  Erase(list, i) \in Seq(Connection)
<1>1. CASE i = 0
  BY <1>1 DEF Erase
<1>2. CASE i # 0
  <2>1. Len(list) \in Nat /\ i \in Nat /\ i <= Len(list)
    OBVIOUS
  <2>2. \A k \in 1 .. i - 1 : list[k] \in Connection
    BY <2>1, ElementOfSeq
  <2>3. \A k \in i + 1 .. Len(list) : list[k] \in Connection
    BY <2>1, ElementOfSeq
  <2>4. SubSeq(list, 1, i - 1) \in Seq(Connection)
    BY <2>1, <2>2, SubSeqProperties
  <2>5. SubSeq(list, i + 1, Len(list)) \in Seq(Connection)
    BY <2>1, <2>3, SubSeqProperties
  <2> QED BY <1>2, <2>4, <2>5, ConcatProperties DEF Erase, RemoveAt
<1> QED BY <1>1, <1>2

\* A STATUS of udp_module is a message.
LEMMA UDPReplyType ==
  ASSUME FifosTypeOK, NEW req \in SockRequestResponse, NEW n \in Nat,
         NEW err \in Error, UDPReply(req, n, err)
  PROVE  udp2sock' \in Seq(SockRequestResponse)
<1>1. <<>> \in Seq(Byte)
  OBVIOUS
<1>2. StatusReply(req, <<>>, n, err) \in SockRequestResponse
  BY <1>1, StatusReplyType
<1> QED BY <1>2, AppendProperties DEF UDPReply, FifosTypeOK

\* udp_module keeps the types when it serves sock_module.
LEMMA HandleSockType ==
  ASSUME FifosTypeOK, UdpTypeOK, HandleSock
  PROVE  /\ sock2udp' \in Seq(SockRequestResponse)
         /\ udp2sock' \in Seq(SockRequestResponse)
         /\ UdpTypeOK'
<1> DEFINE req == Head(sock2udp)
           cs == FindMatching(clist, req.connection)
<1>1. req \in SockRequestResponse /\ sock2udp' \in Seq(SockRequestResponse)
  BY HeadOfMessages DEF HandleSock, FifosTypeOK
<1>2. clist \in Seq(Connection) /\ req.connection \in Connection /\ Len(req.data) \in Nat
  BY <1>1, MessageParts DEF UdpTypeOK
<1>3. Erase(clist, cs) \in Seq(Connection)
  BY <1>2, FindMatchingIndex, EraseType
<1>4. {"EOK", "ENOMATCH"} \subseteq Error
  BY DEF Error
<1>5. UNCHANGED datagrams
  BY DEF HandleSock
<1> HIDE DEF req
<1>6. clist' \in Seq(Connection) /\ udp2sock' \in Seq(SockRequestResponse)
  <2>1. CASE HandleForward(req)
    BY <1>1, <1>2, <1>3, <1>4, <2>1, UDPReplyType, AppendProperties DEF HandleForward
  <2>2. CASE HandleWrite(req)
    <3>1. MIN(UDP_MAX_DATA, Len(req.data)) \in Nat
      BY <1>2, MinBounds, UdpAssumption
    <3> QED BY <1>1, <1>2, <1>4, <2>2, <3>1, UDPReplyType DEF HandleWrite
  <2>3. CASE HandleClose(req)
    BY <1>1, <1>2, <1>3, <1>4, <2>3, UDPReplyType DEF HandleClose
  <2>4. CASE HandleStatus(req)
    BY <1>2, <2>4 DEF HandleStatus, FifosTypeOK
  <2> QED BY <2>1, <2>2, <2>3, <2>4 DEF HandleSock, req
<1> QED BY <1>1, <1>5, <1>6 DEF UdpTypeOK

\* udp_module keeps the types when a datagram arrives.
LEMMA HandleMuxType ==
  ASSUME FifosTypeOK, UdpTypeOK, NEW d \in Datagram, HandleMux(d)
  PROVE  udp2sock' \in Seq(SockRequestResponse) /\ UdpTypeOK'
<1> DEFINE cs == FindMatching(clist, ConnectionOf(d))
           write == [type |-> "WRITE", connection |-> clist[cs], data |-> Payload(d),
                     bytes |-> d.len, error |-> "EOK"]
<1>1. clist \in Seq(Connection)
  BY DEF UdpTypeOK
<1>2. cs # 0 => clist[cs] \in Connection
  BY <1>1, FindMatchingIndex, ElementOfSeq
<1>3. d.len \in Nat
  BY UdpAssumption DEF Datagram
<1>4. [from |-> d.from, fromport |-> d.fromport, toport |-> d.toport] \in Byte
  <2>1. d.from \in Remotes /\ d.fromport \in PeerPorts /\ d.toport \in Port
    BY DEF Datagram
  <2>2. d.from \in IPAddress /\ d.fromport \in Port
    BY <2>1, SockIntAssumption DEF IPAddress, Port
  <2> QED BY <2>1, <2>2 DEF Byte
<1>5. Payload(d) \in Seq(Byte)
  BY <1>3, <1>4 DEF Payload
<1> HIDE DEF cs
<1>6. cs # 0 => write \in SockRequestResponse
  BY <1>2, <1>3, <1>5 DEF SockRequestResponse, SrrType, Error
<1> HIDE DEF write
<1>7. udp2sock' \in Seq(SockRequestResponse)
  BY <1>6 DEF HandleMux, FifosTypeOK, cs, write
<1>8. datagrams' \in 0 .. MaxDatagrams /\ UNCHANGED clist
  BY UdpAssumption DEF HandleMux, UdpTypeOK
<1> QED BY <1>1, <1>7, <1>8 DEF UdpTypeOK

-----------------------------------------------------------------------------
(* tcp_module's environment. *)

\* A STATUS of tcp_module is a message.
LEMMA TCPStatusReplyType ==
  ASSUME FifosTypeOK, NEW req \in SockRequestResponse, NEW n \in Nat,
         NEW err \in Error, TCPReply(req, n, err)
  PROVE  tcp2sock' \in Seq(SockRequestResponse)
<1>1. <<>> \in Seq(Byte)
  OBVIOUS
<1>2. StatusReply(req, <<>>, n, err) \in SockRequestResponse
  BY <1>1, StatusReplyType
<1> QED BY <1>2, AppendProperties DEF TCPReply, FifosTypeOK

\* A connection with a state is what tcp_module keeps of it.
LEMMA TcbType ==
  ASSUME NEW c \in Connection, NEW state \in TcbState
  PROVE  Tcb(c, state) \in [connection : Connection, state : TcbState]
BY DEF Tcb

\* tcp_module keeps the types when it serves sock_module.
LEMMA TcpHandleSockType ==
  ASSUME FifosTypeOK, TcpTypeOK, TcpHandleSock
  PROVE  /\ sock2tcp' \in Seq(SockRequestResponse)
         /\ tcp2sock' \in Seq(SockRequestResponse)
         /\ TcpTypeOK'
<1> DEFINE req == Head(sock2tcp)
           T == [connection : Connection, state : TcbState]
<1>1. req \in SockRequestResponse /\ sock2tcp' \in Seq(SockRequestResponse)
  BY HeadOfMessages DEF TcpHandleSock, FifosTypeOK
<1>2. tcbs \subseteq T /\ req.connection \in Connection /\ Len(req.data) \in Nat
  BY <1>1, MessageParts DEF TcpTypeOK
<1>3. /\ {"EOK", "ECONN_FAILED"} \subseteq Error
      /\ {"SYN_SENT", "LISTEN", "ESTABLISHED"} \subseteq TcbState
      /\ 0 \in Nat
  BY DEF Error, TcbState
<1>4. UNCHANGED segments
  BY DEF TcpHandleSock
<1> HIDE DEF req, T
<1>5. tcbs' \subseteq T /\ tcp2sock' \in Seq(SockRequestResponse)
  <2>1. CASE \E state \in {"SYN_SENT", "LISTEN"} : Open(req, state)
    <3>1. \A state \in {"SYN_SENT", "LISTEN"} : Tcb(req.connection, state) \in T
      BY <1>2, <1>3, TcbType DEF T
    <3>2. tcbs' \subseteq T
      BY <1>2, <2>1, <3>1 DEF Open
    <3>3. tcp2sock' \in Seq(SockRequestResponse)
      BY <1>1, <1>3, <2>1, TCPStatusReplyType DEF Open
    <3> QED BY <3>2, <3>3
  <2>2. CASE TCPReply(req, Len(req.data), "EOK") /\ UNCHANGED tcbs
    BY <1>1, <1>2, <1>3, <2>2, TCPStatusReplyType
  <2>3. CASE /\ tcbs' = {t \in tcbs : t.connection # req.connection}
             /\ TCPReply(req, 0, "EOK")
    BY <1>1, <1>2, <1>3, <2>3, TCPStatusReplyType
  <2>4. CASE /\ tcbs' = {Settle(t, req) : t \in {u \in tcbs : ~Dropped(u, req)}}
             /\ UNCHANGED tcp2sock
    <3>1. \A t \in tcbs : Settle(t, req) \in T
      BY <1>2, <1>3, TcbType DEF Settle, T
    <3> QED BY <2>4, <3>1 DEF FifosTypeOK
  <2> QED BY <2>1, <2>2, <2>3, <2>4 DEF TcpHandleSock, req
<1> QED BY <1>1, <1>4, <1>5 DEF TcpTypeOK, T

\* What tcp_module passes up is a message.
LEMMA IndicateType ==
  ASSUME FifosTypeOK, NEW c \in Connection, NEW data \in Seq(Byte), NEW err \in Error,
         Indicate(c, data, err)
  PROVE  tcp2sock' \in Seq(SockRequestResponse)
<1> DEFINE m == [type |-> "WRITE", connection |-> c, data |-> data, bytes |-> Len(data),
                 error |-> err]
<1>1. m \in SockRequestResponse
  BY DEF SockRequestResponse, SrrType
<1>2. tcp2sock' = Append(tcp2sock, m) /\ tcp2sock \in Seq(SockRequestResponse)
  BY DEF Indicate, FifosTypeOK
<1> QED BY <1>1, <1>2, AppendProperties

\* tcp_module keeps the types when the network acts.
LEMMA TcpNetworkType ==
  ASSUME FifosTypeOK, TcpTypeOK, TcpNetwork
  PROVE  tcp2sock' \in Seq(SockRequestResponse) /\ TcpTypeOK'
<1> DEFINE T == [connection : Connection, state : TcbState]
<1>1. PICK t \in tcbs :
        \/ \E err \in {"EOK", "ECONN_FAILED"} :
             \/ ConnectOutcome(t, err)
             \/ \E host \in Remotes, port \in PeerPorts : Arrival(t, host, port, err)
        \/ \E len \in 0 .. MaxSegmentLen : Received(t, len)
  BY DEF TcpNetwork
<1>2. tcbs \subseteq T /\ t \in T /\ t.connection \in Connection
  BY DEF TcpTypeOK
<1>3. segments' \in 0 .. MaxSegments
  BY TcpAssumption DEF TcpNetwork, TcpTypeOK
<1>4. {"EOK", "ECONN_FAILED"} \subseteq Error /\ <<>> \in Seq(Byte)
  BY DEF Error
<1>5. \A c \in Connection, err \in Error : Offer(c, err) \in T
  BY TcbType DEF Offer, TcbState
<1> HIDE DEF T
<1>6. tcbs' \subseteq T /\ tcp2sock' \in Seq(SockRequestResponse)
  <2>1. ASSUME NEW err \in {"EOK", "ECONN_FAILED"}, ConnectOutcome(t, err)
        PROVE  tcbs' \subseteq T /\ tcp2sock' \in Seq(SockRequestResponse)
    BY <1>2, <1>4, <1>5, <2>1, IndicateType DEF ConnectOutcome
  <2>2. ASSUME NEW err \in {"EOK", "ECONN_FAILED"}, NEW host \in Remotes,
               NEW port \in PeerPorts, Arrival(t, host, port, err)
        PROVE  tcbs' \subseteq T /\ tcp2sock' \in Seq(SockRequestResponse)
    <3> DEFINE c == [t.connection EXCEPT !.dest = host, !.destport = port]
    <3>1. host \in IPAddress /\ port \in Port
      BY SockIntAssumption DEF IPAddress, Port
    <3>2. c \in Connection
      BY <1>2, <3>1, FarEndType
    <3> HIDE DEF c
    <3> QED BY <1>2, <1>4, <1>5, <2>2, <3>2, IndicateType DEF Arrival, c
  <2>3. ASSUME NEW len \in 0 .. MaxSegmentLen, Received(t, len)
        PROVE  tcbs' \subseteq T /\ tcp2sock' \in Seq(SockRequestResponse)
    <3> DEFINE byte == [from |-> t.connection.dest, fromport |-> t.connection.destport,
                        toport |-> t.connection.srcport]
    <3>1. byte \in Byte /\ len \in Nat
      BY <1>2, ConnectionParts, TcpAssumption DEF Byte
    <3> HIDE DEF byte
    <3>2. [i \in 1 .. len |-> byte] \in Seq(Byte)
      BY <3>1
    <3> QED BY <1>2, <1>4, <2>3, <3>2, IndicateType DEF Received, byte
  <2> QED BY <1>1, <2>1, <2>2, <2>3
<1> QED BY <1>3, <1>6 DEF TcpTypeOK, T

-----------------------------------------------------------------------------
(* The application and its library. *)

\* A call appends a well-formed request.
LEMMA CallType ==
  ASSUME FifosTypeOK, NEW type \in SlrrType, NEW sockfd \in Sock, NEW c \in Connection,
         NEW data \in Seq(Byte), Call(type, sockfd, c, data)
  PROVE  UNCHANGED <<udpFifos, tcpFifos>> => FifosTypeOK' /\ SockLibTypeOK'
<1> DEFINE m == [type |-> type, sockfd |-> sockfd, connection |-> c, data |-> data]
<1>1. m \in SockLibRequest
  BY DEF SockLibRequest
<1>2. socklib2sock' = Append(socklib2sock, m) /\ socklib2sock \in Seq(SockLibRequest)
  BY DEF Call, FifosTypeOK
<1>3. socklib2sock' \in Seq(SockLibRequest)
  BY <1>1, <1>2, AppendProperties
<1>4. SockLibTypeOK'
  BY DEF Call, SockLibTypeOK
<1> QED BY <1>3, <1>4 DEF Call, FifosTypeOK, udpFifos, tcpFifos

\* Whatever call the application makes, its request has its type.
LEMMA ApplicationType ==
  ASSUME FifosTypeOK, Application
  PROVE  FifosTypeOK' /\ SockLibTypeOK'
<1>1. UNCHANGED <<udpFifos, tcpFifos>>
  BY DEF Application
<1>2. ASSUME NEW type \in SlrrType, NEW sockfd \in Sock, NEW c \in Connection,
             NEW data \in Seq(Byte), Call(type, sockfd, c, data)
      PROVE  FifosTypeOK' /\ SockLibTypeOK'
  BY <1>1, <1>2, CallType
<1>3. NoConnection \in Connection /\ <<>> \in Seq(Byte) /\ 0 \in Sock
  BY NoConnectionType, UsableSock
<1>4. {"mSOCKET", "mBIND", "mLISTEN", "mACCEPT", "mCONNECT", "mREAD", "mWRITE", "mCLOSE"}
        \subseteq SlrrType
  BY DEF SlrrType
<1>5. ASSUME NEW protocol \in Protocols, minet_socket(protocol)
      PROVE  FifosTypeOK' /\ SockLibTypeOK'
  <2>1. protocol \in Protocol
    BY SockLibAssumption DEF Protocol
  <2>2. [NoConnection EXCEPT !.protocol = protocol] \in Connection
    BY <1>3, <2>1 DEF Connection
  <2> QED BY <1>2, <1>3, <1>4, <1>5, <2>2 DEF minet_socket
<1>6. ASSUME NEW sockfd \in Sock, NEW addr \in Listeners, NEW port \in Port,
             minet_bind(sockfd, addr, port)
      PROVE  FifosTypeOK' /\ SockLibTypeOK'
  <2>1. addr \in IPAddress
    BY SockLibAssumption DEF IPAddress
  <2>2. [NoConnection EXCEPT !.src = addr, !.srcport = port] \in Connection
    BY <1>3, <2>1 DEF Connection
  <2> QED BY <1>2, <1>3, <1>4, <1>6, <2>2 DEF minet_bind
<1>7. ASSUME NEW sockfd \in Sock, minet_listen(sockfd) \/ minet_accept(sockfd)
      PROVE  FifosTypeOK' /\ SockLibTypeOK'
  BY <1>2, <1>3, <1>4, <1>7 DEF minet_listen, minet_accept
<1>8. ASSUME NEW sockfd \in Sock, NEW host \in Remotes, NEW port \in PeerPorts,
             minet_connect(sockfd, host, port)
      PROVE  FifosTypeOK' /\ SockLibTypeOK'
  <2>1. host \in IPAddress /\ port \in Port
    BY SockIntAssumption DEF IPAddress, Port
  <2>2. [NoConnection EXCEPT !.dest = host, !.destport = port] \in Connection
    BY <1>3, <2>1, FarEndType
  <2> QED BY <1>2, <1>3, <1>4, <1>8, <2>2 DEF minet_connect
<1>9. ASSUME NEW sockfd \in Sock, minet_read(sockfd) \/ minet_close(sockfd)
      PROVE  FifosTypeOK' /\ SockLibTypeOK'
  BY <1>2, <1>3, <1>4, <1>9 DEF minet_read, minet_close
<1>10. ASSUME NEW sockfd \in Sock, NEW len \in WriteSizes, minet_write(sockfd, len)
       PROVE  FifosTypeOK' /\ SockLibTypeOK'
  <2> DEFINE byte == [from |-> MyIPAddr, fromport |-> 0, toport |-> 0]
  <2>1. byte \in Byte
    BY SockIntAssumption DEF Byte, IPAddress, Port
  <2>2. len \in Nat
    BY SockLibAssumption
  <2>3. [i \in 1 .. len |-> byte] \in Seq(Byte)
    <3> HIDE DEF byte
    <3> QED BY <2>1, <2>2
  <2> QED BY <1>2, <1>3, <1>4, <1>10, <2>3 DEF minet_write
<1>11. ASSUME NEW sockfd \in Sock, NEW type \in Unserved, minet_unserved(type, sockfd)
       PROVE  FifosTypeOK' /\ SockLibTypeOK'
  <2>1. type \in SlrrType
    BY SockLibAssumption DEF SlrrType
  <2> QED BY <1>2, <1>3, <1>11, <2>1 DEF minet_unserved
<1>12. ApplicationCall
  BY DEF Application
<1> QED BY <1>5, <1>6, <1>7, <1>8, <1>9, <1>10, <1>11, <1>12 DEF ApplicationCall

\* A call that returns takes its reply from the FIFO.
LEMMA ReturnType ==
  ASSUME FifosTypeOK, CallReturn
  PROVE  FifosTypeOK' /\ SockLibTypeOK'
<1>1. sock2socklib' \in Seq(SockLibReply)
  BY HeadOfMessages DEF CallReturn, Return, FifosTypeOK
<1>2. call' = NoCall /\ UNCHANGED <<socklib2sock, udpFifos, tcpFifos>>
  BY DEF CallReturn, Return
<1> QED BY <1>1, <1>2 DEF FifosTypeOK, SockLibTypeOK, udpFifos, tcpFifos

-----------------------------------------------------------------------------
(* Type correctness. *)

\* Every variable starts in its type.
LEMMA InitType == Init => TypeOK
<1> SUFFICES ASSUME Init PROVE TypeOK
  OBVIOUS
<1>1. SockLibTypeOK
  BY DEF Init, SockLibInit, SockLibTypeOK
<1>2. FifosTypeOK
  BY DEF Init, FifosInit, FifosTypeOK
<1>3. SockTypeOK
  BY InitTable, UsableSock DEF Init, SockInit, SockTypeOK, PortTable
<1>4. UdpTypeOK
  BY UdpAssumption DEF Init, UdpInit, UdpTypeOK
<1>5. TcpTypeOK
  BY TcpAssumption DEF Init, TcpInit, TcpTypeOK
<1> QED BY <1>1, <1>2, <1>3, <1>4, <1>5 DEF TypeOK

\* No step of any of the processes leaves it.
LEMMA StepType == TypeOK /\ [Next]_vars => TypeOK'
<1> SUFFICES ASSUME TypeOK, [Next]_vars PROVE TypeOK'
  OBVIOUS
<1>1. SockLibTypeOK /\ FifosTypeOK /\ SockTypeOK /\ UdpTypeOK /\ TcpTypeOK
  BY DEF TypeOK
<1>2. CASE Application
  <2>1. UNCHANGED <<sockVars, udpVars, tcpVars>>
    BY <1>2 DEF Application
  <2> QED BY <1>1, <1>2, <2>1, ApplicationType
          DEF TypeOK, SockTypeOK, sockVars, UdpTypeOK, udpVars, TcpTypeOK, tcpVars
<1>3. CASE CallReturn
  <2>1. UNCHANGED <<sockVars, udpVars, tcpVars>>
    BY <1>3 DEF CallReturn
  <2> QED BY <1>1, <1>3, <2>1, ReturnType
          DEF TypeOK, SockTypeOK, sockVars, UdpTypeOK, udpVars, TcpTypeOK, tcpVars
<1>4. CASE SockProcess
  <2>1. SockModuleStep /\ UNCHANGED <<call, udpVars, tcpVars>>
    BY <1>4 DEF SockProcess
  <2> QED BY <1>1, <2>1, SockModuleType
          DEF TypeOK, SockLibTypeOK, UdpTypeOK, udpVars, TcpTypeOK, tcpVars
<1>5. CASE UdpFromMux
  <2>1. PICK d \in Datagram : HandleMux(d)
    BY <1>5 DEF UdpFromMux
  <2>2. UNCHANGED <<call, appFifos, sock2udp, tcpFifos, sockVars, tcpVars>>
    BY <1>5, <2>1 DEF UdpFromMux, HandleMux
  <2>3. udp2sock' \in Seq(SockRequestResponse) /\ UdpTypeOK'
    BY <1>1, <2>1, HandleMuxType
  <2>4. FifosTypeOK'
    BY <1>1, <2>2, <2>3 DEF FifosTypeOK, appFifos, tcpFifos
  <2> QED BY <1>1, <2>2, <2>3, <2>4
          DEF TypeOK, SockLibTypeOK, SockTypeOK, sockVars, TcpTypeOK, tcpVars
<1>6. CASE UdpFromSock
  <2>1. HandleSock /\ UNCHANGED <<call, appFifos, tcpFifos, sockVars, tcpVars>>
    BY <1>6 DEF UdpFromSock
  <2>2. /\ sock2udp' \in Seq(SockRequestResponse)
        /\ udp2sock' \in Seq(SockRequestResponse)
        /\ UdpTypeOK'
    BY <1>1, <2>1, HandleSockType
  <2>3. FifosTypeOK'
    BY <1>1, <2>1, <2>2 DEF FifosTypeOK, appFifos, tcpFifos
  <2> QED BY <1>1, <2>1, <2>2, <2>3
          DEF TypeOK, SockLibTypeOK, SockTypeOK, sockVars, TcpTypeOK, tcpVars
<1>7. CASE TcpFromSock
  <2>1. TcpHandleSock /\ UNCHANGED <<call, appFifos, udpFifos, sockVars, udpVars>>
    BY <1>7 DEF TcpFromSock
  <2>2. /\ sock2tcp' \in Seq(SockRequestResponse)
        /\ tcp2sock' \in Seq(SockRequestResponse)
        /\ TcpTypeOK'
    BY <1>1, <2>1, TcpHandleSockType
  <2>3. FifosTypeOK'
    BY <1>1, <2>1, <2>2 DEF FifosTypeOK, appFifos, udpFifos
  <2> QED BY <1>1, <2>1, <2>2, <2>3
          DEF TypeOK, SockLibTypeOK, SockTypeOK, sockVars, UdpTypeOK, udpVars
<1>8. CASE TcpFromNetwork
  <2>1. TcpNetwork /\ UNCHANGED <<call, appFifos, udpFifos, sockVars, udpVars>>
    BY <1>8 DEF TcpFromNetwork
  <2>2. UNCHANGED sock2tcp
    BY <2>1 DEF TcpNetwork
  <2>3. tcp2sock' \in Seq(SockRequestResponse) /\ TcpTypeOK'
    BY <1>1, <2>1, TcpNetworkType
  <2>4. FifosTypeOK'
    BY <1>1, <2>1, <2>2, <2>3 DEF FifosTypeOK, appFifos, udpFifos
  <2> QED BY <1>1, <2>1, <2>3, <2>4
          DEF TypeOK, SockLibTypeOK, SockTypeOK, sockVars, UdpTypeOK, udpVars
<1>9. CASE UNCHANGED vars
  BY <1>1, <1>9 DEF vars, fifos, appFifos, udpFifos, tcpFifos, sockVars, udpVars, tcpVars,
     TypeOK, SockLibTypeOK, FifosTypeOK, SockTypeOK, UdpTypeOK, TcpTypeOK
<1> QED BY <1>2, <1>3, <1>4, <1>5, <1>6, <1>7, <1>8, <1>9 DEF Next

(***************************************************************************)
(* The variables of all processes keep their types; in particular every    *)
(* reply and request carries an error code, a descriptor of the table and  *)
(* bytes that exist, no input buffer outgrows BIN_SIZE and no descriptor   *)
(* or port outside its table is ever used (sock_module.cc, all handlers).  *)
(***************************************************************************)
THEOREM TypeCorrect == Spec => []TypeOK
BY InitType, StepType, PTL DEF Spec

-----------------------------------------------------------------------------
(***************************************************************************)
(* STATUS messages and request records.                                    *)
(***************************************************************************)

Messages == Seq(SockRequestResponse)
Records == Seq(RequestRecord)

(***************************************************************************)
(* Sequences, by position.                                                 *)
(***************************************************************************)

\* A message put at the end leaves the positions before it alone.
LEMMA AtAppend ==
  ASSUME NEW S, NEW s \in Seq(S), NEW e \in S
  PROVE  /\ Len(s) \in Nat /\ Len(Append(s, e)) = Len(s) + 1
         /\ DOMAIN s = 1 .. Len(s)
         /\ DOMAIN Append(s, e) = 1 .. Len(s) + 1
         /\ Append(s, e)[Len(s) + 1] = e
         /\ \A n \in 1 .. Len(s) : Append(s, e)[n] = s[n]
         /\ Append(s, e) \in Seq(S)
BY AppendProperties

\* A message taken from the front moves the others up by one position.
LEMMA AtTail ==
  ASSUME NEW S, NEW s \in Seq(S), s # <<>>
  PROVE  /\ Len(s) \in Nat \ {0} /\ Len(Tail(s)) = Len(s) - 1
         /\ DOMAIN s = 1 .. Len(s)
         /\ DOMAIN Tail(s) = 1 .. Len(s) - 1
         /\ Head(s) = s[1]
         /\ \A n \in 1 .. Len(s) - 1 : Tail(s)[n] = s[n + 1]
         /\ Tail(s) \in Seq(S) /\ Head(s) \in S
BY HeadTailProperties

-----------------------------------------------------------------------------
(***************************************************************************)
(* What the two processes do to the FIFOs and the records keeps them       *)
(* paired.                                                                 *)
(***************************************************************************)

\* A request goes out together with its record.
LEMMA RequestPairs ==
  ASSUME NEW a \in Messages, NEW r \in Messages, NEW q \in Records,
         NEW m \in SockRequestResponse, NEW record \in RequestRecord,
         m.type # "STATUS", record.type = m.type, record.connection = m.connection,
         Paired(a, r, q)
  PROVE  Paired(a, Append(r, m), Append(q, record))
<1> DEFINE r2 == Append(r, m)
           q2 == Append(q, record)
           last == Len(a) + Len(r) + 1
<1>1. PICK f \in [DOMAIN q -> InFlight(a, r)] : PairedBy(f, a, r, q)
  BY DEF Paired
<1> DEFINE g == [k \in DOMAIN q2 |-> IF k = Len(q) + 1 THEN last ELSE f[k]]
<1>2. /\ Len(a) \in Nat /\ Len(r) \in Nat /\ Len(q) \in Nat
      /\ Len(r2) = Len(r) + 1 /\ r2[Len(r) + 1] = m
      /\ \A n \in 1 .. Len(r) : r2[n] = r[n]
      /\ DOMAIN q = 1 .. Len(q) /\ DOMAIN q2 = 1 .. Len(q) + 1
      /\ q2[Len(q) + 1] = record
      /\ \A k \in DOMAIN q : q2[k] = q[k]
  BY AtAppend DEF Messages, Records
<1> HIDE DEF r2, q2
<1>3. /\ MessageAt(a, r2, last) = m
      /\ \A n \in 1 .. Len(a) + Len(r) : MessageAt(a, r2, n) = MessageAt(a, r, n)
  BY <1>2 DEF MessageAt
<1>4. InFlight(a, r2) = InFlight(a, r) \cup {last}
  <2>1. last \in InFlight(a, r2)
    BY <1>2, <1>3 DEF InFlight
  <2>2. \A n \in 1 .. Len(a) + Len(r) : n \in InFlight(a, r2) <=> n \in InFlight(a, r)
    BY <1>2, <1>3 DEF InFlight
  <2>3. \A n \in InFlight(a, r2) : n \in 1 .. Len(a) + Len(r) \/ n = last
    BY <1>2 DEF InFlight
  <2>4. InFlight(a, r) \subseteq 1 .. Len(a) + Len(r)
    BY DEF InFlight
  <2> HIDE DEF last
  <2> QED BY <2>1, <2>2, <2>3, <2>4
<1>5. \A k \in DOMAIN q : f[k] \in InFlight(a, r) /\ f[k] \in 1 .. Len(a) + Len(r)
  BY DEF InFlight
<1>6. g \in [DOMAIN q2 -> InFlight(a, r2)]
  BY <1>2, <1>4, <1>5
<1>7. PairedBy(g, a, r2, q2)
  <2>1. ASSUME NEW i \in DOMAIN q2, NEW j \in DOMAIN q2, i < j
        PROVE  g[i] < g[j]
    BY <1>1, <1>2, <1>5, <2>1 DEF PairedBy
  <2>2. ASSUME NEW n \in InFlight(a, r2)
        PROVE  \E k \in DOMAIN q2 : g[k] = n
    <3>1. CASE n = last
      BY <1>2, <3>1
    <3>2. CASE n \in InFlight(a, r)
      <4>1. PICK k \in DOMAIN q : f[k] = n
        BY <1>1, <3>2 DEF PairedBy
      <4> QED BY <1>2, <4>1
    <3> QED BY <1>4, <3>1, <3>2
  <2>3. ASSUME NEW k \in DOMAIN q2
        PROVE  /\ MessageAt(a, r2, g[k]).connection = q2[k].connection
               /\ MessageAt(a, r2, g[k]).type \in {"STATUS", q2[k].type}
    <3>1. CASE k = Len(q) + 1
      BY <1>2, <1>3, <3>1
    <3>2. CASE k # Len(q) + 1
      <4>1. k \in DOMAIN q /\ g[k] = f[k] /\ q2[k] = q[k]
        BY <1>2, <3>2
      <4>2. MessageAt(a, r2, g[k]) = MessageAt(a, r, f[k])
        BY <1>3, <1>5, <4>1
      <4> HIDE DEF g
      <4> QED BY <1>1, <4>1, <4>2 DEF PairedBy
    <3> QED BY <3>1, <3>2
  <2> HIDE DEF g
  <2> QED BY <2>1, <2>2, <2>3 DEF PairedBy
<1> QED BY <1>6, <1>7 DEF Paired, r2, q2

(***************************************************************************)
(* The messages keep their order: those from number from on move by shift, *)
(* and each is the same message or its answer.                             *)
(***************************************************************************)
Moved(n, from, shift) == IF n >= from THEN n + shift ELSE n

Renumbers(a, r, a2, r2, from, shift) ==
  /\ shift = -1 => from \notin InFlight(a, r)
  /\ \A n \in InFlight(a, r) :
       LET there == MessageAt(a2, r2, Moved(n, from, shift))
           here == MessageAt(a, r, n)
       IN  /\ Moved(n, from, shift) \in InFlight(a2, r2)
           /\ there.connection = here.connection
           /\ there.type \in {here.type, "STATUS"}
  /\ \A n \in InFlight(a2, r2) :
       \E m \in InFlight(a, r) : Moved(m, from, shift) = n

\* When the numbering of the messages only shifts, so does the pairing.
LEMMA ShiftPairs ==
  ASSUME NEW a \in Messages, NEW r \in Messages, NEW a2 \in Messages, NEW r2 \in Messages,
         NEW q \in Records, NEW from \in Nat, NEW shift \in {-1, 0, 1},
         Renumbers(a, r, a2, r2, from, shift),
         Paired(a, r, q)
  PROVE  Paired(a2, r2, q)
<1>1. PICK f \in [DOMAIN q -> InFlight(a, r)] : PairedBy(f, a, r, q)
  BY DEF Paired
<1> DEFINE to(n) == Moved(n, from, shift)
           g == [k \in DOMAIN q |-> to(f[k])]
<1>2. InFlight(a, r) \subseteq Nat /\ InFlight(a2, r2) \subseteq Nat
  <2>1. Len(a) + Len(r) \in Nat /\ Len(a2) + Len(r2) \in Nat
    BY DEF Messages
  <2> QED BY <2>1 DEF InFlight
<1>3. \A k \in DOMAIN q : f[k] \in InFlight(a, r)
  OBVIOUS
<1>4. g \in [DOMAIN q -> InFlight(a2, r2)]
  BY <1>3 DEF Renumbers
<1>5. \A i, j \in DOMAIN q : i < j => g[i] < g[j]
  <2>1. ASSUME NEW m \in InFlight(a, r), NEW n \in InFlight(a, r), m < n
        PROVE  to(m) < to(n)
    BY <1>2, <2>1 DEF Renumbers, Moved
  <2> QED BY <1>1, <1>3, <2>1 DEF PairedBy
<1>6. \A n \in InFlight(a2, r2) : \E k \in DOMAIN q : g[k] = n
  <2>1. ASSUME NEW n \in InFlight(a2, r2)
        PROVE  \E k \in DOMAIN q : g[k] = n
    <3>1. PICK m \in InFlight(a, r) : to(m) = n
      BY DEF Renumbers
    <3>2. PICK k \in DOMAIN q : f[k] = m
      BY <1>1 DEF PairedBy
    <3> QED BY <3>1, <3>2
  <2> QED BY <2>1
<1>7. ASSUME NEW k \in DOMAIN q
      PROVE  /\ MessageAt(a2, r2, g[k]).connection = q[k].connection
             /\ MessageAt(a2, r2, g[k]).type \in {"STATUS", q[k].type}
  <2>1. /\ MessageAt(a, r, f[k]).connection = q[k].connection
        /\ MessageAt(a, r, f[k]).type \in {"STATUS", q[k].type}
    BY <1>1 DEF PairedBy
  <2>2. /\ MessageAt(a2, r2, g[k]).connection = MessageAt(a, r, f[k]).connection
        /\ MessageAt(a2, r2, g[k]).type \in {MessageAt(a, r, f[k]).type, "STATUS"}
    BY <1>3 DEF Renumbers
  <2> QED BY <2>1, <2>2
<1> HIDE DEF g
<1>8. PairedBy(g, a2, r2, q)
  BY <1>5, <1>6, <1>7 DEF PairedBy
<1> QED BY <1>4, <1>8 DEF Paired

\* The transport module puts its answer at the end of one FIFO for the
\* request it takes from the front of the other.
LEMMA AnswerPairs ==
  ASSUME NEW a \in Messages, NEW r \in Messages, NEW q \in Records, r # <<>>,
         NEW m \in SockRequestResponse, m.type = "STATUS",
         Head(r).type # "STATUS", m.connection = Head(r).connection,
         Paired(a, r, q)
  PROVE  Paired(Append(a, m), Tail(r), q)
<1> DEFINE a2 == Append(a, m)
           r2 == Tail(r)
<1>1. /\ Len(a) \in Nat /\ Len(a2) = Len(a) + 1 /\ a2[Len(a) + 1] = m
      /\ \A n \in 1 .. Len(a) : a2[n] = a[n]
      /\ a2 \in Messages
  BY AtAppend DEF Messages
<1>2. /\ Len(r) \in Nat \ {0} /\ Len(r2) = Len(r) - 1 /\ Head(r) = r[1]
      /\ \A n \in 1 .. Len(r) - 1 : r2[n] = r[n + 1]
      /\ r2 \in Messages
  BY AtTail DEF Messages
<1> HIDE DEF a2, r2
<1>3. /\ MessageAt(a, r, Len(a) + 1) = Head(r)
      /\ MessageAt(a2, r2, Len(a) + 1) = m
      /\ \A n \in 1 .. Len(a) : MessageAt(a2, r2, n) = MessageAt(a, r, n)
  BY <1>1, <1>2 DEF MessageAt
<1>4. ASSUME NEW n \in Len(a) + 2 .. Len(a) + Len(r)
      PROVE  MessageAt(a2, r2, n) = MessageAt(a, r, n)
  <2>1. n - Len(a) - 1 \in 1 .. Len(r) - 1 /\ (n - Len(a) - 1) + 1 = n - Len(a)
        /\ n - (Len(a) + 1) = n - Len(a) - 1
    BY <1>1, <1>2
  <2> QED BY <1>1, <1>2, <2>1 DEF MessageAt
<1>5. \A n \in 1 .. Len(a) + Len(r) : n \in InFlight(a2, r2) <=> n \in InFlight(a, r)
  BY <1>1, <1>2, <1>3, <1>4 DEF InFlight
<1>6. InFlight(a, r) \subseteq 1 .. Len(a) + Len(r)
      /\ InFlight(a2, r2) \subseteq 1 .. Len(a) + Len(r)
  BY <1>1, <1>2 DEF InFlight
<1>7. \A n \in 1 .. Len(a) + Len(r) :
        /\ Moved(n, 0, 0) = n
        /\ MessageAt(a2, r2, n).connection = MessageAt(a, r, n).connection
        /\ MessageAt(a2, r2, n).type \in {MessageAt(a, r, n).type, "STATUS"}
  BY <1>1, <1>2, <1>3, <1>4 DEF Moved
<1>8. Renumbers(a, r, a2, r2, 0, 0)
  BY <1>5, <1>6, <1>7 DEF Renumbers
<1>9. Paired(a2, r2, q)
  BY <1>1, <1>2, <1>8, ShiftPairs
<1> QED BY <1>9 DEF a2, r2

\* Data on its way to sock_module belongs to no record.
LEMMA IndicationPairs ==
  ASSUME NEW a \in Messages, NEW r \in Messages, NEW q \in Records,
         NEW m \in SockRequestResponse, m.type # "STATUS",
         Paired(a, r, q)
  PROVE  Paired(Append(a, m), r, q)
<1> DEFINE a2 == Append(a, m)
           from == Len(a) + 1
<1>1. /\ Len(a) \in Nat /\ Len(a2) = Len(a) + 1 /\ a2[Len(a) + 1] = m
      /\ \A n \in 1 .. Len(a) : a2[n] = a[n]
      /\ a2 \in Messages /\ Len(r) \in Nat
  BY AtAppend DEF Messages
<1> HIDE DEF a2
<1>2. \A n \in 1 .. Len(a) : MessageAt(a2, r, n) = MessageAt(a, r, n)
  BY <1>1 DEF MessageAt
<1>3. \A n \in from .. Len(a) + Len(r) : MessageAt(a2, r, n + 1) = MessageAt(a, r, n)
  BY <1>1 DEF MessageAt
<1>4. \A n \in 1 .. Len(a) : n \in InFlight(a2, r) <=> n \in InFlight(a, r)
  BY <1>1, <1>2 DEF InFlight
<1>5. \A n \in from .. Len(a) + Len(r) : n + 1 \in InFlight(a2, r) <=> n \in InFlight(a, r)
  BY <1>1, <1>3 DEF InFlight
<1>6. from \notin InFlight(a2, r)
  BY <1>1 DEF InFlight, MessageAt
<1>7. InFlight(a, r) \subseteq 1 .. Len(a) + Len(r)
      /\ InFlight(a2, r) \subseteq 1 .. Len(a) + Len(r) + 1
  BY <1>1 DEF InFlight
<1>8. \A n \in InFlight(a, r) :
        /\ Moved(n, from, 1) \in InFlight(a2, r)
        /\ MessageAt(a2, r, Moved(n, from, 1)) = MessageAt(a, r, n)
  BY <1>1, <1>2, <1>3, <1>4, <1>5, <1>7 DEF Moved
<1>9. ASSUME NEW n \in InFlight(a2, r)
      PROVE  \E m2 \in InFlight(a, r) : Moved(m2, from, 1) = n
  <2>1. CASE n > from
    <3>1. n - 1 \in from .. Len(a) + Len(r) /\ (n - 1) + 1 = n
      BY <1>1, <1>7, <2>1
    <3>2. n - 1 \in InFlight(a, r) /\ Moved(n - 1, from, 1) = n
      BY <1>1, <1>5, <3>1 DEF Moved
    <3> QED BY <3>2
  <2>2. CASE n < from
    <3>1. n \in InFlight(a, r) /\ Moved(n, from, 1) = n
      BY <1>1, <1>4, <1>7, <2>2 DEF Moved
    <3> QED BY <3>1
  <2> QED BY <1>1, <1>6, <1>7, <2>1, <2>2
<1> HIDE DEF from
<1>10. from \in Nat
  BY <1>1 DEF from
<1>11. Renumbers(a, r, a2, r, from, 1)
  BY <1>8, <1>9 DEF Renumbers
<1>12. Paired(a2, r, q)
  BY <1>1, <1>10, <1>11, ShiftPairs
<1> QED BY <1>12 DEF a2

\* sock_module's acknowledgements belong to no record.
LEMMA AcknowledgementPairs ==
  ASSUME NEW a \in Messages, NEW r \in Messages, NEW q \in Records,
         NEW m \in SockRequestResponse, m.type = "STATUS",
         Paired(a, r, q)
  PROVE  Paired(a, Append(r, m), q)
<1> DEFINE r2 == Append(r, m)
<1>1. /\ Len(a) \in Nat /\ Len(r) \in Nat /\ Len(r2) = Len(r) + 1 /\ r2[Len(r) + 1] = m
      /\ \A n \in 1 .. Len(r) : r2[n] = r[n]
      /\ r2 \in Messages
  BY AtAppend DEF Messages
<1> HIDE DEF r2
<1>2. /\ MessageAt(a, r2, Len(a) + Len(r) + 1) = m
      /\ \A n \in 1 .. Len(a) + Len(r) : MessageAt(a, r2, n) = MessageAt(a, r, n)
  BY <1>1 DEF MessageAt
<1>3. Len(a) + Len(r) + 1 \notin InFlight(a, r2)
  BY <1>1, <1>2 DEF InFlight
<1>4. \A n \in 1 .. Len(a) + Len(r) : n \in InFlight(a, r2) <=> n \in InFlight(a, r)
  BY <1>1, <1>2 DEF InFlight
<1>5. InFlight(a, r) \subseteq 1 .. Len(a) + Len(r)
      /\ InFlight(a, r2) \subseteq 1 .. Len(a) + Len(r) + 1
  BY <1>1 DEF InFlight
<1>6. \A n \in InFlight(a, r2) : n # Len(a) + Len(r) + 1 /\ n \in 1 .. Len(a) + Len(r)
  BY <1>1, <1>3, <1>5
<1>7. \A n \in 1 .. Len(a) + Len(r) : Moved(n, 0, 0) = n
  BY <1>1 DEF Moved
<1>8. Renumbers(a, r, a, r2, 0, 0)
  BY <1>2, <1>4, <1>5, <1>6, <1>7 DEF Renumbers
<1>9. Paired(a, r2, q)
  BY <1>1, <1>8, ShiftPairs
<1> QED BY <1>9 DEF r2

\* sock_module takes data from the front of the answers.
LEMMA IndicationTakenPairs ==
  ASSUME NEW a \in Messages, NEW r \in Messages, NEW q \in Records, a # <<>>,
         Head(a).type # "STATUS", Paired(a, r, q)
  PROVE  Paired(Tail(a), r, q)
<1> DEFINE a2 == Tail(a)
<1>1. /\ Len(a) \in Nat \ {0} /\ Len(a2) = Len(a) - 1 /\ Head(a) = a[1]
      /\ \A n \in 1 .. Len(a) - 1 : a2[n] = a[n + 1]
      /\ a2 \in Messages /\ Len(r) \in Nat
  BY AtTail DEF Messages
<1> HIDE DEF a2
<1>2. \A n \in 2 .. Len(a) + Len(r) : MessageAt(a2, r, n - 1) = MessageAt(a, r, n)
  BY <1>1 DEF MessageAt
<1>3. \A n \in 2 .. Len(a) + Len(r) : n - 1 \in InFlight(a2, r) <=> n \in InFlight(a, r)
  BY <1>1, <1>2 DEF InFlight
<1>4. 1 \notin InFlight(a, r)
  BY <1>1 DEF InFlight, MessageAt
<1>5. InFlight(a, r) \subseteq 1 .. Len(a) + Len(r)
      /\ InFlight(a2, r) \subseteq 1 .. Len(a) + Len(r) - 1
  BY <1>1 DEF InFlight
<1>6. ASSUME NEW n \in InFlight(a, r)
      PROVE  /\ Moved(n, 1, -1) \in InFlight(a2, r)
             /\ MessageAt(a2, r, Moved(n, 1, -1)) = MessageAt(a, r, n)
  <2>1. n \in 2 .. Len(a) + Len(r) /\ Moved(n, 1, -1) = n - 1
    BY <1>1, <1>4, <1>5 DEF Moved
  <2> QED BY <1>2, <1>3, <2>1
<1>7. ASSUME NEW n \in InFlight(a2, r)
      PROVE  \E m \in InFlight(a, r) : Moved(m, 1, -1) = n
  <2>1. n + 1 \in 2 .. Len(a) + Len(r) /\ (n + 1) - 1 = n /\ Moved(n + 1, 1, -1) = n
    BY <1>1, <1>5 DEF Moved
  <2> QED BY <1>3, <2>1
<1>8. Renumbers(a, r, a2, r, 1, -1)
  BY <1>4, <1>6, <1>7 DEF Renumbers
<1>9. Paired(a2, r, q)
  BY <1>1, <1>8, ShiftPairs
<1> QED BY <1>9 DEF a2

\* The transport module takes an acknowledgement from the front of the requests.
LEMMA AcknowledgementTakenPairs ==
  ASSUME NEW a \in Messages, NEW r \in Messages, NEW q \in Records, r # <<>>,
         Head(r).type = "STATUS", Paired(a, r, q)
  PROVE  Paired(a, Tail(r), q)
<1> DEFINE r2 == Tail(r)
           from == Len(a) + 1
<1>1. /\ Len(a) \in Nat /\ Len(r) \in Nat \ {0} /\ Len(r2) = Len(r) - 1 /\ Head(r) = r[1]
      /\ \A n \in 1 .. Len(r) - 1 : r2[n] = r[n + 1]
      /\ r2 \in Messages
  BY AtTail DEF Messages
<1> HIDE DEF r2
<1>2. \A n \in 1 .. Len(a) : MessageAt(a, r2, n) = MessageAt(a, r, n)
  BY <1>1 DEF MessageAt
<1>3. \A n \in from + 1 .. Len(a) + Len(r) : MessageAt(a, r2, n - 1) = MessageAt(a, r, n)
  BY <1>1 DEF MessageAt
<1>4. \A n \in 1 .. Len(a) : n \in InFlight(a, r2) <=> n \in InFlight(a, r)
  BY <1>1, <1>2 DEF InFlight
<1>5. \A n \in from + 1 .. Len(a) + Len(r) :
        n - 1 \in InFlight(a, r2) <=> n \in InFlight(a, r)
  BY <1>1, <1>3 DEF InFlight
<1>6. from \notin InFlight(a, r)
  BY <1>1 DEF InFlight, MessageAt
<1>7. InFlight(a, r) \subseteq 1 .. Len(a) + Len(r)
      /\ InFlight(a, r2) \subseteq 1 .. Len(a) + Len(r) - 1
  BY <1>1 DEF InFlight
<1>8. ASSUME NEW n \in InFlight(a, r)
      PROVE  /\ Moved(n, from, -1) \in InFlight(a, r2)
             /\ MessageAt(a, r2, Moved(n, from, -1)) = MessageAt(a, r, n)
  <2>1. CASE n > from
    <3>1. n \in from + 1 .. Len(a) + Len(r) /\ Moved(n, from, -1) = n - 1
      BY <1>1, <1>7, <2>1 DEF Moved
    <3> QED BY <1>3, <1>5, <3>1
  <2>2. CASE n < from
    <3>1. n \in 1 .. Len(a) /\ Moved(n, from, -1) = n
      BY <1>1, <1>7, <2>2 DEF Moved
    <3> QED BY <1>2, <1>4, <3>1
  <2> QED BY <1>1, <1>6, <1>7, <2>1, <2>2
<1>9. ASSUME NEW n \in InFlight(a, r2)
      PROVE  \E m \in InFlight(a, r) : Moved(m, from, -1) = n
  <2>1. CASE n >= from
    <3>1. /\ n + 1 \in from + 1 .. Len(a) + Len(r) /\ (n + 1) - 1 = n
          /\ Moved(n + 1, from, -1) = n
      BY <1>1, <1>7, <2>1 DEF Moved
    <3> QED BY <1>5, <3>1
  <2>2. CASE n < from
    <3>1. n \in 1 .. Len(a) /\ Moved(n, from, -1) = n
      BY <1>1, <1>7, <2>2 DEF Moved
    <3> QED BY <1>4, <3>1
  <2> QED BY <1>1, <1>7, <2>1, <2>2
<1> HIDE DEF from
<1>10. from \in Nat
  BY <1>1 DEF from
<1>11. Renumbers(a, r, a, r2, from, -1)
  BY <1>6, <1>8, <1>9 DEF Renumbers
<1>12. Paired(a, r2, q)
  BY <1>1, <1>10, <1>11, ShiftPairs
<1> QED BY <1>12 DEF r2

(***************************************************************************)
(* An answer at the front is that of the oldest record, so there is one.   *)
(***************************************************************************)
LEMMA FrontPairs ==
  ASSUME NEW a \in Messages, NEW r \in Messages, NEW q \in Records, a # <<>>,
         Head(a).type = "STATUS",
         NEW f \in [DOMAIN q -> InFlight(a, r)], PairedBy(f, a, r, q)
  PROVE  q # <<>> /\ f[1] = 1
<1>1. Len(a) \in Nat \ {0} /\ Head(a) = a[1] /\ Len(r) \in Nat /\ DOMAIN q = 1 .. Len(q)
      /\ Len(q) \in Nat
  BY AtTail DEF Messages, Records
<1>2. 1 \in InFlight(a, r)
  BY <1>1 DEF InFlight, MessageAt
<1>3. PICK k \in DOMAIN q : f[k] = 1
  BY <1>2 DEF PairedBy
<1>4. 1 \in DOMAIN q /\ k >= 1
  BY <1>1, <1>3
<1>5. f[1] >= 1 /\ f[1] \in Nat
  BY <1>1, <1>4 DEF InFlight
<1>6. ~(1 < k)
  BY <1>3, <1>4, <1>5 DEF PairedBy
<1> QED BY <1>1, <1>3, <1>4, <1>6

\* sock_module takes the answer at the front together with the oldest record.
LEMMA AnswerTakenPairs ==
  ASSUME NEW a \in Messages, NEW r \in Messages, NEW q \in Records, a # <<>>,
         Head(a).type = "STATUS", Paired(a, r, q)
  PROVE  q # <<>> /\ Paired(Tail(a), r, Tail(q))
<1> DEFINE a2 == Tail(a)
           q2 == Tail(q)
<1>1. PICK f \in [DOMAIN q -> InFlight(a, r)] : PairedBy(f, a, r, q)
  BY DEF Paired
<1>2. q # <<>> /\ f[1] = 1
  BY <1>1, FrontPairs
<1>3. /\ Len(a) \in Nat \ {0} /\ Len(a2) = Len(a) - 1 /\ Head(a) = a[1]
      /\ \A n \in 1 .. Len(a) - 1 : a2[n] = a[n + 1]
      /\ a2 \in Messages /\ Len(r) \in Nat
  BY AtTail DEF Messages
<1>4. /\ Len(q) \in Nat \ {0} /\ DOMAIN q = 1 .. Len(q) /\ DOMAIN q2 = 1 .. Len(q) - 1
      /\ \A k \in 1 .. Len(q) - 1 : q2[k] = q[k + 1]
  BY <1>2, AtTail DEF Records
<1> DEFINE g == [k \in DOMAIN q2 |-> f[k + 1] - 1]
<1> HIDE DEF a2, q2
<1>5. \A n \in 2 .. Len(a) + Len(r) : MessageAt(a2, r, n - 1) = MessageAt(a, r, n)
  BY <1>3 DEF MessageAt
<1>6. \A n \in 2 .. Len(a) + Len(r) : n - 1 \in InFlight(a2, r) <=> n \in InFlight(a, r)
  BY <1>3, <1>5 DEF InFlight
<1>7. InFlight(a, r) \subseteq 1 .. Len(a) + Len(r)
      /\ InFlight(a2, r) \subseteq 1 .. Len(a) + Len(r) - 1
  BY <1>3 DEF InFlight
<1>8. \A k \in DOMAIN q2 : /\ k + 1 \in DOMAIN q
                          /\ f[k + 1] \in InFlight(a, r) /\ f[k + 1] > 1
                          /\ f[k + 1] \in 2 .. Len(a) + Len(r)
  <2>1. ASSUME NEW k \in DOMAIN q2
        PROVE  /\ k + 1 \in DOMAIN q
               /\ f[k + 1] \in InFlight(a, r) /\ f[k + 1] > 1
    <3>1. 1 \in DOMAIN q /\ k + 1 \in DOMAIN q /\ 1 < k + 1
      BY <1>4, <2>1
    <3> QED BY <1>1, <1>2, <3>1 DEF PairedBy
  <2> QED BY <1>3, <1>7, <2>1
<1>9. g \in [DOMAIN q2 -> InFlight(a2, r)]
  BY <1>6, <1>8
<1>10. \A i, j \in DOMAIN q2 : i < j => g[i] < g[j]
  <2>1. ASSUME NEW i \in DOMAIN q2, NEW j \in DOMAIN q2, i < j
        PROVE  g[i] < g[j]
    <3>1. i + 1 \in DOMAIN q /\ j + 1 \in DOMAIN q /\ i + 1 < j + 1
      BY <1>4, <2>1
    <3>2. f[i + 1] < f[j + 1]
      BY <1>1, <3>1 DEF PairedBy
    <3> QED BY <1>3, <1>8, <3>2
  <2> QED BY <2>1
<1>11. \A n \in InFlight(a2, r) : \E k \in DOMAIN q2 : g[k] = n
  <2>1. ASSUME NEW n \in InFlight(a2, r)
        PROVE  \E k \in DOMAIN q2 : g[k] = n
    <3>1. n \in Nat /\ n + 1 \in 2 .. Len(a) + Len(r) /\ (n + 1) - 1 = n
      BY <1>3, <1>7
    <3>2. n + 1 \in InFlight(a, r)
      BY <1>6, <3>1
    <3>3. PICK k \in DOMAIN q : f[k] = n + 1
      BY <1>1, <3>2 DEF PairedBy
    <3>4. k # 1
      BY <1>2, <3>1, <3>3
    <3>5. k - 1 \in DOMAIN q2 /\ (k - 1) + 1 = k
      BY <1>4, <3>4
    <3>6. g[k - 1] = n
      BY <3>1, <3>3, <3>5
    <3> QED BY <3>5, <3>6
  <2> QED BY <2>1
<1>12. ASSUME NEW k \in DOMAIN q2
       PROVE  /\ MessageAt(a2, r, g[k]).connection = q2[k].connection
              /\ MessageAt(a2, r, g[k]).type \in {"STATUS", q2[k].type}
  <2>1. MessageAt(a2, r, g[k]) = MessageAt(a, r, f[k + 1])
    BY <1>5, <1>8
  <2>2. q2[k] = q[k + 1] /\ k + 1 \in DOMAIN q
    BY <1>4
  <2> HIDE DEF g
  <2> QED BY <1>1, <2>1, <2>2 DEF PairedBy
<1> HIDE DEF g
<1>13. PairedBy(g, a2, r, q2)
  BY <1>10, <1>11, <1>12 DEF PairedBy
<1> QED BY <1>2, <1>9, <1>13 DEF Paired, a2, q2

-----------------------------------------------------------------------------
(***************************************************************************)
(* The steps of the processes.                                             *)
(***************************************************************************)
Pairing == UdpAnswersPair /\ TcpAnswersPair

PairingVars == <<udpFifos, tcpFifos, udpq, tcpq>>

\* The FIFOs and queues that Pairing speaks of have their types.
LEMMA PairingTypes ==
  ASSUME TypeOK
  PROVE  /\ sock2udp \in Messages /\ udp2sock \in Messages /\ udpq \in Records
         /\ sock2tcp \in Messages /\ tcp2sock \in Messages /\ tcpq \in Records
BY DEF TypeOK, FifosTypeOK, SockTypeOK, Messages, Records

\* What ends up in a typed FIFO has the type of its elements.
LEMMA Appended ==
  ASSUME NEW S, NEW s \in Seq(S), NEW e, Append(s, e) \in Seq(S)
  PROVE  e \in S
<1>1. s \in Seq(S \cup {e})
  OBVIOUS
<1>2. /\ Append(s, e)[Len(s) + 1] = e
      /\ Len(Append(s, e)) = Len(s) + 1 /\ Len(s) \in Nat
  BY <1>1, AppendProperties
<1> QED BY <1>2, ElementOfSeq

\* Steps that send, take and file nothing keep the pairing.
LEMMA IdlePairs ==
  ASSUME Pairing, UNCHANGED PairingVars
  PROVE  Pairing'
BY DEF Pairing, PairingVars, udpFifos, tcpFifos, UdpAnswersPair, TcpAnswersPair

\* SendUDPRequest and SendTCPRequest file a record next to each request.
LEMMA SendRequestPairs ==
  ASSUME TypeOK, TypeOK', Pairing, NEW s, NEW sock, s.type # "STATUS",
         SendRequest(s, sock)
  PROVE  Pairing'
<1> DEFINE record == RecordOf(s, sock)
<1>1. record.type = s.type /\ record.connection = s.connection
  BY DEF RecordOf
<1>2. /\ sock2udp \in Messages /\ udp2sock \in Messages /\ udpq \in Records
      /\ sock2tcp \in Messages /\ tcp2sock \in Messages /\ tcpq \in Records
      /\ sock2udp' \in Messages /\ udpq' \in Records
      /\ sock2tcp' \in Messages /\ tcpq' \in Records
  <2>1. ASSUME TypeOK' PROVE sock2udp' \in Messages /\ udpq' \in Records
                            /\ sock2tcp' \in Messages /\ tcpq' \in Records
    BY <2>1 DEF TypeOK, FifosTypeOK, SockTypeOK, Messages, Records
  <2> QED BY <2>1, PairingTypes
<1> HIDE DEF record
<1>3. CASE SendUDPRequest(s, sock)
  <2>1. /\ sock2udp' = Append(sock2udp, s) /\ udpq' = Append(udpq, record)
        /\ UNCHANGED <<udp2sock, sock2tcp, tcp2sock, tcpq>>
    BY <1>3 DEF SendUDPRequest, tcpFifos, record
  <2>2. s \in SockRequestResponse /\ record \in RequestRecord
    BY <1>2, <2>1, Appended DEF Messages, Records
  <2>3. Paired(udp2sock, Append(sock2udp, s), Append(udpq, record))
    BY <1>1, <1>2, <2>2, RequestPairs DEF Pairing, UdpAnswersPair
  <2> QED BY <2>1, <2>3 DEF Pairing, UdpAnswersPair, TcpAnswersPair
<1>4. CASE SendTCPRequest(s, sock)
  <2>1. /\ sock2tcp' = Append(sock2tcp, s) /\ tcpq' = Append(tcpq, record)
        /\ UNCHANGED <<tcp2sock, sock2udp, udp2sock, udpq>>
    BY <1>4 DEF SendTCPRequest, udpFifos, record
  <2>2. s \in SockRequestResponse /\ record \in RequestRecord
    BY <1>2, <2>1, Appended DEF Messages, Records
  <2>3. Paired(tcp2sock, Append(sock2tcp, s), Append(tcpq, record))
    BY <1>1, <1>2, <2>2, RequestPairs DEF Pairing, TcpAnswersPair
  <2> QED BY <2>1, <2>3 DEF Pairing, UdpAnswersPair, TcpAnswersPair
<1> QED BY <1>3, <1>4 DEF SendRequest

\* A request of the application is answered at once, or sent on with its record.
LEMMA ProcessAppRequestPairs ==
  ASSUME TypeOK, TypeOK', Pairing, ProcessAppRequest
  PROVE  Pairing'
<1>1. ASSUME NEW sock, NEW data, NEW err, AnswerNow(sock, data, err)
      PROVE  Pairing'
  BY <1>1, IdlePairs DEF AnswerNow, PairingVars
<1>2. ASSUME NEW sock, NEW err, Refuse(sock, err)
      PROVE  Pairing'
  BY <1>1, <1>2 DEF Refuse
<1>3. ASSUME NEW type \in {"FORWARD", "CONNECT", "ACCEPT", "WRITE", "CLOSE"},
             NEW c, NEW data, NEW sock, SendRequest(Request(type, c, data), sock)
      PROVE  Pairing'
  <2>1. Request(type, c, data).type # "STATUS"
    BY DEF Request
  <2> HIDE DEF Request
  <2> QED BY <1>3, <2>1, SendRequestPairs
<1>4. CASE mSOCKET
  BY <1>1, <1>2, <1>4 DEF mSOCKET
<1>5. CASE mBIND
  BY <1>1, <1>2, <1>3, <1>5 DEF mBIND, Forward
<1>6. CASE mLISTEN
  BY <1>1, <1>2, <1>6 DEF mLISTEN
<1>7. CASE mACCEPT
  BY <1>2, <1>3, <1>7 DEF mACCEPT, Forward
<1>8. CASE mCONNECT
  <2>1. ASSUME NEW udp, NEW c, NEW sock,
               SendRequest(Request(IF udp THEN "FORWARD" ELSE "CONNECT", c, <<>>), sock)
        PROVE  Pairing'
    <3>1. (IF udp THEN "FORWARD" ELSE "CONNECT") \in {"FORWARD", "CONNECT"}
      OBVIOUS
    <3> QED BY <1>3, <2>1, <3>1
  <2> HIDE DEF Request, Pairing
  <2> QED BY <1>2, <1>8, <2>1 DEF mCONNECT, Forward
<1>9. CASE mREAD
  <2>1. CASE UNCHANGED <<ports, tcpq, udpq, udpFifos, tcpFifos, sock2socklib>>
    BY <2>1, IdlePairs DEF PairingVars
  <2> QED BY <1>1, <1>2, <1>9, <2>1 DEF mREAD
<1>10. CASE mWRITE
  BY <1>2, <1>3, <1>10 DEF mWRITE, Forward
<1>11. CASE mCLOSE
  BY <1>2, <1>3, <1>11 DEF mCLOSE
<1>12. CASE UnservedRequest
  BY <1>2, <1>12 DEF UnservedRequest
<1> QED BY <1>4, <1>5, <1>6, <1>7, <1>8, <1>9, <1>10, <1>11, <1>12 DEF ProcessAppRequest

\* sock_module acknowledges the data it takes.
LEMMA ReplyPairs ==
  ASSUME NEW a \in Messages, NEW r \in Messages, NEW q \in Records, a # <<>>,
         Head(a).type # "STATUS", Paired(a, r, q),
         NEW m \in SockRequestResponse, m.type = "STATUS"
  PROVE  Paired(Tail(a), Append(r, m), q)
<1>1. Tail(a) \in Messages /\ Paired(Tail(a), r, q)
  BY AtTail, IndicationTakenPairs DEF Messages
<1> QED BY <1>1, AcknowledgementPairs

\* HandleUDPWrite keeps messages and records paired: it answers data with a
\* STATUS of its own, which is nobody's answer.
LEMMA UDPWritePairs ==
  ASSUME TypeOK, Pairing, HandleUDPWrite
  PROVE  Pairing'
<1> DEFINE s == Head(udp2sock)
<1>1. /\ udp2sock # <<>> /\ s.type = "WRITE" /\ udp2sock' = Tail(udp2sock)
      /\ UNCHANGED <<udpq, sock2tcp, tcp2sock, tcpq>>
  BY DEF HandleUDPWrite, UDPReceive, tcpFifos
<1>2. sock2udp \in Messages /\ udp2sock \in Messages /\ udpq \in Records
  BY PairingTypes
<1>3. s \in SockRequestResponse /\ SockTypeOK
  BY <1>1, <1>2, AtTail DEF Messages, TypeOK
<1>4. ASSUME NEW m \in SockRequestResponse, m.type = "STATUS", ReplyUDP(m)
      PROVE  Pairing'
  <2>1. Paired(Tail(udp2sock), Append(sock2udp, m), udpq)
    BY <1>1, <1>2, <1>4, ReplyPairs DEF Pairing, UdpAnswersPair
  <2> QED BY <1>1, <1>4, <2>1 DEF ReplyUDP, Pairing, UdpAnswersPair, TcpAnswersPair
<1>5. FindConnection(socks, s.connection) > 0 => FindConnection(socks, s.connection) \in Sock
  BY <1>3, FindConnectionRange, UsableSock DEF SockTypeOK
<1>6. PICK m \in SockRequestResponse : m.type = "STATUS" /\ ReplyUDP(m)
  <2>1. \A sock : /\ BufferReply(s, sock).type = "STATUS"
                  /\ TakenReply(s).type = "STATUS"
                  /\ UnmatchedReply(s).type = "STATUS"
                  /\ RefusedReply(s).type = "STATUS"
    BY DEF BufferReply, TakenReply, UnmatchedReply, RefusedReply, StatusReply
  <2>2. \A sock \in Sock : /\ BufferReply(s, sock) \in SockRequestResponse
                           /\ TakenReply(s) \in SockRequestResponse
                           /\ UnmatchedReply(s) \in SockRequestResponse
                           /\ RefusedReply(s) \in SockRequestResponse
    BY <1>3, SockReplyTypes
  <2>3. \/ \E sock \in Sock : ReplyUDP(BufferReply(s, sock))
        \/ ReplyUDP(TakenReply(s)) \/ ReplyUDP(UnmatchedReply(s)) \/ ReplyUDP(RefusedReply(s))
    BY <1>5 DEF HandleUDPWrite
  <2>4. 0 \in Sock
    BY UsableSock
  <2> HIDE DEF s
  <2> QED BY <2>1, <2>2, <2>3, <2>4
<1> QED BY <1>4, <1>6

\* HandleTCPWrite keeps messages and records paired, whatever state the socket
\* is in.
LEMMA TCPWritePairs ==
  ASSUME TypeOK, Pairing, HandleTCPWrite
  PROVE  Pairing'
<1> DEFINE s == Head(tcp2sock)
<1>1. /\ tcp2sock # <<>> /\ s.type = "WRITE" /\ tcp2sock' = Tail(tcp2sock)
      /\ UNCHANGED <<tcpq, sock2udp, udp2sock, udpq>>
  BY DEF HandleTCPWrite, TCPReceive, udpFifos
<1>2. sock2tcp \in Messages /\ tcp2sock \in Messages /\ tcpq \in Records
  BY PairingTypes
<1>3. s \in SockRequestResponse /\ SockTypeOK
  BY <1>1, <1>2, AtTail DEF Messages, TypeOK
<1>4. ASSUME NEW m \in SockRequestResponse, m.type = "STATUS", ReplyTCP(m)
      PROVE  Pairing'
  <2>1. Paired(Tail(tcp2sock), Append(sock2tcp, m), tcpq)
    BY <1>1, <1>2, <1>4, ReplyPairs DEF Pairing, TcpAnswersPair
  <2> QED BY <1>1, <1>4, <2>1 DEF ReplyTCP, Pairing, UdpAnswersPair, TcpAnswersPair
<1>5. FindConnection(socks, s.connection) > 0 => FindConnection(socks, s.connection) \in Sock
  BY <1>3, FindConnectionRange, UsableSock DEF SockTypeOK
<1>6. PICK m \in SockRequestResponse : m.type = "STATUS" /\ ReplyTCP(m)
  <2>1. \A sock, data, n, err :
          /\ BufferReply(s, sock).type = "STATUS"
          /\ TakenReply(s).type = "STATUS"
          /\ UnmatchedReply(s).type = "STATUS"
          /\ RefusedReply(s).type = "STATUS"
          /\ StatusReply(s, data, n, err).type = "STATUS"
    BY DEF BufferReply, TakenReply, UnmatchedReply, RefusedReply, StatusReply
  <2>2. \A sock \in Sock : /\ BufferReply(s, sock) \in SockRequestResponse
                           /\ TakenReply(s) \in SockRequestResponse
                           /\ UnmatchedReply(s) \in SockRequestResponse
                           /\ RefusedReply(s) \in SockRequestResponse
    BY <1>3, SockReplyTypes
  <2>3. \A err \in {"EOK", "ERESOURCE_UNAVAIL"} :
          StatusReply(s, s.data, s.bytes, err) \in SockRequestResponse
    BY <1>3, MessageParts, StatusReplyType, ErrorCodes
  <2>4. \/ \E sock \in Sock : ReplyTCP(BufferReply(s, sock))
        \/ ReplyTCP(TakenReply(s)) \/ ReplyTCP(UnmatchedReply(s)) \/ ReplyTCP(RefusedReply(s))
        \/ \E err \in {"EOK", "ERESOURCE_UNAVAIL"} :
             ReplyTCP(StatusReply(s, s.data, s.bytes, err))
    BY <1>5 DEF HandleTCPWrite, CompleteConnect, CompleteAccept
  <2>5. 0 \in Sock
    BY UsableSock
  <2> HIDE DEF s
  <2> QED BY <2>1, <2>2, <2>3, <2>4, <2>5
<1> QED BY <1>4, <1>6

\* A STATUS is taken with the oldest record.
LEMMA StatusPairs ==
  ASSUME TypeOK, Pairing, HandleUDPStatus \/ HandleTCPStatus
  PROVE  Pairing'
<1>1. CASE HandleUDPStatus
  <2>1. /\ udp2sock # <<>> /\ Head(udp2sock).type = "STATUS"
        /\ udp2sock' = Tail(udp2sock) /\ udpq' = Tail(udpq)
        /\ UNCHANGED <<sock2udp, sock2tcp, tcp2sock, tcpq>>
    BY <1>1 DEF HandleUDPStatus, UDPReceive, tcpFifos
  <2>2. Paired(Tail(udp2sock), sock2udp, Tail(udpq))
    BY <2>1, PairingTypes, AnswerTakenPairs DEF Pairing, UdpAnswersPair
  <2> QED BY <2>1, <2>2 DEF Pairing, UdpAnswersPair, TcpAnswersPair
<1>2. CASE HandleTCPStatus
  <2>1. /\ tcp2sock # <<>> /\ Head(tcp2sock).type = "STATUS"
        /\ tcp2sock' = Tail(tcp2sock) /\ tcpq' = Tail(tcpq)
        /\ UNCHANGED <<sock2tcp, sock2udp, udp2sock, udpq>>
    BY <1>2 DEF HandleTCPStatus, TCPReceive, udpFifos
  <2>2. Paired(Tail(tcp2sock), sock2tcp, Tail(tcpq))
    BY <2>1, PairingTypes, AnswerTakenPairs DEF Pairing, TcpAnswersPair
  <2> QED BY <2>1, <2>2 DEF Pairing, UdpAnswersPair, TcpAnswersPair
<1> QED BY <1>1, <1>2

\* udp_module answers every request but an acknowledgement.
LEMMA UdpModulePairs ==
  ASSUME TypeOK, TypeOK', Pairing, UdpFromMux \/ UdpFromSock
  PROVE  Pairing'
<1>1. UNCHANGED <<sock2tcp, tcp2sock, tcpq, udpq>>
  BY DEF UdpFromMux, UdpFromSock, tcpFifos, sockVars
<1>2. /\ sock2udp \in Messages /\ udp2sock \in Messages /\ udpq \in Records
      /\ udp2sock' \in Messages
  <2>1. udp2sock' \in Messages
    BY DEF TypeOK, FifosTypeOK, Messages
  <2> QED BY <2>1, PairingTypes
<1>3. SUFFICES Paired(udp2sock', sock2udp', udpq)
  BY <1>1 DEF Pairing, UdpAnswersPair, TcpAnswersPair
<1>4. Paired(udp2sock, sock2udp, udpq)
  BY DEF Pairing, UdpAnswersPair
<1>5. CASE UdpFromMux
  <2>1. PICK d \in Datagram : HandleMux(d)
    BY <1>5 DEF UdpFromMux
  <2>2. UNCHANGED sock2udp
    BY <2>1 DEF HandleMux
  <2>3. CASE UNCHANGED udp2sock
    BY <1>4, <2>2, <2>3
  <2>4. CASE ~UNCHANGED udp2sock
    <3>1. PICK m : m.type = "WRITE" /\ udp2sock' = Append(udp2sock, m)
      BY <2>1, <2>4 DEF HandleMux
    <3>2. m \in SockRequestResponse
      BY <1>2, <3>1, Appended DEF Messages
    <3> QED BY <1>2, <1>4, <2>2, <3>1, <3>2, IndicationPairs
  <2> QED BY <2>3, <2>4
<1>6. CASE UdpFromSock
  <2> DEFINE req == Head(sock2udp)
  <2>1. sock2udp # <<>> /\ sock2udp' = Tail(sock2udp)
    BY <1>6 DEF UdpFromSock, HandleSock
  <2>2. CASE req.type = "STATUS" /\ UNCHANGED udp2sock
    BY <1>2, <1>4, <2>1, <2>2, AcknowledgementTakenPairs
  <2>3. ASSUME req.type # "STATUS", NEW n, NEW err, UDPReply(req, n, err)
        PROVE  Paired(udp2sock', sock2udp', udpq)
    <3> DEFINE m == StatusReply(req, <<>>, n, err)
    <3>1. m.type = "STATUS" /\ m.connection = req.connection
          /\ udp2sock' = Append(udp2sock, m)
      BY <2>3 DEF StatusReply, UDPReply
    <3> HIDE DEF m
    <3>2. m \in SockRequestResponse
      BY <1>2, <3>1, Appended DEF Messages
    <3> QED BY <1>2, <1>4, <2>1, <2>3, <3>1, <3>2, AnswerPairs
  <2>4. HandleForward(req) \/ HandleWrite(req) \/ HandleClose(req) \/ HandleStatus(req)
    BY <1>6 DEF UdpFromSock, HandleSock
  <2> HIDE DEF req
  <2> QED BY <2>2, <2>3, <2>4 DEF HandleForward, HandleWrite, HandleClose, HandleStatus
<1> QED BY <1>5, <1>6

\* So does the TCP module, whatever the network does.
LEMMA TcpModulePairs ==
  ASSUME TypeOK, TypeOK', Pairing, TcpFromSock \/ TcpFromNetwork
  PROVE  Pairing'
<1>1. UNCHANGED <<sock2udp, udp2sock, tcpq, udpq>>
  BY DEF TcpFromSock, TcpFromNetwork, udpFifos, sockVars
<1>2. /\ sock2tcp \in Messages /\ tcp2sock \in Messages /\ tcpq \in Records
      /\ tcp2sock' \in Messages
  <2>1. tcp2sock' \in Messages
    BY DEF TypeOK, FifosTypeOK, Messages
  <2> QED BY <2>1, PairingTypes
<1>3. SUFFICES Paired(tcp2sock', sock2tcp', tcpq)
  BY <1>1 DEF Pairing, UdpAnswersPair, TcpAnswersPair
<1>4. Paired(tcp2sock, sock2tcp, tcpq)
  BY DEF Pairing, TcpAnswersPair
<1>5. CASE TcpFromNetwork
  <2>1. TcpNetwork /\ UNCHANGED sock2tcp
    BY <1>5 DEF TcpFromNetwork, TcpNetwork
  <2>2. PICK c, data, err : Indicate(c, data, err)
    BY <2>1 DEF TcpNetwork, ConnectOutcome, Arrival, Received
  <2>3. PICK m : m.type = "WRITE" /\ tcp2sock' = Append(tcp2sock, m)
    BY <2>2 DEF Indicate
  <2>4. m \in SockRequestResponse
    BY <1>2, <2>3, Appended DEF Messages
  <2> QED BY <1>2, <1>4, <2>1, <2>3, <2>4, IndicationPairs
<1>6. CASE TcpFromSock
  <2> DEFINE req == Head(sock2tcp)
  <2>1. sock2tcp # <<>> /\ sock2tcp' = Tail(sock2tcp)
    BY <1>6 DEF TcpFromSock, TcpHandleSock
  <2>2. CASE req.type = "STATUS" /\ UNCHANGED tcp2sock
    BY <1>2, <1>4, <2>1, <2>2, AcknowledgementTakenPairs
  <2>3. ASSUME req.type # "STATUS", NEW n, NEW err, TCPReply(req, n, err)
        PROVE  Paired(tcp2sock', sock2tcp', tcpq)
    <3> DEFINE m == StatusReply(req, <<>>, n, err)
    <3>1. m.type = "STATUS" /\ m.connection = req.connection
          /\ tcp2sock' = Append(tcp2sock, m)
      BY <2>3 DEF StatusReply, TCPReply
    <3> HIDE DEF m
    <3>2. m \in SockRequestResponse
      BY <1>2, <3>1, Appended DEF Messages
    <3> QED BY <1>2, <1>4, <2>1, <2>3, <3>1, <3>2, AnswerPairs
  <2>4. \/ req.type # "STATUS" /\ \E n, err : TCPReply(req, n, err)
        \/ req.type = "STATUS" /\ UNCHANGED tcp2sock
    BY <1>6 DEF TcpFromSock, TcpHandleSock, Open
  <2> HIDE DEF req
  <2> QED BY <2>2, <2>3, <2>4
<1> QED BY <1>5, <1>6

-----------------------------------------------------------------------------
(* The invariant. *)

\* Before anything is sent there is nothing to pair.
LEMMA PairingInit == Init => Pairing
<1> SUFFICES ASSUME Init PROVE Pairing
  OBVIOUS
<1>1. /\ udp2sock = <<>> /\ sock2udp = <<>> /\ udpq = <<>>
      /\ tcp2sock = <<>> /\ sock2tcp = <<>> /\ tcpq = <<>>
  BY DEF Init, FifosInit, SockInit
<1>2. Paired(<<>>, <<>>, <<>>)
  <2> DEFINE f == [k \in {} |-> 0]
  <2>1. InFlight(<<>>, <<>>) = {}
    BY DEF InFlight
  <2>2. DOMAIN <<>> = {}
    OBVIOUS
  <2>3. f \in [{} -> {}]
    OBVIOUS
  <2>4. PairedBy(f, <<>>, <<>>, <<>>)
    BY <2>1, <2>2 DEF PairedBy
  <2> HIDE DEF f
  <2> QED BY <2>1, <2>2, <2>3, <2>4 DEF Paired
<1> QED BY <1>1, <1>2 DEF Pairing, UdpAnswersPair, TcpAnswersPair

\* Every step of every process keeps the pairing.
LEMMA PairingStep == TypeOK /\ TypeOK' /\ Pairing /\ [Next]_vars => Pairing'
<1> SUFFICES ASSUME TypeOK, TypeOK', Pairing, [Next]_vars PROVE Pairing'
  OBVIOUS
<1>1. CASE Application
  BY <1>1, IdlePairs DEF Application, PairingVars, sockVars
<1>2. CASE CallReturn
  BY <1>2, IdlePairs DEF CallReturn, PairingVars, sockVars
<1>3. CASE SockProcess
  <2>1. SockModuleStep
    BY <1>3 DEF SockProcess
  <2> QED BY <2>1, UDPWritePairs, TCPWritePairs, StatusPairs, ProcessAppRequestPairs
          DEF SockModuleStep
<1>4. CASE UdpFromMux \/ UdpFromSock
  BY <1>4, UdpModulePairs
<1>5. CASE TcpFromSock \/ TcpFromNetwork
  BY <1>5, TcpModulePairs
<1>6. CASE UNCHANGED vars
  BY <1>6, IdlePairs DEF vars, fifos, sockVars, PairingVars
<1> QED BY <1>1, <1>2, <1>3, <1>4, <1>5, <1>6 DEF Next

(***************************************************************************)
(* Every STATUS under way answers the oldest request it can answer, at     *)
(* both transport modules, whatever data and acknowledgements travel in    *)
(* between: sock_module never completes a call of one socket with the      *)
(* answer of another (sock_module.cc HandleUDPStatus, HandleTCPStatus,     *)
(* SendUDPRequest, SendTCPRequest).                                        *)
(***************************************************************************)
THEOREM AnswersPair == Spec => [](UdpAnswersPair /\ TcpAnswersPair)
<1>1. Spec => []TypeOK
  BY TypeCorrect
<1>2. Init => Pairing
  BY PairingInit
<1>3. TypeOK /\ TypeOK' /\ Pairing /\ [Next]_vars => Pairing'
  BY PairingStep
<1>4. Pairing => UdpAnswersPair /\ TcpAnswersPair
  BY DEF Pairing
<1> QED BY <1>1, <1>2, <1>3, <1>4, PTL DEF Spec

\* The half about tcp_module on its own, where what it offers and the data it
\* passes up travel among its answers (sock_module.cc HandleTCPStatus).
THEOREM TcpAnswersKeepOrder == Spec => []TcpAnswersPair
BY AnswersPair, PTL

(***************************************************************************)
(* HandleUDPStatus and HandleTCPStatus dereference what Queue::Remove      *)
(* gives them without a test (sock_module.cc:200, 344): a STATUS never     *)
(* finds its queue empty.                                                  *)
(***************************************************************************)
AnswersFindRecords ==
  /\ udp2sock # <<>> /\ Head(udp2sock).type = "STATUS" => udpq # <<>>
  /\ tcp2sock # <<>> /\ Head(tcp2sock).type = "STATUS" => tcpq # <<>>

\* When a STATUS is at the head of a FIFO to sock_module, the queue of records
\* is not empty: HandleUDPStatus and HandleTCPStatus never dereference the null
\* pointer an empty queue would return (sock_module.cc:200, 344).
THEOREM NoStatusWithoutRecord == Spec => []AnswersFindRecords
<1>1. TypeOK /\ UdpAnswersPair /\ TcpAnswersPair => AnswersFindRecords
  BY PairingTypes, AnswerTakenPairs DEF UdpAnswersPair, TcpAnswersPair, AnswersFindRecords
<1> QED BY <1>1, TypeCorrect, AnswersPair, PTL
==============================================================================

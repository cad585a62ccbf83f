----------------------------- MODULE CallProofs -----------------------------
(***************************************************************************)
(* A call of the application is answered once, whatever the modules and    *)
(* the network do meanwhile: the theorems behind NeverAnsweredTwice,       *)
(* ImplementsService and PortIsExclusive of MinetSockets, for every number *)
(* of sockets, ports, hosts and messages.                                  *)
(***************************************************************************)
EXTENDS SocketProofs, FiniteSetTheorems

-----------------------------------------------------------------------------
(***************************************************************************)
(* FIFOs and queues as sets of what they hold.                             *)
(***************************************************************************)

\* At most one entry of a queue is of a kind.
Once(q, X) == \A m, n \in DOMAIN q : q[m] \in X /\ q[n] \in X => m = n

\* A message sent is added to what its FIFO holds.
LEMMA RangeAppend ==
  ASSUME NEW S, NEW q \in Seq(S), NEW e \in S
  PROVE  Range(Append(q, e)) = Range(q) \cup {e}
<1> DEFINE q2 == Append(q, e)
<1>1. /\ Len(q) \in Nat /\ DOMAIN q = 1 .. Len(q) /\ DOMAIN q2 = 1 .. Len(q) + 1
      /\ q2[Len(q) + 1] = e
      /\ \A n \in 1 .. Len(q) : q2[n] = q[n]
  BY AtAppend
<1>2. \A n \in 1 .. Len(q) + 1 : n \in 1 .. Len(q) \/ n = Len(q) + 1
  BY <1>1
<1>3. \A n \in 1 .. Len(q) : n \in 1 .. Len(q) + 1
  BY <1>1
<1>4. Len(q) + 1 \in 1 .. Len(q) + 1
  BY <1>1
<1> HIDE DEF q2
<1>5. Range(q2) = Range(q) \cup {e}
  BY <1>1, <1>2, <1>3, <1>4 DEF Range
<1> QED BY <1>5 DEF q2

\* A message received is one of those its FIFO held; the others remain.
LEMMA RangeTail ==
  ASSUME NEW S, NEW q \in Seq(S), q # <<>>
  PROVE  /\ Range(q) = {Head(q)} \cup Range(Tail(q))
         /\ Head(q) \in Range(q) /\ Range(Tail(q)) \subseteq Range(q)
<1> DEFINE q2 == Tail(q)
<1>1. /\ Len(q) \in Nat \ {0} /\ DOMAIN q = 1 .. Len(q) /\ DOMAIN q2 = 1 .. Len(q) - 1
      /\ Head(q) = q[1]
      /\ \A n \in 1 .. Len(q) - 1 : q2[n] = q[n + 1]
  BY AtTail
<1>2. \A n \in 1 .. Len(q) : n = 1 \/ (n - 1 \in 1 .. Len(q) - 1 /\ (n - 1) + 1 = n)
  BY <1>1
<1>3. 1 \in 1 .. Len(q) /\ \A n \in 1 .. Len(q) - 1 : n + 1 \in 1 .. Len(q)
  BY <1>1
<1> HIDE DEF q2
<1>4. Range(q) \subseteq {Head(q)} \cup Range(q2)
  <2> SUFFICES ASSUME NEW n \in 1 .. Len(q), q[n] # Head(q)
               PROVE  q[n] \in Range(q2)
    BY <1>1 DEF Range
  <2>1. n - 1 \in 1 .. Len(q) - 1 /\ (n - 1) + 1 = n
    BY <1>1, <1>2
  <2>2. n - 1 \in DOMAIN q2 /\ q2[n - 1] = q[n]
    BY <1>1, <2>1
  <2> QED BY <2>2 DEF Range
<1>5. Head(q) \in Range(q) /\ Range(q2) \subseteq Range(q)
  BY <1>1, <1>3 DEF Range
<1> QED BY <1>4, <1>5 DEF q2

\* An empty FIFO holds nothing, and what a FIFO holds has its type.
LEMMA RangeBasics ==
  ASSUME NEW S, NEW q \in Seq(S)
  PROVE  /\ Range(q) \subseteq S
         /\ Range(q) = {} <=> q = <<>>
<1>1. Len(q) \in Nat /\ DOMAIN q = 1 .. Len(q) /\ \A n \in 1 .. Len(q) : q[n] \in S
  OBVIOUS
<1>2. Range(q) \subseteq S
  BY <1>1 DEF Range
<1>3. q = <<>> => Range(q) = {}
  BY DEF Range
<1>4. q # <<>> => Head(q) \in Range(q)
  BY RangeTail
<1> QED BY <1>2, <1>3, <1>4

\* The first of its kind may be added.
LEMMA OnceAppend ==
  ASSUME NEW S, NEW q \in Seq(S), NEW e \in S, NEW X,
         Once(q, X), e \in X => Range(q) \cap X = {}
  PROVE  Once(Append(q, e), X)
<1> DEFINE q2 == Append(q, e)
<1>1. /\ Len(q) \in Nat /\ DOMAIN q = 1 .. Len(q) /\ DOMAIN q2 = 1 .. Len(q) + 1
      /\ q2[Len(q) + 1] = e
      /\ \A n \in 1 .. Len(q) : q2[n] = q[n]
  BY AtAppend
<1>2. \A n \in 1 .. Len(q) + 1 : n \in 1 .. Len(q) \/ n = Len(q) + 1
  BY <1>1
<1>3. e \in X => \A n \in 1 .. Len(q) : q[n] \notin X
  BY <1>1 DEF Range
<1> HIDE DEF q2
<1>4. Once(q2, X)
  BY <1>1, <1>2, <1>3 DEF Once
<1> QED BY <1>4 DEF q2

\* Taking the only one of a kind leaves none.
LEMMA OnceTail ==
  ASSUME NEW S, NEW q \in Seq(S), q # <<>>, NEW X, Once(q, X)
  PROVE  /\ Once(Tail(q), X)
         /\ Head(q) \in X => Range(Tail(q)) \cap X = {}
<1> DEFINE q2 == Tail(q)
<1>1. /\ Len(q) \in Nat \ {0} /\ DOMAIN q = 1 .. Len(q) /\ DOMAIN q2 = 1 .. Len(q) - 1
      /\ Head(q) = q[1]
      /\ \A n \in 1 .. Len(q) - 1 : q2[n] = q[n + 1]
  BY AtTail
<1>2. /\ 1 \in DOMAIN q
      /\ \A n \in DOMAIN q2 : n \in Nat /\ n + 1 \in DOMAIN q /\ n + 1 # 1 /\ q2[n] = q[n + 1]
  BY <1>1
<1> HIDE DEF q2
<1>3. Once(q2, X)
  <2> SUFFICES ASSUME NEW m \in DOMAIN q2, NEW n \in DOMAIN q2, q2[m] \in X, q2[n] \in X
               PROVE  m = n
    BY DEF Once
  <2>1. m + 1 = n + 1
    BY <1>2 DEF Once
  <2> QED BY <1>2, <2>1
<1>4. Head(q) \in X => Range(q2) \cap X = {}
  <2> SUFFICES ASSUME Head(q) \in X, NEW n \in DOMAIN q2, q2[n] \in X
               PROVE  FALSE
    BY DEF Range
  <2> QED BY <1>1, <1>2 DEF Once
<1> QED BY <1>3, <1>4 DEF q2

\* A queue without any of a kind has at most one.
LEMMA OnceNone ==
  ASSUME NEW S, NEW q \in Seq(S), NEW X, Range(q) \cap X = {}
  PROVE  Once(q, X)
BY DEF Once, Range

\* The only message of a FIFO.
LEMMA OnlyMessage ==
  ASSUME NEW S, NEW q \in Seq(S)
  PROVE  /\ q # <<>> /\ Len(q) <= 1 => Tail(q) = <<>> /\ Range(q) = {Head(q)}
         /\ \A e \in S : /\ Len(Append(<<>>, e)) = 1 /\ Head(Append(<<>>, e)) = e
                         /\ Append(<<>>, e) # <<>> /\ Range(Append(<<>>, e)) = {e}
<1>1. ASSUME q # <<>>, Len(q) <= 1
      PROVE  Tail(q) = <<>> /\ Range(q) = {Head(q)}
  <2>1. Len(q) \in Nat \ {0} /\ Len(Tail(q)) = Len(q) - 1 /\ Tail(q) \in Seq(S)
    BY <1>1, AtTail
  <2>2. Len(Tail(q)) = 0
    BY <1>1, <2>1
  <2>3. Tail(q) = <<>>
    BY <2>1, <2>2, EmptySeq
  <2>4. Range(<<>>) = {}
    BY DEF Range
  <2> QED BY <1>1, <2>3, <2>4, RangeTail
<1>2. ASSUME NEW e \in S
      PROVE  /\ Len(Append(<<>>, e)) = 1 /\ Head(Append(<<>>, e)) = e
             /\ Append(<<>>, e) # <<>> /\ Range(Append(<<>>, e)) = {e}
  <2>1. <<>> \in Seq(S) /\ Len(<<>>) = 0 /\ Range(<<>>) = {}
    BY DEF Range
  <2> DEFINE q2 == Append(<<>>, e)
  <2>2. Len(q2) = 1 /\ q2[1] = e /\ q2 \in Seq(S)
    BY <2>1, AtAppend
  <2>3. q2 # <<>>
    BY <2>1, <2>2
  <2>4. Head(q2) = q2[1]
    BY <2>2, <2>3, AtTail
  <2>5. Range(q2) = Range(<<>>) \cup {e}
    <3>1. \A q3 \in Seq(S) : Range(Append(q3, e)) = Range(q3) \cup {e}
      BY RangeAppend
    <3> QED BY <2>1, <3>1
  <2>6. Range(q2) = {e}
    BY <2>1, <2>5
  <2> HIDE DEF q2
  <2>7. Len(q2) = 1 /\ Head(q2) = e /\ q2 # <<>> /\ Range(q2) = {e}
    BY <2>2, <2>3, <2>4, <2>6
  <2> QED BY <2>7 DEF q2
<1> QED BY <1>1, <1>2
-----------------------------------------------------------------------------
(***************************************************************************)
(* The call in progress: the invariant.                                    *)
(***************************************************************************)

\* The application waits for socket i, with no request or reply under way.
Waits(i) ==
  /\ call # NoCall /\ call.sockfd = i
  /\ socklib2sock = <<>> /\ sock2socklib = <<>>

NonePending == \A i \in Sock : socks[i].status \notin Pending

OfUdp(i) == socks[i].connection.protocol = "UDP"

\* A request is about the descriptor the library waits for.
ProperRequest(m) ==
  /\ m.sockfd = call.sockfd
  /\ m.type = "mCONNECT" => m.connection.dest \in Remotes
  /\ m.type = "mSOCKET" => m.connection.protocol \in Protocols

\* At most one message between the library and sock_module, and none between
\* two calls.
OneMessage ==
  /\ call = NoCall => socklib2sock = <<>> /\ sock2socklib = <<>>
  /\ socklib2sock = <<>> \/ sock2socklib = <<>>
  /\ Len(socklib2sock) <= 1 /\ Len(sock2socklib) <= 1
  /\ socklib2sock # <<>> => ProperRequest(Head(socklib2sock))

PendingWaits == \A i \in Sock : socks[i].status \in Pending => Waits(i)

\* The records of the given types: their STATUS is passed on to the application.
Relayed(types) == {r \in RequestRecord : r.type \in types}

UdpRecords ==
  /\ \A r \in Range(udpq) :
       /\ r.type \in {"FORWARD", "WRITE", "CLOSE"}
       /\ r.type \in {"FORWARD", "WRITE"} => OfUdp(r.sock)
       /\ r.type = "WRITE" => socks[r.sock].status = "WRITE_PENDING"
       /\ r.type = "FORWARD" => /\ Waits(r.sock) /\ NonePending
                                /\ socks[r.sock].status \in {"UNBOUND", "BOUND", "CONNECTED"}
  /\ Once(udpq, Relayed({"FORWARD", "WRITE"}))

TcpRecords ==
  /\ \A r \in Range(tcpq) :
       r.type = "WRITE" => socks[r.sock].status = "WRITE_PENDING" /\ ~OfUdp(r.sock)
  /\ Once(tcpq, Relayed({"WRITE"}))

CallInv == OneMessage /\ PendingWaits /\ UdpRecords /\ TcpRecords

\* No record waits for a STATUS that completes the call.
NoneRelayed ==
  /\ \A r \in Range(udpq) : r.type = "CLOSE"
  /\ \A r \in Range(tcpq) : r.type # "WRITE"

\* The elements of the queues and of the socket table.
LEMMA CallTypes ==
  ASSUME TypeOK
  PROVE  /\ udpq \in Records /\ tcpq \in Records
         /\ Range(udpq) \subseteq RequestRecord /\ Range(tcpq) \subseteq RequestRecord
         /\ \A r \in RequestRecord : r.sock \in Sock /\ r.connection \in Connection
         /\ \A i \in Sock : socks[i] \in SockRecord /\ socks[i].connection \in Connection
                            /\ socks[i].status \in Status
         /\ socklib2sock \in Seq(SockLibRequest) /\ sock2socklib \in Seq(SockLibReply)
<1>1. udpq \in Records /\ tcpq \in Records
      /\ socklib2sock \in Seq(SockLibRequest) /\ sock2socklib \in Seq(SockLibReply)
  BY DEF TypeOK, SockTypeOK, FifosTypeOK, Records
<1>2. Range(udpq) \subseteq RequestRecord /\ Range(tcpq) \subseteq RequestRecord
  BY <1>1, RangeBasics DEF Records
<1>3. \A r \in RequestRecord : r.sock \in Sock /\ r.connection \in Connection
  BY DEF RequestRecord
<1>4. \A i \in Sock : socks[i] \in SockRecord /\ socks[i].connection \in Connection
                      /\ socks[i].status \in Status
  BY DEF TypeOK, SockTypeOK, SockTable, SockRecord
<1> QED BY <1>1, <1>2, <1>3, <1>4

\* Nobody waits while a request or a reply is under way, or between calls.
LEMMA NobodyWaits ==
  ASSUME TypeOK, CallInv,
         call = NoCall \/ socklib2sock # <<>> \/ sock2socklib # <<>>
  PROVE  NonePending /\ NoneRelayed
<1>1. \A i : ~ Waits(i)
  BY DEF Waits
<1>2. NonePending
  BY <1>1 DEF CallInv, PendingWaits, NonePending
<1>3. \A i \in Sock : socks[i].status # "WRITE_PENDING"
  BY <1>2 DEF NonePending, Pending
<1>4. \A r \in Range(udpq) : r.type = "CLOSE"
  BY <1>1, <1>3, CallTypes DEF CallInv, UdpRecords
<1>5. \A r \in Range(tcpq) : r.type # "WRITE"
  BY <1>1, <1>3, CallTypes DEF CallInv, TcpRecords
<1> QED BY <1>2, <1>4, <1>5 DEF NoneRelayed

\* A socket that waits is the only one, and the only records whose STATUS
\* completes a call are its own.
LEMMA OnePending ==
  ASSUME TypeOK, CallInv, NEW sock \in Sock, socks[sock].status \in Pending
  PROVE  /\ Waits(sock)
         /\ \A j \in Sock : j # sock => socks[j].status \notin Pending
         /\ \A r \in Range(udpq) :
              \/ r.type = "CLOSE"
              \/ r.type = "WRITE" /\ r.sock = sock /\ socks[sock].status = "WRITE_PENDING"
                 /\ OfUdp(sock)
         /\ \A r \in Range(tcpq) :
              r.type = "WRITE" => /\ r.sock = sock /\ socks[sock].status = "WRITE_PENDING"
                                  /\ ~OfUdp(sock)
<1>1. \A j \in Sock : socks[j].status \in Pending => Waits(j)
  BY DEF CallInv, PendingWaits
<1>2. \A j : Waits(j) => j = call.sockfd
  BY DEF Waits
<1>3. ~NonePending
  BY DEF NonePending
<1>4. "WRITE_PENDING" \in Pending
  BY DEF Pending
<1>5. \A r \in Range(udpq) :
              \/ r.type = "CLOSE"
              \/ r.type = "WRITE" /\ r.sock = sock /\ socks[sock].status = "WRITE_PENDING"
                 /\ OfUdp(sock)
  BY <1>1, <1>2, <1>3, <1>4, CallTypes DEF CallInv, UdpRecords
<1>6. \A r \in Range(tcpq) :
              r.type = "WRITE" => /\ r.sock = sock /\ socks[sock].status = "WRITE_PENDING"
                                  /\ ~OfUdp(sock)
  BY <1>1, <1>2, <1>4, CallTypes DEF CallInv, TcpRecords
<1> QED BY <1>1, <1>2, <1>5, <1>6

\* A FORWARD under way is the only thing the application waits for.
LEMMA OneForward ==
  ASSUME TypeOK, CallInv, NEW r \in Range(udpq), r.type = "FORWARD"
  PROVE  /\ Waits(r.sock) /\ r.sock \in Sock /\ NonePending
         /\ \A u \in Range(tcpq) : u.type # "WRITE"
<1>1. Waits(r.sock) /\ r.sock \in Sock /\ NonePending
  BY CallTypes DEF CallInv, UdpRecords
<1>2. \A i \in Sock : socks[i].status # "WRITE_PENDING"
  BY <1>1 DEF NonePending, Pending
<1>3. \A u \in Range(tcpq) : u.type # "WRITE"
  BY <1>2, CallTypes DEF CallInv, TcpRecords
<1> QED BY <1>1, <1>3

-----------------------------------------------------------------------------
(***************************************************************************)
(* What the operations of the socket table change.                         *)
(***************************************************************************)

\* Every socket but one keeps its record.
OthersKept(table, new, sock) == \A j \in Sock : j # sock => new[j] = table[j]

\* SockStatus::SetStatus.
LEMMA SetStatusAt ==
  ASSUME NEW table \in SockTable, NEW sock \in Sock, NEW stat \in Status
  PROVE  /\ OthersKept(table, SetStatus(table, sock, stat), sock)
         /\ SetStatus(table, sock, stat)[sock].status = stat
         /\ SetStatus(table, sock, stat)[sock].connection = table[sock].connection
         /\ SetStatus(table, sock, stat)[sock].bin = table[sock].bin
         /\ SetStatus(table, sock, stat)[sock].toApp = table[sock].toApp
<1>1. table[sock] \in SockRecord
  BY TableRecord
<1> QED BY <1>1 DEF SetStatus, OthersKept, SockTable, SockRecord

\* SockStatus::CloseSocket.
LEMMA CloseSocketAt ==
  ASSUME NEW table \in SockTable, NEW sock \in Sock
  PROVE  /\ OthersKept(table, CloseSocket(table, sock), sock)
         /\ CloseSocket(table, sock)[sock] = FreeRecord
BY DEF CloseSocket, OthersKept, SockTable

\* What a request and its record say.
LEMMA RequestAt ==
  /\ \A type, c, data : /\ Request(type, c, data).type = type
                        /\ Request(type, c, data).connection = c
                        /\ Request(type, c, data).data = data
                        /\ Request(type, c, data).error = "EOK"
  /\ \A s, sock : /\ RecordOf(s, sock).type = s.type
                  /\ RecordOf(s, sock).connection = s.connection
                  /\ RecordOf(s, sock).sock = sock
BY DEF Request, RecordOf

\* A bind keeps the far end and the protocol.
LEMMA LocalEndAt ==
  ASSUME NEW c, NEW request, NEW port
  PROVE  /\ LocalEnd(c, request, port).srcport = port
         /\ LocalEnd(c, request, port).dest = c.dest
         /\ LocalEnd(c, request, port).destport = c.destport
         /\ LocalEnd(c, request, port).protocol = c.protocol
BY DEF LocalEnd

\* Data put into an input buffer, and nothing else.
LEMMA BufferedAt ==
  ASSUME TypeOK, NEW s \in SockRequestResponse, NEW sock \in Sock
  PROVE  /\ OthersKept(socks, Buffered(s, sock), sock)
         /\ Buffered(s, sock)[sock].status = socks[sock].status
         /\ Buffered(s, sock)[sock].connection = socks[sock].connection
         /\ Buffered(s, sock)[sock].bin = socks[sock].bin \o SubSeq(s.data, 1, Fits(s, sock))
<1>1. socks \in SockTable /\ socks[sock] \in SockRecord
  BY TableRecord DEF TypeOK, SockTypeOK
<1> HIDE DEF Fits
<1> QED BY <1>1 DEF Buffered, OthersKept, SockTable, SockRecord

\* A completed bind, connect or write.
LEMMA SettledAt ==
  ASSUME TypeOK, NEW sock \in Sock
  PROVE  /\ OthersKept(socks, Settled(sock), sock)
         /\ Settled(sock)[sock].status \in {"BOUND", "CONNECTED"}
         /\ Settled(sock)[sock].connection = socks[sock].connection
         /\ Settled(sock)[sock].bin = socks[sock].bin
<1>1. socks \in SockTable /\ {"BOUND", "CONNECTED"} \subseteq Status
  BY DEF TypeOK, SockTypeOK, Status
<1> QED BY <1>1, SetStatusAt DEF Settled

-----------------------------------------------------------------------------
(***************************************************************************)
(* The ways in which a step can concern the call in progress.              *)
(***************************************************************************)

\* Nothing waits, and nothing is left that could answer.
LEMMA CallAtRest ==
  ASSUME OneMessage', NonePending', NoneRelayed'
  PROVE  CallInv'
<1>1. PendingWaits'
  BY DEF PendingWaits, NonePending
<1>2. UdpRecords'
  BY DEF UdpRecords, NoneRelayed, Once, Relayed, Range
<1>3. TcpRecords'
  BY DEF TcpRecords, NoneRelayed, Once, Relayed, Range
<1> QED BY <1>1, <1>2, <1>3 DEF CallInv

\* The call is answered: nothing is left that could answer it again.
LEMMA CallAnswered ==
  ASSUME call' = call, call # NoCall, socklib2sock' = <<>>, Len(sock2socklib') = 1,
         NonePending', NoneRelayed'
  PROVE  CallInv'
<1>1. sock2socklib' # <<>>
  OBVIOUS
<1>2. OneMessage'
  BY <1>1 DEF OneMessage
<1> QED BY <1>2, CallAtRest

\* The call is not concerned, or goes on waiting at no socket at all.
LEMMA CallUnconcerned ==
  ASSUME TypeOK, TypeOK', CallInv, UNCHANGED <<call, socklib2sock, sock2socklib>>,
         Range(udpq') \subseteq Range(udpq), Range(tcpq') \subseteq Range(tcpq),
         Once(udpq', Relayed({"FORWARD", "WRITE"})), Once(tcpq', Relayed({"WRITE"})),
         \A i \in Sock :
           /\ OfUdp(i)' <=> OfUdp(i)
           /\ \/ socks'[i].status = socks[i].status
              \/ socks[i].status = "ACCEPT_PENDING" /\ socks'[i].status = "LISTENING"
  PROVE  CallInv'
<1>1. OneMessage'
  BY DEF CallInv, OneMessage, ProperRequest
<1>2. \A i \in Sock : socks'[i].status \in Pending => socks[i].status \in Pending
  BY DEF Pending
<1>3. PendingWaits'
  BY <1>2 DEF CallInv, PendingWaits, Waits
<1>4. NonePending => NonePending'
  BY <1>2 DEF NonePending
<1>5. \A i \in Sock : Waits(i) => Waits(i)'
  BY DEF Waits
<1>6. UdpRecords'
  <2>1. ASSUME NEW r \in Range(udpq')
        PROVE  /\ r.type \in {"FORWARD", "WRITE", "CLOSE"}
               /\ r.type \in {"FORWARD", "WRITE"} => OfUdp(r.sock)'
               /\ r.type = "WRITE" => socks'[r.sock].status = "WRITE_PENDING"
               /\ r.type = "FORWARD" =>
                    /\ Waits(r.sock)' /\ NonePending'
                    /\ socks'[r.sock].status \in {"UNBOUND", "BOUND", "CONNECTED"}
    BY <1>4, <1>5, CallTypes DEF CallInv, UdpRecords
  <2> QED BY <2>1 DEF UdpRecords
<1>7. TcpRecords'
  BY CallTypes DEF CallInv, TcpRecords
<1> QED BY <1>1, <1>3, <1>6, <1>7 DEF CallInv

\* The call waits at its own socket.
LEMMA CallWaits ==
  ASSUME call' = call, call # NoCall, socklib2sock' = <<>>, sock2socklib' = <<>>,
         \A i \in Sock : socks'[i].status \in Pending => i = call.sockfd,
         UdpRecords', TcpRecords'
  PROVE  CallInv'
<1>1. OneMessage'
  BY DEF OneMessage
<1>2. PendingWaits'
  BY DEF PendingWaits, Waits
<1> QED BY <1>1, <1>2 DEF CallInv

-----------------------------------------------------------------------------
(***************************************************************************)
(* The ways in which a step is one of SocketService, or none.              *)
(***************************************************************************)
OpenSocks == {i \in Sock : socks[i].status # "FREE"}

ServiceStep == [Service!Next]_(Service!vars)

\* A reply sent when none is under way is the only one.
LEMMA OneReply ==
  ASSUME sock2socklib = <<>>, NEW e, sock2socklib' = Append(sock2socklib, e)
  PROVE  /\ Len(sock2socklib') = 1 /\ Head(sock2socklib') = e
         /\ sock2socklib' # <<>> /\ Range(sock2socklib') = {e}
<1>1. <<>> \in Seq({e}) /\ e \in {e}
  OBVIOUS
<1> QED BY <1>1, OnlyMessage

\* Nothing between the library and sock_module changes, and no socket is opened
\* or closed.
LEMMA ServiceIdle ==
  ASSUME UNCHANGED <<call, socklib2sock, sock2socklib>>, OpenSocks' = OpenSocks
  PROVE  ServiceStep
<1>1. Phase' = Phase /\ Answer' = Answer
  BY DEF Phase, Answer
<1> QED BY <1>1 DEF ServiceStep, Service!vars, OpenSocks

\* A reply to the call that waits.
LEMMA ServiceCompletes ==
  ASSUME NEW sock \in Sock, Waits(sock), call' = call, NEW e,
         sock2socklib' = Append(sock2socklib, e),
         \/ e.error # "EOK" /\ OpenSocks' \in {OpenSocks, OpenSocks \ {sock}}
         \/ e.error = "EOK" /\ e.sockfd = sock /\ OpenSocks' = OpenSocks
         \/ e.error = "EOK" /\ e.sockfd \in Sock \ (OpenSocks \cup {0})
            /\ OpenSocks' = OpenSocks \cup {e.sockfd}
  PROVE  ServiceStep
<1>1. sock2socklib' # <<>> /\ Head(sock2socklib') = e
  BY OneReply DEF Waits
<1>2. Phase = "waiting" /\ Phase' = "answered" /\ call'.sockfd = call.sockfd
      /\ call.sockfd = sock
  BY <1>1 DEF Waits, Phase
<1>3. Answer' = IF e.error # "EOK" THEN -1 ELSE e.sockfd
  BY <1>1 DEF Answer
<1>4. Service!Complete
  BY <1>2, <1>3 DEF Service!Complete, Service!Opened, OpenSocks
<1> QED BY <1>4 DEF ServiceStep, Service!Next

\* A reply given at once.
LEMMA ServiceServes ==
  ASSUME call # NoCall, call' = call, socklib2sock # <<>>, sock2socklib = <<>>, NEW e,
         sock2socklib' = Append(sock2socklib, e),
         \/ e.error # "EOK" /\ OpenSocks' = OpenSocks
         \/ e.error = "EOK" /\ e.sockfd = call.sockfd
            /\ OpenSocks' \in {OpenSocks, OpenSocks \ {call.sockfd}}
         \/ e.error = "EOK" /\ e.sockfd \in Sock \ (OpenSocks \cup {0})
            /\ OpenSocks' = OpenSocks \cup {e.sockfd}
  PROVE  ServiceStep
<1>1. sock2socklib' # <<>> /\ Head(sock2socklib') = e
  BY OneReply
<1>2. Phase = "asked" /\ Phase' = "answered" /\ call'.sockfd = call.sockfd
  BY <1>1 DEF Phase
<1>3. Answer' = IF e.error # "EOK" THEN -1 ELSE e.sockfd
  BY <1>1 DEF Answer
<1>4. Service!Serve
  BY <1>2, <1>3 DEF Service!Serve, Service!Opened, OpenSocks
<1> QED BY <1>4 DEF ServiceStep, Service!Next

\* A request that is answered later.
LEMMA ServiceBlocks ==
  ASSUME call # NoCall, call' = call, socklib2sock # <<>>, socklib2sock' = <<>>,
         sock2socklib = <<>>, sock2socklib' = <<>>, OpenSocks' = OpenSocks
  PROVE  ServiceStep
<1>1. Phase = "asked" /\ Phase' = "waiting" /\ call'.sockfd = call.sockfd
      /\ Answer' = Answer
  BY DEF Phase, Answer
<1>2. Service!Block
  BY <1>1 DEF Service!Block, OpenSocks
<1> QED BY <1>2 DEF ServiceStep, Service!Next

-----------------------------------------------------------------------------
(***************************************************************************)
(* sock_module and udp_module: the call in progress.                       *)
(***************************************************************************)

\* A step that keeps every status, and sends and takes nothing that completes a
\* call.
LEMMA CallIdle ==
  ASSUME TypeOK, TypeOK', CallInv,
         UNCHANGED <<call, socklib2sock, sock2socklib, udpq, tcpq>>,
         \A i \in Sock : /\ OfUdp(i)' <=> OfUdp(i)
                         /\ socks'[i].status = socks[i].status
  PROVE  CallInv' /\ ServiceStep
<1>1. OpenSocks' = OpenSocks
  BY DEF OpenSocks
<1>2. /\ Once(udpq', Relayed({"FORWARD", "WRITE"})) /\ Once(tcpq', Relayed({"WRITE"}))
      /\ Range(udpq') \subseteq Range(udpq) /\ Range(tcpq') \subseteq Range(tcpq)
  BY DEF CallInv, UdpRecords, TcpRecords
<1>3. CallInv'
  BY <1>2, CallUnconcerned
<1> QED BY <1>1, <1>3, ServiceIdle

\* A socket that waits has its answer: its status changes, or it is closed.
LEMMA CallCompleted ==
  ASSUME TypeOK, CallInv, NEW sock \in Sock, Waits(sock),
         call' = call, socklib2sock' = socklib2sock,
         NEW e, sock2socklib' = Append(sock2socklib, e),
         \A j \in Sock : j # sock => socks[j].status \notin Pending,
         OthersKept(socks, socks', sock), socks[sock].status # "FREE",
         socks'[sock].status \notin Pending,
         \/ e.error # "EOK"
         \/ e.error = "EOK" /\ e.sockfd = sock /\ socks'[sock].status # "FREE",
         NoneRelayed'
  PROVE  CallInv' /\ ServiceStep
<1>1. /\ call # NoCall /\ socklib2sock' = <<>> /\ Len(sock2socklib') = 1
  BY OneReply DEF Waits
<1>2. NonePending'
  BY DEF NonePending, OthersKept
<1>3. CallInv'
  BY <1>1, <1>2, CallAnswered
<1>4. OpenSocks' = IF socks'[sock].status = "FREE" THEN OpenSocks \ {sock} ELSE OpenSocks
  BY DEF OpenSocks, OthersKept
<1>5. ServiceStep
  BY <1>4, ServiceCompletes
<1> QED BY <1>3, <1>5

\* A reply relays the error of the transport's message.
LEMMA AppMessageAt ==
  ASSUME NEW s, NEW sock, SendAppMessage(s, sock)
  PROVE  \E e : /\ sock2socklib' = Append(sock2socklib, e)
                /\ e.sockfd = sock /\ e.error = s.error /\ e.data = s.data
BY DEF SendAppMessage

\* Data for a reader completes its call (sock_module.cc HandleUDPWrite and
\* HandleTCPWrite, READ_PENDING).
LEMMA ReaderCompleted ==
  ASSUME TypeOK, TypeOK', CallInv, NEW s, NEW sock \in Sock,
         socks[sock].status = "READ_PENDING", DataForReader(s, sock),
         UNCHANGED <<call, socklib2sock, udpq, tcpq>>
  PROVE  CallInv' /\ ServiceStep
<1>1. socks[sock].status \in Pending
  BY DEF Pending
<1>2. /\ Waits(sock) /\ NoneRelayed'
      /\ \A j \in Sock : j # sock => socks[j].status \notin Pending
  BY <1>1, OnePending DEF NoneRelayed
<1>3. /\ OthersKept(socks, socks', sock) /\ socks'[sock].status = "CONNECTED"
  BY SetStatusAt DEF DataForReader, TypeOK, SockTypeOK, Status
<1>4. PICK e : sock2socklib' = Append(sock2socklib, e) /\ e.sockfd = sock
  BY AppMessageAt DEF DataForReader
<1>5. "CONNECTED" \notin Pending
  BY DEF Pending
<1>6. \/ e.error # "EOK"
      \/ e.error = "EOK" /\ e.sockfd = sock /\ socks'[sock].status # "FREE"
  BY <1>3, <1>4
<1> QED BY <1>2, <1>3, <1>4, <1>5, <1>6, CallCompleted

\* Data for a buffer concerns no call.
LEMMA BufferUnconcerned ==
  ASSUME TypeOK, TypeOK', CallInv, NEW s \in SockRequestResponse, NEW sock \in Sock,
         DataForBuffer(s, sock), UNCHANGED <<call, socklib2sock, udpq, tcpq>>
  PROVE  CallInv' /\ ServiceStep
<1>1. \A i \in Sock : /\ OfUdp(i)' <=> OfUdp(i)
                      /\ socks'[i].status = socks[i].status
  BY BufferedAt DEF DataForBuffer, OthersKept, OfUdp
<1> QED BY <1>1, CallIdle DEF DataForBuffer

\* HandleUDPWrite answers the call in progress once, or not at all.
LEMMA UDPWriteCall ==
  ASSUME TypeOK, TypeOK', CallInv, HandleUDPWrite, UNCHANGED call
  PROVE  CallInv' /\ ServiceStep
<1> DEFINE s == Head(udp2sock)
           sock == FindConnection(socks, s.connection)
<1>1. s \in SockRequestResponse
  BY UDPHead DEF HandleUDPWrite, TypeOK
<1>2. sock > 0 => sock \in Sock
  BY FindConnectionRange, UsableSock DEF TypeOK, SockTypeOK
<1>3. UNCHANGED <<call, socklib2sock, udpq, tcpq>>
  BY DEF HandleUDPWrite
<1>4. CASE UNCHANGED <<socks, sock2socklib>>
  BY <1>3, <1>4, CallIdle DEF OfUdp
<1>5. CASE sock > 0 /\ DataForBuffer(s, sock)
  BY <1>1, <1>2, <1>3, <1>5, BufferUnconcerned
<1>6. CASE sock > 0 /\ socks[sock].status = "READ_PENDING" /\ DataForReader(s, sock)
  BY <1>1, <1>2, <1>3, <1>6, ReaderCompleted
<1> QED BY <1>4, <1>5, <1>6 DEF HandleUDPWrite

\* A STATUS of udp_module that answers the application answers the call in
\* progress.
LEMMA UDPStatusCall ==
  ASSUME TypeOK, TypeOK', CallInv, HandleUDPStatus, UNCHANGED call
  PROVE  CallInv' /\ ServiceStep
<1> DEFINE s == Head(udp2sock)
           request == Head(udpq)
           sock == request.sock
           X == Relayed({"FORWARD", "WRITE"})
<1>1. /\ udpq # <<>> /\ udpq' = Tail(udpq)
      /\ UNCHANGED <<call, socklib2sock, tcpq>>
  BY DEF HandleUDPStatus
<1>2. /\ request \in Range(udpq) /\ Range(udpq') \subseteq Range(udpq)
      /\ Once(udpq', X) /\ (request \in X => Range(udpq') \cap X = {})
  BY <1>1, CallTypes, RangeTail, OnceTail DEF Records, CallInv, UdpRecords
<1>3. /\ request \in RequestRecord /\ sock \in Sock
      /\ \A r \in Range(udpq') : r \in RequestRecord
  BY <1>2, CallTypes
<1>4. \A r \in Range(udpq) : r.type \in {"FORWARD", "WRITE", "CLOSE"}
  BY DEF CallInv, UdpRecords
<1>5. request \in X => \A r \in Range(udpq') : r.type = "CLOSE"
  BY <1>2, <1>3, <1>4 DEF Relayed
<1> HIDE DEF s, request, sock, X
<1>6. CASE request.type \in {"FORWARD", "WRITE"}
  <2>1. request \in X
    BY <1>3, <1>6 DEF X, Relayed
  <2>2. /\ SendAppMessage(s, sock)
        /\ \/ socks' = CloseSocket(socks, sock) /\ s.error # "EOK"
           \/ socks' = Settled(sock)
    BY <1>6 DEF HandleUDPStatus, s, request, sock
  <2>3. /\ Waits(sock) /\ socks[sock].status # "FREE"
        /\ \A j \in Sock : j # sock => socks[j].status \notin Pending
        /\ \A r \in Range(tcpq) : r.type # "WRITE"
    <3>1. CASE request.type = "FORWARD"
      BY <1>2, <1>3, <3>1, OneForward DEF CallInv, UdpRecords, NonePending, sock
    <3>2. CASE request.type = "WRITE"
      <4>1. socks[sock].status = "WRITE_PENDING" /\ OfUdp(sock)
        BY <1>2, <3>2 DEF CallInv, UdpRecords, sock
      <4>2. socks[sock].status \in Pending
        BY <4>1 DEF Pending
      <4> QED BY <1>3, <4>1, <4>2, OnePending
    <3> QED BY <1>6, <3>1, <3>2
  <2>4. NoneRelayed'
    BY <1>1, <1>5, <2>1, <2>3 DEF NoneRelayed
  <2>5. PICK e : /\ sock2socklib' = Append(sock2socklib, e)
                 /\ e.sockfd = sock /\ e.error = s.error
    BY <2>2, AppMessageAt
  <2>6. /\ OthersKept(socks, socks', sock)
        /\ \/ socks'[sock].status = "FREE" /\ e.error # "EOK"
           \/ socks'[sock].status \in {"BOUND", "CONNECTED"}
    BY <1>3, <2>2, <2>5, CloseSocketAt, SettledAt DEF TypeOK, SockTypeOK, FreeRecord
  <2>7. socks'[sock].status \notin Pending
    BY <2>6 DEF Pending
  <2>8. \/ e.error # "EOK"
        \/ e.error = "EOK" /\ e.sockfd = sock /\ socks'[sock].status # "FREE"
    BY <2>5, <2>6
  <2> QED BY <1>1, <1>3, <2>3, <2>4, <2>5, <2>6, <2>7, <2>8, CallCompleted
<1>7. CASE request.type = "CLOSE"
  <2>1. UNCHANGED <<socks, sock2socklib>>
    BY <1>7 DEF HandleUDPStatus, request
  <2>2. Once(tcpq', Relayed({"WRITE"})) /\ Range(tcpq') \subseteq Range(tcpq)
    BY <1>1 DEF CallInv, TcpRecords
  <2>3. CallInv'
    BY <1>1, <1>2, <2>1, <2>2, CallUnconcerned DEF OfUdp, X
  <2> QED BY <1>1, <2>1, <2>3, ServiceIdle DEF OpenSocks
<1> QED BY <1>2, <1>4, <1>6, <1>7

-----------------------------------------------------------------------------
(***************************************************************************)
(* Ports, and what tcp_module and sock_module have to do with each.        *)
(***************************************************************************)
PortOf(x) == x.connection.srcport

\* Nothing that tcp_module knows or is told is about a port.
Quiet(p) ==
  /\ \A t \in tcbs : PortOf(t) # p
  /\ \A m \in Range(sock2tcp) : PortOf(m) # p
  /\ \A m \in Range(tcp2sock) : PortOf(m) # p
  /\ \A r \in Range(tcpq) : PortOf(r) # p

\* No other socket has the port of socket i.
Alone(i) == \A j \in Sock \ {i} : PortOf(socks[j]) # PortOf(socks[i])

MessagesOf(p) == {m \in SockRequestResponse : PortOf(m) = p}
RecordsOf(p) == {r \in RequestRecord : PortOf(r) = p}

\* The request whose refusal socket i can still get.
Opening(i) == IF socks[i].status = "CONNECT_PENDING" THEN "CONNECT" ELSE "ACCEPT"

(***************************************************************************)
(* tcp_module has not taken the first request for the port of socket i, or *)
(* has refused it: the request or the refusal is all there is about the    *)
(* port.                                                                   *)
(***************************************************************************)
UndecidedOver(i, c, p) ==
  /\ Alone(i)
  /\ \A t \in tcbs : PortOf(t) # p
  /\ \A m \in Range(sock2tcp) : PortOf(m) = p => m.type = Opening(i) /\ m.connection = c
  /\ \A m \in Range(tcp2sock) : PortOf(m) = p => m.type = "STATUS" /\ m.error # "EOK"
  /\ \A r \in Range(tcpq) : PortOf(r) = p => r.type = Opening(i) /\ r.sock = i
  /\ \A m \in Range(sock2tcp), n \in Range(tcp2sock) : ~ (PortOf(m) = p /\ PortOf(n) = p)
  /\ Once(sock2tcp, MessagesOf(p))
  /\ Once(tcp2sock, MessagesOf(p))
  /\ Once(tcpq, RecordsOf(p))

Undecided(i) == UndecidedOver(i, socks[i].connection, PortOf(socks[i]))

Disputed(p) ==
  \E i \in Sock : /\ socks[i].status \in {"CONNECT_PENDING", "ACCEPT_PENDING"}
                  /\ PortOf(socks[i]) = p
                  /\ Undecided(i)

Listened(c) == Tcb(c, "LISTEN") \in tcbs

\* Whatever can be refused is the first request for its port, and the socket
\* still waits.
Refusal(m) == m.type = "STATUS" /\ m.error # "EOK"
Refusable(m) == m.type = "CONNECT" \/ (m.type = "ACCEPT" /\ ~Listened(m.connection))

Doubtful(p) ==
  \/ \E m \in Range(tcp2sock) : PortOf(m) = p /\ Refusal(m)
  \/ \E m \in Range(sock2tcp) : PortOf(m) = p /\ Refusable(m)

Doubts == \A p \in Port : Doubtful(p) => Disputed(p)

\* The front STATUS is about the connection of the oldest record.
LEMMA FrontConnection ==
  ASSUME NEW a \in Messages, NEW r \in Messages, NEW q \in Records, a # <<>>,
         Head(a).type = "STATUS", Paired(a, r, q)
  PROVE  q # <<>> /\ Head(a).connection = Head(q).connection
<1>1. PICK f \in [DOMAIN q -> InFlight(a, r)] : PairedBy(f, a, r, q)
  BY DEF Paired
<1>2. q # <<>> /\ f[1] = 1
  BY <1>1, FrontPairs
<1>3. Len(a) \in Nat \ {0} /\ Head(a) = a[1] /\ Head(q) = q[1] /\ 1 \in DOMAIN q
  BY <1>2, AtTail DEF Messages, Records
<1>4. MessageAt(a, r, f[1]).connection = q[1].connection
  BY <1>1, <1>3 DEF PairedBy
<1>5. MessageAt(a, r, 1) = a[1]
  BY <1>3 DEF MessageAt
<1> QED BY <1>2, <1>3, <1>4, <1>5

\* The elements of the FIFOs to and from tcp_module.
LEMMA TcpTypes ==
  ASSUME TypeOK
  PROVE  /\ sock2tcp \in Messages /\ tcp2sock \in Messages /\ tcpq \in Records
         /\ Range(sock2tcp) \subseteq SockRequestResponse
         /\ Range(tcp2sock) \subseteq SockRequestResponse
         /\ Range(tcpq) \subseteq RequestRecord
BY PairingTypes, RangeBasics DEF Messages, Records

\* The port of a message, a record, a connection tcp_module knows or a socket.
LEMMA MessagePort ==
  /\ \A m \in SockRequestResponse : PortOf(m) \in Port
  /\ \A r \in RequestRecord : PortOf(r) \in Port
  /\ \A t \in [connection : Connection, state : TcbState] : PortOf(t) \in Port
  /\ \A record \in SockRecord : PortOf(record) \in Port
BY DEF SockRequestResponse, RequestRecord, SockRecord, Connection, PortOf

\* A refusal taken from tcp_module finds the socket that waits for it.
LEMMA RefusalFindsSocket ==
  ASSUME TypeOK, TcpAnswersPair, Doubts, tcp2sock # <<>>,
         Head(tcp2sock).type = "STATUS", Head(tcp2sock).error # "EOK"
  PROVE  /\ tcpq # <<>> /\ Head(tcpq).sock \in Sock
         /\ PortOf(Head(tcpq)) = PortOf(Head(tcp2sock))
         /\ PortOf(socks[Head(tcpq).sock]) = PortOf(Head(tcp2sock))
         /\ socks[Head(tcpq).sock].status \in {"CONNECT_PENDING", "ACCEPT_PENDING"}
         /\ Undecided(Head(tcpq).sock)
         /\ Head(tcpq).type = Opening(Head(tcpq).sock)
<1> DEFINE s == Head(tcp2sock)
           request == Head(tcpq)
<1>1. tcpq # <<>> /\ s.connection = request.connection
  BY TcpTypes, FrontConnection DEF TcpAnswersPair
<1>2. s \in Range(tcp2sock) /\ request \in Range(tcpq) /\ request.sock \in Sock
  BY <1>1, TcpTypes, CallTypes, RangeTail DEF Messages, Records
<1>3. PICK i \in Sock : /\ socks[i].status \in {"CONNECT_PENDING", "ACCEPT_PENDING"}
                        /\ PortOf(socks[i]) = PortOf(s)
                        /\ Undecided(i)
  <2>1. PICK p : p = PortOf(s)
    OBVIOUS
  <2>2. p \in Port
    BY <1>2, <2>1, TcpTypes, MessagePort
  <2>3. Doubtful(p)
    BY <1>2, <2>1 DEF Doubtful, Refusal
  <2>4. Disputed(p)
    BY <2>2, <2>3 DEF Doubts
  <2> QED BY <2>1, <2>4 DEF Disputed
<1>4. PortOf(request) = PortOf(s)
  BY <1>1 DEF PortOf
<1>5. request.type = Opening(i) /\ request.sock = i
  BY <1>2, <1>3, <1>4 DEF Undecided, UndecidedOver
<1> QED BY <1>1, <1>2, <1>3, <1>4, <1>5

-----------------------------------------------------------------------------
(***************************************************************************)
(* sock_module and tcp_module: the call in progress.                       *)
(***************************************************************************)

\* The outcome of a connect completes it.
LEMMA ConnectCompleted ==
  ASSUME TypeOK, TypeOK', CallInv, NEW s, NEW sock \in Sock,
         socks[sock].status = "CONNECT_PENDING", CompleteConnect(s, sock),
         UNCHANGED <<call, socklib2sock, udpq, tcpq>>
  PROVE  CallInv' /\ ServiceStep
<1>1. socks[sock].status \in Pending
  BY DEF Pending
<1>2. /\ Waits(sock) /\ NoneRelayed'
      /\ \A j \in Sock : j # sock => socks[j].status \notin Pending
  BY <1>1, OnePending DEF NoneRelayed
<1>3. PICK e : /\ sock2socklib' = Append(sock2socklib, e)
               /\ e.sockfd = sock /\ e.error = s.error
  BY AppMessageAt DEF CompleteConnect
<1>4. /\ OthersKept(socks, socks', sock)
      /\ \/ socks'[sock].status = "FREE" /\ s.error # "EOK"
         \/ socks'[sock].status = "CONNECTED"
  BY CloseSocketAt, SetStatusAt DEF CompleteConnect, TypeOK, SockTypeOK, Status, FreeRecord
<1>5. socks'[sock].status \notin Pending
  BY <1>4 DEF Pending
<1>6. \/ e.error # "EOK"
      \/ e.error = "EOK" /\ e.sockfd = sock /\ socks'[sock].status # "FREE"
  BY <1>3, <1>4
<1> QED BY <1>2, <1>3, <1>4, <1>5, <1>6, CallCompleted

\* A new connection completes an accept, or with no free socket leaves it
\* without an answer.
LEMMA AcceptCompleted ==
  ASSUME TypeOK, TypeOK', CallInv, NEW s, NEW sock \in Sock,
         socks[sock].status = "ACCEPT_PENDING", CompleteAccept(s, sock),
         UNCHANGED <<call, socklib2sock, udpq, tcpq>>
  PROVE  CallInv' /\ ServiceStep
<1> DEFINE listening == SetStatus(socks, sock, "LISTENING")
           newsock == FindFreeSock(listening)
           accepted == [connection |-> s.connection, bin |-> <<>>,
                        status |-> "CONNECTED", toApp |-> TRUE]
<1>1. socks[sock].status \in Pending
  BY DEF Pending
<1>2. /\ Waits(sock) /\ NoneRelayed'
      /\ \A j \in Sock : j # sock => socks[j].status \notin Pending
  BY <1>1, OnePending DEF NoneRelayed
<1>3. /\ listening \in SockTable
      /\ OthersKept(socks, listening, sock)
      /\ listening[sock].status = "LISTENING"
      /\ listening[sock].connection = socks[sock].connection
  BY SetStatusAt, SetStatusType DEF TypeOK, SockTypeOK, Status
<1>4. newsock > 0 => /\ newsock \in Sock \ {0} /\ listening[newsock].status = "FREE"
  BY <1>3, FindFreeSockRange, UsableSock
<1>5. newsock > 0 => newsock # sock /\ socks[newsock].status = "FREE"
  BY <1>3, <1>4 DEF OthersKept
<1>6. accepted.status = "CONNECTED"
  OBVIOUS
<1>7. {"LISTENING", "CONNECTED"} \cap Pending = {}
  BY DEF Pending
<1> HIDE DEF listening, newsock, accepted
<1>8. ASSUME s.error # "EOK", socks' = listening, SendAppMessage(s, sock)
      PROVE  CallInv' /\ ServiceStep
  <2>1. PICK e : sock2socklib' = Append(sock2socklib, e) /\ e.error = s.error
    BY <1>8, AppMessageAt
  <2>2. socks'[sock].status \notin Pending
    BY <1>3, <1>7, <1>8
  <2> QED BY <1>2, <1>3, <1>8, <2>1, <2>2, CallCompleted
<1>9. ASSUME s.error = "EOK", newsock > 0, SendAppMessage(s, newsock),
             socks' = [listening EXCEPT ![newsock] = accepted]
      PROVE  CallInv' /\ ServiceStep
  <2>1. /\ socks'[newsock].status = "CONNECTED" /\ socks'[sock].status = "LISTENING"
        /\ \A j \in Sock : j # sock /\ j # newsock => socks'[j] = socks[j]
    BY <1>3, <1>4, <1>5, <1>6, <1>9 DEF OthersKept, SockTable
  <2>2. PICK e : /\ sock2socklib' = Append(sock2socklib, e)
                 /\ e.sockfd = newsock /\ e.error = s.error
    BY <1>9, AppMessageAt
  <2>3. NonePending'
    BY <1>2, <1>7, <2>1 DEF NonePending
  <2>4. call # NoCall /\ socklib2sock' = <<>> /\ Len(sock2socklib') = 1
    BY <1>2, <2>2, OneReply DEF Waits
  <2>5. CallInv'
    BY <1>2, <2>3, <2>4, CallAnswered
  <2>6. newsock \in Sock \ (OpenSocks \cup {0}) /\ OpenSocks' = OpenSocks \cup {newsock}
    BY <1>4, <1>5, <1>9, <2>1 DEF OpenSocks
  <2>7. ServiceStep
    BY <1>2, <1>9, <2>2, <2>6, ServiceCompletes
  <2> QED BY <2>5, <2>7
<1>10. ASSUME socks' = listening, UNCHANGED sock2socklib
       PROVE  CallInv' /\ ServiceStep
  <2>1. /\ Once(udpq', Relayed({"FORWARD", "WRITE"})) /\ Once(tcpq', Relayed({"WRITE"}))
        /\ Range(udpq') \subseteq Range(udpq) /\ Range(tcpq') \subseteq Range(tcpq)
    BY DEF CallInv, UdpRecords, TcpRecords
  <2>2. \A i \in Sock :
           /\ OfUdp(i)' <=> OfUdp(i)
           /\ \/ socks'[i].status = socks[i].status
              \/ socks[i].status = "ACCEPT_PENDING" /\ socks'[i].status = "LISTENING"
    BY <1>3, <1>10 DEF OthersKept, OfUdp
  <2>3. CallInv'
    BY <1>10, <2>1, <2>2, CallUnconcerned
  <2>4. OpenSocks' = OpenSocks
    BY <2>2 DEF OpenSocks
  <2> QED BY <1>10, <2>3, <2>4, ServiceIdle
<1> QED BY <1>8, <1>9, <1>10 DEF CompleteAccept, listening, newsock, accepted

\* HandleTCPWrite answers the call in progress once, or not at all.
LEMMA TCPWriteCall ==
  ASSUME TypeOK, TypeOK', CallInv, HandleTCPWrite, UNCHANGED call
  PROVE  CallInv' /\ ServiceStep
<1> DEFINE s == Head(tcp2sock)
           sock == FindConnection(socks, s.connection)
<1>1. s \in SockRequestResponse
  BY TCPHead DEF HandleTCPWrite, TypeOK
<1>2. sock > 0 => sock \in Sock
  BY FindConnectionRange, UsableSock DEF TypeOK, SockTypeOK
<1>3. UNCHANGED <<call, socklib2sock, udpq, tcpq>>
  BY DEF HandleTCPWrite
<1>4. CASE UNCHANGED <<socks, sock2socklib>>
  BY <1>3, <1>4, CallIdle DEF OfUdp
<1>5. CASE sock > 0 /\ DataForBuffer(s, sock)
  BY <1>1, <1>2, <1>3, <1>5, BufferUnconcerned
<1>6. CASE sock > 0 /\ socks[sock].status = "READ_PENDING" /\ DataForReader(s, sock)
  BY <1>1, <1>2, <1>3, <1>6, ReaderCompleted
<1>7. CASE sock > 0 /\ socks[sock].status = "ACCEPT_PENDING" /\ CompleteAccept(s, sock)
  BY <1>2, <1>3, <1>7, AcceptCompleted
<1>8. CASE sock > 0 /\ socks[sock].status = "CONNECT_PENDING" /\ CompleteConnect(s, sock)
  BY <1>2, <1>3, <1>8, ConnectCompleted
<1> QED BY <1>4, <1>5, <1>6, <1>7, <1>8 DEF HandleTCPWrite

\* A STATUS of tcp_module that answers the application answers the call in
\* progress: the refusal of a connect or accept finds its socket waiting.
LEMMA TCPStatusCall ==
  ASSUME TypeOK, TypeOK', CallInv, TcpAnswersPair, Doubts, HandleTCPStatus, UNCHANGED call
  PROVE  CallInv' /\ ServiceStep
<1> DEFINE s == Head(tcp2sock)
           request == Head(tcpq)
           sock == request.sock
           X == Relayed({"WRITE"})
           refused == request.type \in {"CONNECT", "ACCEPT"} /\ s.error # "EOK"
<1>1. /\ tcpq # <<>> /\ tcpq' = Tail(tcpq) /\ tcp2sock # <<>> /\ s.type = "STATUS"
      /\ UNCHANGED <<call, socklib2sock, udpq>>
  BY DEF HandleTCPStatus, TCPReceive
<1>2. /\ request \in Range(tcpq) /\ Range(tcpq') \subseteq Range(tcpq)
      /\ Once(tcpq', X) /\ (request \in X => Range(tcpq') \cap X = {})
  BY <1>1, CallTypes, RangeTail, OnceTail DEF Records, CallInv, TcpRecords
<1>3. /\ request \in RequestRecord /\ sock \in Sock
      /\ \A r \in Range(tcpq') : r \in RequestRecord
  BY <1>2, CallTypes
<1> HIDE DEF s, request, sock, X
<1>4. CASE refused
  <2>1. socks[sock].status \in {"CONNECT_PENDING", "ACCEPT_PENDING"}
    BY <1>1, <1>4, RefusalFindsSocket DEF s, request, sock
  <2>2. socks[sock].status \in Pending
    BY <2>1 DEF Pending
  <2>3. /\ Waits(sock)
        /\ \A j \in Sock : j # sock => socks[j].status \notin Pending
        /\ \A r \in Range(udpq) : r.type = "CLOSE"
        /\ \A r \in Range(tcpq) : r.type # "WRITE"
    BY <1>3, <2>1, <2>2, OnePending
  <2>4. NoneRelayed'
    BY <1>1, <1>2, <2>3 DEF NoneRelayed
  <2>5. /\ SendAppMessage(s, sock)
        /\ \/ socks' = CloseSocket(socks, sock)
           \/ socks' = SetStatus(socks, sock, "LISTENING")
    BY <1>4 DEF HandleTCPStatus, s, request, sock
  <2>6. PICK e : sock2socklib' = Append(sock2socklib, e) /\ e.error = s.error
    BY <2>5, AppMessageAt
  <2>7. /\ OthersKept(socks, socks', sock)
        /\ socks'[sock].status \in {"FREE", "LISTENING"}
    BY <1>3, <2>5, CloseSocketAt, SetStatusAt DEF TypeOK, SockTypeOK, FreeRecord, Status
  <2>8. socks'[sock].status \notin Pending
    BY <2>7 DEF Pending
  <2> QED BY <1>1, <1>3, <1>4, <2>1, <2>3, <2>4, <2>6, <2>7, <2>8, CallCompleted
<1>5. CASE request.type = "WRITE"
  <2>1. socks[sock].status = "WRITE_PENDING" /\ ~OfUdp(sock)
    BY <1>2, <1>5 DEF CallInv, TcpRecords, sock
  <2>2. socks[sock].status \in Pending
    BY <2>1 DEF Pending
  <2>3. /\ Waits(sock)
        /\ \A j \in Sock : j # sock => socks[j].status \notin Pending
        /\ \A r \in Range(udpq) : r.type = "CLOSE"
    BY <1>3, <2>1, <2>2, OnePending
  <2>4. request \in X
    BY <1>3, <1>5 DEF X, Relayed
  <2>5. NoneRelayed'
    BY <1>1, <1>2, <1>3, <2>3, <2>4 DEF NoneRelayed, X, Relayed
  <2>6. SendAppMessage(s, sock) /\ socks' = SetStatus(socks, sock, "CONNECTED")
    BY <1>5 DEF HandleTCPStatus, s, request, sock
  <2>7. PICK e : sock2socklib' = Append(sock2socklib, e) /\ e.sockfd = sock
    BY <2>6, AppMessageAt
  <2>8. /\ OthersKept(socks, socks', sock)
        /\ socks'[sock].status = "CONNECTED"
    BY <1>3, <2>6, SetStatusAt DEF TypeOK, SockTypeOK, Status
  <2>9. socks'[sock].status \notin Pending
    BY <2>8 DEF Pending
  <2>10. \/ e.error # "EOK"
         \/ e.error = "EOK" /\ e.sockfd = sock /\ socks'[sock].status # "FREE"
    BY <2>7, <2>8
  <2> QED BY <1>1, <1>3, <2>1, <2>3, <2>5, <2>7, <2>8, <2>9, <2>10, CallCompleted
<1>6. CASE request.type # "WRITE" /\ ~refused
  <2>1. UNCHANGED <<socks, sock2socklib>>
    BY <1>6 DEF HandleTCPStatus, s, request
  <2>2. Once(udpq', Relayed({"FORWARD", "WRITE"})) /\ Range(udpq') \subseteq Range(udpq)
    BY <1>1 DEF CallInv, UdpRecords
  <2>3. CallInv'
    BY <1>1, <1>2, <2>1, <2>2, CallUnconcerned DEF OfUdp, X
  <2> QED BY <1>1, <2>1, <2>3, ServiceIdle DEF OpenSocks
<1> QED BY <1>4, <1>5, <1>6

-----------------------------------------------------------------------------
(***************************************************************************)
(* sock_module and the application: the call in progress.                  *)
(***************************************************************************)

\* While sock_module has a request of the application nothing waits.
LEMMA RequestTaken ==
  ASSUME TypeOK, CallInv, NEW type, AppReceive(type)
  PROVE  /\ call # NoCall /\ socklib2sock # <<>> /\ sock2socklib = <<>>
         /\ socklib2sock' = <<>> /\ AppRequest.type = type
         /\ NonePending /\ NoneRelayed
         /\ AppRequest.sockfd \in Sock /\ AppRequest.sockfd = call.sockfd
         /\ ProperRequest(AppRequest) /\ AppRequest.connection \in Connection
<1>1. /\ socklib2sock # <<>> /\ socklib2sock' = Tail(socklib2sock)
      /\ AppRequest.type = type
  BY DEF AppReceive
<1>2. OneMessage
  BY DEF CallInv
<1>3. call # NoCall /\ sock2socklib = <<>> /\ ProperRequest(AppRequest)
      /\ Len(socklib2sock) <= 1
  BY <1>1, <1>2 DEF OneMessage, AppRequest
<1>4. socklib2sock' = <<>>
  BY <1>1, <1>3, CallTypes, OnlyMessage
<1>5. AppRequest.sockfd \in Sock /\ AppRequest.connection \in Connection
  BY AppHead DEF TypeOK
<1>6. NonePending /\ NoneRelayed
  BY <1>1, NobodyWaits
<1> QED BY <1>1, <1>3, <1>4, <1>5, <1>6 DEF ProperRequest

\* A reply given at once, when no socket is put to wait.
LEMMA CallServed ==
  ASSUME TypeOK, CallInv, NEW type, AppReceive(type), call' = call,
         NEW d, NEW data, NEW err, ReplyApp(d, data, err),
         NonePending', NoneRelayed',
         \/ err # "EOK" /\ OpenSocks' = OpenSocks
         \/ err = "EOK" /\ d = call.sockfd
            /\ OpenSocks' \in {OpenSocks, OpenSocks \ {call.sockfd}}
         \/ err = "EOK" /\ d \in Sock \ (OpenSocks \cup {0})
            /\ OpenSocks' = OpenSocks \cup {d}
  PROVE  CallInv' /\ ServiceStep
<1>1. /\ call # NoCall /\ socklib2sock # <<>> /\ sock2socklib = <<>>
      /\ socklib2sock' = <<>>
  BY RequestTaken
<1>2. PICK e : sock2socklib' = Append(sock2socklib, e) /\ e.sockfd = d /\ e.error = err
  BY DEF ReplyApp
<1>3. Len(sock2socklib') = 1
  BY <1>1, <1>2, OneReply
<1>4. CallInv'
  BY <1>1, <1>3, CallAnswered
<1>5. ServiceStep
  BY <1>1, <1>2, ServiceServes
<1> QED BY <1>4, <1>5

\* A request refused, or answered without any effect.
LEMMA CallRefused ==
  ASSUME TypeOK, CallInv, NEW type, AppReceive(type), call' = call,
         NEW d, NEW err, Refuse(d, err),
         err # "EOK" \/ d = AppRequest.sockfd
  PROVE  CallInv' /\ ServiceStep
<1>1. /\ ReplyApp(d, <<>>, err) /\ UNCHANGED <<socks, udpq, tcpq>>
  BY DEF Refuse, AnswerNow
<1>2. NonePending' /\ NoneRelayed' /\ OpenSocks' = OpenSocks
  BY <1>1, RequestTaken DEF NonePending, NoneRelayed, OpenSocks
<1>3. \/ err # "EOK" /\ OpenSocks' = OpenSocks
      \/ err = "EOK" /\ d = call.sockfd
         /\ OpenSocks' \in {OpenSocks, OpenSocks \ {call.sockfd}}
  BY <1>2, RequestTaken
<1> QED BY <1>1, <1>2, <1>3, CallServed

\* A request answered at once about its own socket, which stays open.
LEMMA CallServedOpen ==
  ASSUME TypeOK, CallInv, NEW type, AppReceive(type), call' = call,
         NEW data, AnswerNow(AppRequest.sockfd, data, "EOK"),
         OthersKept(socks, socks', AppRequest.sockfd),
         socks[AppRequest.sockfd].status # "FREE",
         socks'[AppRequest.sockfd].status \notin Pending \cup {"FREE"}
  PROVE  CallInv' /\ ServiceStep
<1>1. /\ ReplyApp(AppRequest.sockfd, data, "EOK") /\ UNCHANGED <<udpq, tcpq>>
  BY DEF AnswerNow
<1>2. /\ NonePending /\ NoneRelayed /\ AppRequest.sockfd \in Sock
      /\ AppRequest.sockfd = call.sockfd
  BY RequestTaken
<1>3. NonePending' /\ NoneRelayed' /\ OpenSocks' = OpenSocks
  BY <1>1, <1>2 DEF NonePending, NoneRelayed, OpenSocks, OthersKept
<1> QED BY <1>1, <1>2, <1>3, CallServed

\* A request passed on to udp_module or tcp_module makes its socket wait.
LEMMA CallForwarded ==
  ASSUME TypeOK, TypeOK', CallInv, NEW type, AppReceive(type), call' = call,
         NEW sock, sock = AppRequest.sockfd, NEW s, Forward(s, sock),
         OthersKept(socks, socks', sock), socks[sock].status # "FREE",
         OfUdp(sock)' <=> s.connection.protocol = "UDP",
         \/ /\ s.type = "WRITE" /\ socks'[sock].status = "WRITE_PENDING"
         \/ /\ s.type = "FORWARD" /\ s.connection.protocol = "UDP"
            /\ socks'[sock].status \in {"UNBOUND", "CONNECTED"}
         \/ /\ s.type \in {"CONNECT", "ACCEPT"} /\ s.connection.protocol # "UDP"
            /\ socks'[sock].status \in {"CONNECT_PENDING", "ACCEPT_PENDING"}
  PROVE  CallInv' /\ ServiceStep
<1> DEFINE record == RecordOf(s, sock)
<1>1. /\ call # NoCall /\ socklib2sock # <<>> /\ sock2socklib = <<>>
      /\ socklib2sock' = <<>> /\ NonePending /\ NoneRelayed
      /\ sock \in Sock /\ sock = call.sockfd
  BY RequestTaken
<1>2. sock2socklib' = <<>> /\ SendRequest(s, sock)
  BY <1>1 DEF Forward
<1>3. /\ OpenSocks' = OpenSocks
      /\ \A i \in Sock : socks'[i].status \in Pending => i = sock
  BY <1>1 DEF OpenSocks, OthersKept, NonePending
<1>4. record.type = s.type /\ record.sock = sock
  BY DEF RecordOf
<1>5. /\ \A r \in Range(udpq) : r \notin Relayed({"FORWARD", "WRITE"})
      /\ \A r \in Range(tcpq) : r \notin Relayed({"WRITE"})
  BY <1>1 DEF NoneRelayed, Relayed
<1>6. socks'[sock].status \in Status
  BY <1>1, CallTypes DEF TypeOK, SockTypeOK, SockTable, SockRecord
<1> HIDE DEF record
<1>7. UdpRecords' /\ TcpRecords'
  <2>1. CASE s.connection.protocol = "UDP"
    <3>1. udpq' = Append(udpq, record) /\ tcpq' = tcpq
      BY <1>2, <2>1 DEF SendRequest, SendUDPRequest, record
    <3>2. /\ udpq \in Seq(RequestRecord) /\ tcpq \in Seq(RequestRecord)
          /\ udpq' \in Seq(RequestRecord)
      BY CallTypes DEF TypeOK, SockTypeOK
    <3>3. record \in RequestRecord
      BY <3>1, <3>2, Appended
    <3>4. Range(udpq') = Range(udpq) \cup {record}
      BY <3>1, <3>2, <3>3, RangeAppend
    <3>5. Once(udpq', Relayed({"FORWARD", "WRITE"}))
      <4>1. Range(udpq) \cap Relayed({"FORWARD", "WRITE"}) = {}
        BY <1>5
      <4>2. Once(udpq, Relayed({"FORWARD", "WRITE"}))
        BY <3>2, <4>1, OnceNone
      <4> QED BY <3>1, <3>2, <3>3, <4>1, <4>2, OnceAppend
    <3>6. s.type = "FORWARD" => Waits(sock)' /\ NonePending'
      <4>1. s.type = "FORWARD" => socks'[sock].status \notin Pending
        BY DEF Pending
      <4> QED BY <1>1, <1>2, <1>3, <4>1 DEF Waits, NonePending
    <3>7. \A r \in Range(udpq') :
             \/ r.type = "CLOSE"
             \/ /\ r.type = "WRITE" /\ OfUdp(r.sock)'
                /\ socks'[r.sock].status = "WRITE_PENDING"
             \/ /\ r.type = "FORWARD" /\ OfUdp(r.sock)'
                /\ Waits(r.sock)' /\ NonePending'
                /\ socks'[r.sock].status \in {"UNBOUND", "BOUND", "CONNECTED"}
      BY <1>1, <1>4, <2>1, <3>4, <3>6 DEF NoneRelayed
    <3>8. UdpRecords'
      BY <3>5, <3>7 DEF UdpRecords
    <3>9. TcpRecords'
      BY <1>1, <3>1 DEF NoneRelayed, TcpRecords, CallInv
    <3> QED BY <3>8, <3>9
  <2>2. CASE s.connection.protocol # "UDP"
    <3>1. tcpq' = Append(tcpq, record) /\ udpq' = udpq
      BY <1>2, <2>2 DEF SendRequest, SendTCPRequest, record
    <3>2. /\ udpq \in Seq(RequestRecord) /\ tcpq \in Seq(RequestRecord)
          /\ tcpq' \in Seq(RequestRecord)
      BY CallTypes DEF TypeOK, SockTypeOK
    <3>3. record \in RequestRecord
      BY <3>1, <3>2, Appended
    <3>4. Range(tcpq') = Range(tcpq) \cup {record}
      BY <3>1, <3>2, <3>3, RangeAppend
    <3>5. Once(tcpq', Relayed({"WRITE"}))
      <4>1. Range(tcpq) \cap Relayed({"WRITE"}) = {}
        BY <1>5
      <4>2. Once(tcpq, Relayed({"WRITE"}))
        BY <3>2, <4>1, OnceNone
      <4> QED BY <3>1, <3>2, <3>3, <4>1, <4>2, OnceAppend
    <3>6. \A r \in Range(tcpq') :
             r.type = "WRITE" => ~OfUdp(r.sock)' /\ socks'[r.sock].status = "WRITE_PENDING"
      BY <1>1, <1>4, <2>2, <3>4 DEF NoneRelayed
    <3>7. TcpRecords'
      BY <3>5, <3>6 DEF TcpRecords
    <3>8. UdpRecords'
      BY <1>1, <3>1, CallTypes DEF NoneRelayed, UdpRecords, CallInv
    <3> QED BY <3>7, <3>8
  <2> QED BY <2>1, <2>2
<1>8. CallInv'
  BY <1>1, <1>2, <1>3, <1>7, CallWaits
<1>9. ServiceStep
  BY <1>1, <1>2, <1>3, ServiceBlocks
<1> QED BY <1>8, <1>9

\* Any request but these is answered with no effect.
LEMMA UnservedCall ==
  ASSUME TypeOK, CallInv, UnservedRequest, UNCHANGED call
  PROVE  CallInv' /\ ServiceStep
<1>1. PICK type \in UnservedType : AppReceive(type) /\ Refuse(AppRequest.sockfd, "EOK")
  BY DEF UnservedRequest
<1> QED BY <1>1, CallRefused

\* mSOCKET opens a socket that was free.
LEMMA SocketCall ==
  ASSUME TypeOK, CallInv, mSOCKET, UNCHANGED call
  PROVE  CallInv' /\ ServiceStep
<1>1. AppReceive("mSOCKET")
  BY DEF mSOCKET
<1>2. CASE Refuse(AppRequest.sockfd, "ERESOURCE_UNAVAIL")
  BY <1>1, <1>2, CallRefused
<1>3. CASE ~ Refuse(AppRequest.sockfd, "ERESOURCE_UNAVAIL")
  <2>1. PICK sock : sock = FindFreeSock(socks)
    OBVIOUS
  <2>2. PICK record : record.status = "UNBOUND" /\ socks' = [socks EXCEPT ![sock] = record]
    BY <1>3, <2>1 DEF mSOCKET
  <2>3. sock >= 0 /\ AnswerNow(sock, <<>>, "EOK")
    BY <1>3, <2>1 DEF mSOCKET
  <2>4. socks \in SockTable
    BY DEF TypeOK, SockTypeOK
  <2>5. sock \in Sock \ {0} /\ socks[sock].status = "FREE"
    BY <2>1, <2>3, <2>4, FindFreeSockRange, UsableSock
  <2>6. OthersKept(socks, socks', sock) /\ socks'[sock].status = "UNBOUND"
    BY <2>2, <2>4, <2>5 DEF OthersKept, SockTable
  <2>7. NonePending /\ NoneRelayed
    BY <1>1, RequestTaken
  <2>8. "UNBOUND" \notin Pending
    BY DEF Pending
  <2>9. NonePending'
    BY <2>6, <2>7, <2>8 DEF NonePending, OthersKept
  <2>10. ReplyApp(sock, <<>>, "EOK") /\ NoneRelayed'
    BY <2>3, <2>7 DEF AnswerNow, NoneRelayed
  <2>11. sock \in Sock \ (OpenSocks \cup {0}) /\ OpenSocks' = OpenSocks \cup {sock}
    BY <2>5, <2>6 DEF OpenSocks, OthersKept
  <2> QED BY <1>1, <2>9, <2>10, <2>11, CallServed
<1> QED BY <1>2, <1>3

\* mBIND waits for udp_module, or is answered at once.
LEMMA BindCall ==
  ASSUME TypeOK, TypeOK', CallInv, mBIND, UNCHANGED call
  PROVE  CallInv' /\ ServiceStep
<1>1. AppReceive("mBIND")
  BY DEF mBIND
<1>2. PICK sock : sock = AppRequest.sockfd
  OBVIOUS
<1>3. PICK c : c = LocalEnd(socks[sock].connection, AppRequest.connection,
                            ResolveSrcPort(ports, AppRequest.connection))
  OBVIOUS
<1>4. sock \in Sock /\ socks \in SockTable
  BY <1>1, <1>2, RequestTaken DEF TypeOK, SockTypeOK
<1>5. CASE \E err \in {"EINVALID_OP", "ERESOURCE_UNAVAIL"} : Refuse(sock, err)
  BY <1>1, <1>2, <1>5, CallRefused
<1>6. CASE /\ socks[sock].status = "UNBOUND" /\ c.protocol = "UDP"
           /\ socks' = [socks EXCEPT ![sock].connection = c]
           /\ Forward(Request("FORWARD", c, <<>>), sock)
  <2>1. /\ OthersKept(socks, socks', sock) /\ socks'[sock].connection = c
        /\ socks'[sock].status = "UNBOUND"
    BY <1>4, <1>6, TableRecord DEF OthersKept, SockTable, SockRecord
  <2>2. PICK s : s = Request("FORWARD", c, <<>>)
    OBVIOUS
  <2>4. s.type = "FORWARD" /\ s.connection = c
    BY <2>2, RequestAt
  <2>3. OfUdp(sock)' <=> s.connection.protocol = "UDP"
    BY <2>1, <2>4 DEF OfUdp
  <2> QED BY <1>1, <1>2, <1>6, <2>1, <2>2, <2>3, <2>4, CallForwarded
<1>7. CASE /\ socks[sock].status = "UNBOUND"
           /\ socks' = [socks EXCEPT ![sock].connection = c, ![sock].status = "BOUND"]
           /\ AnswerNow(sock, <<>>, "EOK")
  <2>1. OthersKept(socks, socks', sock) /\ socks'[sock].status = "BOUND"
    BY <1>4, <1>7, TableRecord DEF OthersKept, SockTable, SockRecord
  <2>2. "BOUND" \notin Pending \cup {"FREE"}
    BY DEF Pending
  <2> QED BY <1>1, <1>2, <1>7, <2>1, <2>2, CallServedOpen
<1> QED BY <1>2, <1>3, <1>5, <1>6, <1>7 DEF mBIND

\* mLISTEN is answered at once.
LEMMA ListenCall ==
  ASSUME TypeOK, CallInv, mLISTEN, UNCHANGED call
  PROVE  CallInv' /\ ServiceStep
<1>1. AppReceive("mLISTEN")
  BY DEF mLISTEN
<1>2. PICK sock : sock = AppRequest.sockfd
  OBVIOUS
<1>3. sock \in Sock /\ socks \in SockTable
  BY <1>1, <1>2, RequestTaken DEF TypeOK, SockTypeOK
<1>4. CASE Refuse(sock, "EINVALID_OP") \/ Refuse(0, "ENOT_SUPPORTED")
  BY <1>1, <1>2, <1>4, CallRefused
<1>5. CASE ~ (Refuse(sock, "EINVALID_OP") \/ Refuse(0, "ENOT_SUPPORTED"))
  <2>1. PICK c : socks' = [socks EXCEPT ![sock].connection = c, ![sock].status = "LISTENING"]
    BY <1>2, <1>5 DEF mLISTEN
  <2>2. socks[sock].status = "BOUND" /\ AnswerNow(sock, <<>>, "EOK")
    BY <1>2, <1>5 DEF mLISTEN
  <2>3. OthersKept(socks, socks', sock) /\ socks'[sock].status = "LISTENING"
    BY <1>3, <2>1, TableRecord DEF OthersKept, SockTable, SockRecord
  <2>4. "LISTENING" \notin Pending \cup {"FREE"}
    BY DEF Pending
  <2> QED BY <1>1, <1>2, <2>2, <2>3, <2>4, CallServedOpen
<1> QED BY <1>4, <1>5

\* mACCEPT waits for tcp_module.
LEMMA AcceptCall ==
  ASSUME TypeOK, TypeOK', CallInv, mACCEPT, UNCHANGED call,
         \A i \in Sock : socks[i].status = "LISTENING" => ~OfUdp(i)
  PROVE  CallInv' /\ ServiceStep
<1>1. AppReceive("mACCEPT")
  BY DEF mACCEPT
<1>2. PICK sock : sock = AppRequest.sockfd
  OBVIOUS
<1>3. sock \in Sock /\ socks \in SockTable
  BY <1>1, <1>2, RequestTaken DEF TypeOK, SockTypeOK
<1>4. CASE Refuse(sock, "EINVALID_OP")
  BY <1>1, <1>2, <1>4, CallRefused
<1>5. CASE /\ socks[sock].status = "LISTENING"
           /\ Forward(Request("ACCEPT", socks[sock].connection, <<>>), sock)
           /\ socks' = SetStatus(socks, sock, "ACCEPT_PENDING")
  <2>1. /\ OthersKept(socks, socks', sock) /\ socks'[sock].status = "ACCEPT_PENDING"
        /\ socks'[sock].connection = socks[sock].connection
    BY <1>3, <1>5, SetStatusAt DEF Status
  <2>2. PICK s : s = Request("ACCEPT", socks[sock].connection, <<>>)
    OBVIOUS
  <2>5. s.type = "ACCEPT" /\ s.connection = socks[sock].connection
    BY <2>2, RequestAt
  <2>3. OfUdp(sock)' <=> s.connection.protocol = "UDP"
    BY <2>1, <2>5 DEF OfUdp
  <2>4. s.connection.protocol # "UDP"
    BY <1>3, <1>5, <2>5 DEF OfUdp
  <2> QED BY <1>1, <1>2, <1>5, <2>1, <2>2, <2>3, <2>4, <2>5, CallForwarded
<1> QED BY <1>2, <1>4, <1>5 DEF mACCEPT

\* mCONNECT waits for the transport module.
LEMMA ConnectCall ==
  ASSUME TypeOK, TypeOK', CallInv, mCONNECT, UNCHANGED call
  PROVE  CallInv' /\ ServiceStep
<1>1. AppReceive("mCONNECT")
  BY DEF mCONNECT
<1>2. PICK sock : sock = AppRequest.sockfd
  OBVIOUS
<1>3. sock \in Sock /\ socks \in SockTable
  BY <1>1, <1>2, RequestTaken DEF TypeOK, SockTypeOK
<1>4. CASE \E err \in {"EINVALID_OP", "ERESOURCE_UNAVAIL"} : Refuse(sock, err)
  BY <1>1, <1>2, <1>4, CallRefused
<1>5. CASE ~ \E err \in {"EINVALID_OP", "ERESOURCE_UNAVAIL"} : Refuse(sock, err)
  <2>1. PICK c :
          /\ socks' = [socks EXCEPT ![sock].connection = c,
               ![sock].status = IF c.protocol = "UDP" THEN "CONNECTED" ELSE "CONNECT_PENDING"]
          /\ Forward(Request(IF c.protocol = "UDP" THEN "FORWARD" ELSE "CONNECT", c, <<>>), sock)
          /\ socks[sock].status \in {"UNBOUND", "BOUND"}
    BY <1>2, <1>5 DEF mCONNECT
  <2>2. PICK stat : stat = IF c.protocol = "UDP" THEN "CONNECTED" ELSE "CONNECT_PENDING"
    OBVIOUS
  <2>3. /\ OthersKept(socks, socks', sock) /\ socks'[sock].connection = c
        /\ socks'[sock].status = stat
    BY <1>3, <2>1, <2>2, TableRecord DEF OthersKept, SockTable, SockRecord
  <2>8. PICK s : s = Request(IF c.protocol = "UDP" THEN "FORWARD" ELSE "CONNECT", c, <<>>)
    OBVIOUS
  <2>4. /\ s.type = IF c.protocol = "UDP" THEN "FORWARD" ELSE "CONNECT"
        /\ s.connection = c
    BY <2>8, RequestAt
  <2>5. OfUdp(sock)' <=> s.connection.protocol = "UDP"
    BY <2>3, <2>4 DEF OfUdp
  <2>6. \/ /\ s.type = "FORWARD" /\ s.connection.protocol = "UDP"
           /\ socks'[sock].status \in {"UNBOUND", "CONNECTED"}
        \/ /\ s.type \in {"CONNECT", "ACCEPT"} /\ s.connection.protocol # "UDP"
           /\ socks'[sock].status \in {"CONNECT_PENDING", "ACCEPT_PENDING"}
    BY <2>2, <2>3, <2>4
  <2>7. Forward(s, sock) /\ socks[sock].status # "FREE"
    BY <2>1, <2>8
  <2> QED BY <1>1, <1>2, <2>3, <2>5, <2>6, <2>7, CallForwarded
<1> QED BY <1>4, <1>5

\* mREAD is answered from the buffer, or waits for data.
LEMMA ReadCall ==
  ASSUME TypeOK, TypeOK', CallInv, mREAD, UNCHANGED call
  PROVE  CallInv' /\ ServiceStep
<1>1. AppReceive("mREAD")
  BY DEF mREAD
<1>2. PICK sock : sock = AppRequest.sockfd
  OBVIOUS
<1>3. sock \in Sock /\ socks \in SockTable
  BY <1>1, <1>2, RequestTaken DEF TypeOK, SockTypeOK
<1>4. CASE Refuse(sock, "EINVALID_OP")
  BY <1>1, <1>2, <1>4, CallRefused
<1>5. CASE ~ Refuse(sock, "EINVALID_OP")
  <2>1. socks[sock].status \in {"CONNECTED", "BOUND"}
    BY <1>2, <1>5 DEF mREAD
  <2>2. CASE AnswerNow(sock, socks[sock].bin, "EOK") /\ UNCHANGED socks
    <3>1. socks'[sock].status \notin Pending \cup {"FREE"} /\ socks[sock].status # "FREE"
      BY <2>1, <2>2 DEF Pending
    <3>2. OthersKept(socks, socks', sock)
      BY <2>2 DEF OthersKept
    <3> QED BY <1>1, <1>2, <2>2, <3>1, <3>2, CallServedOpen
  <2>3. CASE /\ socks' = SetStatus(socks, sock, "READ_PENDING")
             /\ UNCHANGED <<ports, tcpq, udpq, udpFifos, tcpFifos, sock2socklib>>
    <3>1. /\ call # NoCall /\ socklib2sock # <<>> /\ sock2socklib = <<>>
          /\ socklib2sock' = <<>> /\ NonePending /\ NoneRelayed /\ sock = call.sockfd
      BY <1>1, <1>2, RequestTaken
    <3>2. OthersKept(socks, socks', sock) /\ socks'[sock].status = "READ_PENDING"
      BY <1>3, <2>3, SetStatusAt DEF Status
    <3>3. /\ OpenSocks' = OpenSocks
          /\ \A i \in Sock : socks'[i].status \in Pending => i = sock
      BY <2>1, <3>1, <3>2 DEF OpenSocks, OthersKept, NonePending
    <3>4. UdpRecords' /\ TcpRecords'
      <4>1. Once(udpq, Relayed({"FORWARD", "WRITE"})) /\ Once(tcpq, Relayed({"WRITE"}))
        BY DEF CallInv, UdpRecords, TcpRecords
      <4>2. UdpRecords'
        BY <2>3, <3>1, <4>1 DEF UdpRecords, NoneRelayed
      <4>3. TcpRecords'
        BY <2>3, <3>1, <4>1 DEF TcpRecords, NoneRelayed
      <4> QED BY <4>2, <4>3
    <3>5. CallInv'
      BY <2>3, <3>1, <3>3, <3>4, CallWaits
    <3> QED BY <2>3, <3>1, <3>3, <3>5, ServiceBlocks
  <2> QED BY <1>2, <1>5, <2>2, <2>3 DEF mREAD
<1> QED BY <1>4, <1>5

\* mWRITE waits for the STATUS of the transport module.
LEMMA WriteCall ==
  ASSUME TypeOK, TypeOK', CallInv, mWRITE, UNCHANGED call
  PROVE  CallInv' /\ ServiceStep
<1>1. AppReceive("mWRITE")
  BY DEF mWRITE
<1>2. PICK sock : sock = AppRequest.sockfd
  OBVIOUS
<1>3. sock \in Sock /\ socks \in SockTable
  BY <1>1, <1>2, RequestTaken DEF TypeOK, SockTypeOK
<1>4. CASE Refuse(sock, "EINVALID_OP")
  BY <1>1, <1>2, <1>4, CallRefused
<1>5. CASE /\ socks[sock].status = "CONNECTED"
           /\ Forward(Request("WRITE", socks[sock].connection, AppRequest.data), sock)
           /\ socks' = SetStatus(socks, sock, "WRITE_PENDING")
  <2>1. /\ OthersKept(socks, socks', sock) /\ socks'[sock].status = "WRITE_PENDING"
        /\ socks'[sock].connection = socks[sock].connection
    BY <1>3, <1>5, SetStatusAt DEF Status
  <2>2. PICK s : s = Request("WRITE", socks[sock].connection, AppRequest.data)
    OBVIOUS
  <2>4. s.type = "WRITE" /\ s.connection = socks[sock].connection
    BY <2>2, RequestAt
  <2>3. OfUdp(sock)' <=> s.connection.protocol = "UDP"
    BY <2>1, <2>4 DEF OfUdp
  <2> QED BY <1>1, <1>2, <1>5, <2>1, <2>2, <2>3, <2>4, CallForwarded
<1> QED BY <1>2, <1>4, <1>5 DEF mWRITE

\* mCLOSE is answered at once, before the transport module knows.
LEMMA CloseCall ==
  ASSUME TypeOK, TypeOK', CallInv, mCLOSE, UNCHANGED call
  PROVE  CallInv' /\ ServiceStep
<1>1. AppReceive("mCLOSE")
  BY DEF mCLOSE
<1>2. PICK sock : sock = AppRequest.sockfd
  OBVIOUS
<1>3. sock \in Sock /\ socks \in SockTable /\ sock = call.sockfd
  BY <1>1, <1>2, RequestTaken DEF TypeOK, SockTypeOK
<1>4. CASE Refuse(sock, "EINVALID_OP")
  BY <1>1, <1>2, <1>4, CallRefused
<1>5. CASE /\ SendRequest(Request("CLOSE", socks[sock].connection, <<>>), sock)
           /\ ReplyApp(sock, <<>>, "EOK")
           /\ socks' = CloseSocket(socks, sock)
  <2>1. OthersKept(socks, socks', sock) /\ socks'[sock].status = "FREE"
    BY <1>3, <1>5, CloseSocketAt DEF FreeRecord
  <2>2. NonePending /\ NoneRelayed
    BY <1>1, RequestTaken
  <2>3. "FREE" \notin Pending
    BY DEF Pending
  <2>4. NonePending'
    BY <2>1, <2>2, <2>3 DEF NonePending, OthersKept
  <2>5. PICK s : s = Request("CLOSE", socks[sock].connection, <<>>)
    OBVIOUS
  <2>13. PICK record : record = RecordOf(s, sock)
    OBVIOUS
  <2>6. record.type = "CLOSE"
    BY <2>5, <2>13, RequestAt
  <2>7. \/ udpq' = Append(udpq, record) /\ tcpq' = tcpq
        \/ tcpq' = Append(tcpq, record) /\ udpq' = udpq
    BY <1>5, <2>5, <2>13 DEF SendRequest, SendUDPRequest, SendTCPRequest
  <2>8. /\ udpq \in Seq(RequestRecord) /\ tcpq \in Seq(RequestRecord)
        /\ udpq' \in Seq(RequestRecord) /\ tcpq' \in Seq(RequestRecord)
    BY DEF TypeOK, SockTypeOK
  <2>9. record \in RequestRecord
    BY <2>7, <2>8, Appended
  <2>10. Range(udpq') \subseteq Range(udpq) \cup {record}
         /\ Range(tcpq') \subseteq Range(tcpq) \cup {record}
    BY <2>7, <2>8, <2>9, RangeAppend
  <2>11. NoneRelayed'
    BY <2>2, <2>6, <2>10 DEF NoneRelayed
  <2>12. OpenSocks' \in {OpenSocks, OpenSocks \ {call.sockfd}}
    BY <1>3, <2>1 DEF OpenSocks, OthersKept
  <2> QED BY <1>1, <1>3, <1>5, <2>4, <2>11, <2>12, CallServed
<1> QED BY <1>2, <1>4, <1>5 DEF mCLOSE

-----------------------------------------------------------------------------
(***************************************************************************)
(* The application: asking and being answered.                             *)
(***************************************************************************)

\* What the calls of the application say.
LEMMA ApplicationCalls ==
  ASSUME ApplicationCall
  PROVE  \E type \in SlrrType, sockfd \in Sock : \E c, data :
           /\ Call(type, sockfd, c, data)
           /\ type = "mCONNECT" => c.dest \in Remotes
           /\ type = "mSOCKET" => c.protocol \in Protocols
<1> DEFINE Asks == \E type \in SlrrType, sockfd \in Sock : \E c, data :
                     /\ Call(type, sockfd, c, data)
                     /\ type = "mCONNECT" => c.dest \in Remotes
                     /\ type = "mSOCKET" => c.protocol \in Protocols
<1>1. {"mSOCKET", "mBIND", "mLISTEN", "mACCEPT", "mCONNECT", "mREAD", "mWRITE", "mCLOSE"}
        \subseteq SlrrType
  BY DEF SlrrType
<1>2. \A type \in UnservedType : type \in SlrrType /\ type # "mCONNECT" /\ type # "mSOCKET"
  BY DEF UnservedType, SlrrType
<1>3. 0 \in Sock
  BY UsableSock
<1>4. ASSUME NEW type \in SlrrType, NEW sockfd \in Sock, NEW c, NEW data,
             Call(type, sockfd, c, data), type # "mCONNECT", type # "mSOCKET"
      PROVE  Asks
  BY <1>4
<1>5. ASSUME NEW protocol \in Protocols, minet_socket(protocol)
      PROVE  Asks
  <2> DEFINE c == [NoConnection EXCEPT !.protocol = protocol]
  <2>1. c.protocol = protocol
    BY DEF NoConnection
  <2>2. Call("mSOCKET", 0, c, <<>>)
    BY <1>5 DEF minet_socket
  <2> HIDE DEF c
  <2> QED BY <1>1, <1>3, <2>1, <2>2
<1>6. ASSUME NEW sockfd \in Sock, NEW host \in Remotes, NEW port \in PeerPorts,
             minet_connect(sockfd, host, port)
      PROVE  Asks
  <2> DEFINE c == [NoConnection EXCEPT !.dest = host, !.destport = port]
  <2>1. c.dest = host
    BY DEF NoConnection
  <2>2. Call("mCONNECT", sockfd, c, <<>>)
    BY <1>6 DEF minet_connect
  <2> HIDE DEF c
  <2> QED BY <1>1, <2>1, <2>2
<1> HIDE DEF Asks
<1>7. ASSUME NEW sockfd \in Sock, NEW addr, NEW port, minet_bind(sockfd, addr, port)
      PROVE  Asks
  BY <1>1, <1>4, <1>7 DEF minet_bind
<1>8. ASSUME NEW sockfd \in Sock, NEW len,
             \/ minet_listen(sockfd) \/ minet_accept(sockfd) \/ minet_read(sockfd)
             \/ minet_write(sockfd, len) \/ minet_close(sockfd)
      PROVE  Asks
  BY <1>1, <1>4, <1>8
     DEF minet_listen, minet_accept, minet_read, minet_write, minet_close
<1>9. ASSUME NEW sockfd \in Sock, NEW type \in Unserved, minet_unserved(type, sockfd)
      PROVE  Asks
  BY <1>2, <1>4, <1>9, SockLibAssumption DEF minet_unserved
<1>10. Asks
  BY <1>5, <1>6, <1>7, <1>8, <1>9 DEF ApplicationCall
<1> QED BY <1>10 DEF Asks

\* A call is made when nothing is left of the one before.
LEMMA AskCall ==
  ASSUME TypeOK, TypeOK', CallInv, Application
  PROVE  CallInv' /\ ServiceStep
<1>1. UNCHANGED <<udpFifos, tcpFifos, sockVars>> /\ ApplicationCall
  BY DEF Application
<1>2. PICK type, sockfd, c, data :
         /\ type \in SlrrType /\ sockfd \in Sock
         /\ Call(type, sockfd, c, data)
         /\ type = "mCONNECT" => c.dest \in Remotes
         /\ type = "mSOCKET" => c.protocol \in Protocols
  BY <1>1, ApplicationCalls
<1>3. PICK m : m = [type |-> type, sockfd |-> sockfd, connection |-> c, data |-> data]
  OBVIOUS
<1>4. m.type = type /\ m.sockfd = sockfd /\ m.connection = c
  BY <1>3
<1>5. /\ call = NoCall /\ call'.sockfd = sockfd /\ call'.type = type
      /\ socklib2sock' = Append(socklib2sock, m) /\ sock2socklib' = sock2socklib
  BY <1>2, <1>3 DEF Call
<1>6. call' # NoCall
  BY <1>2, <1>5 DEF NoCall, SlrrType, UnservedType
<1>7. socklib2sock = <<>> /\ sock2socklib = <<>> /\ NonePending /\ NoneRelayed
  BY <1>5, NobodyWaits DEF CallInv, OneMessage
<1>8. /\ Len(socklib2sock') = 1 /\ Head(socklib2sock') = m /\ socklib2sock' # <<>>
      /\ Len(sock2socklib') = 0
  <2>1. <<>> \in Seq({m}) /\ m \in {m} /\ Len(<<>>) = 0
    OBVIOUS
  <2> QED BY <1>5, <1>7, <2>1, OnlyMessage
<1>9. ProperRequest(m)'
  BY <1>2, <1>4, <1>5 DEF ProperRequest
<1>10. OneMessage'
  BY <1>5, <1>6, <1>7, <1>8, <1>9 DEF OneMessage
<1>11. NonePending' /\ NoneRelayed'
  BY <1>1, <1>7 DEF NonePending, NoneRelayed, sockVars
<1>12. CallInv'
  BY <1>10, <1>11, CallAtRest
<1>13. /\ Phase = "idle" /\ Phase' = "asked" /\ Answer' = Answer /\ OpenSocks' = OpenSocks
       /\ call'.sockfd \in Sock
  BY <1>1, <1>2, <1>5, <1>6, <1>7, <1>8 DEF Phase, Answer, OpenSocks, sockVars
<1>14. Service!Ask
  BY <1>13 DEF Service!Ask, OpenSocks
<1> QED BY <1>12, <1>14 DEF ServiceStep, Service!Next

\* The one reply there is ends the call.
LEMMA ReturnCall ==
  ASSUME TypeOK, CallInv, CallReturn
  PROVE  CallInv' /\ ServiceStep
<1>1. /\ call # NoCall /\ sock2socklib # <<>> /\ sock2socklib' = Tail(sock2socklib)
      /\ call' = NoCall /\ socklib2sock' = socklib2sock
      /\ UNCHANGED <<socks, tcpq, udpq>>
  BY DEF CallReturn, Return, sockVars
<1>2. socklib2sock = <<>> /\ Len(sock2socklib) <= 1 /\ NonePending /\ NoneRelayed
  BY <1>1, NobodyWaits DEF CallInv, OneMessage
<1>3. sock2socklib' = <<>>
  BY <1>1, <1>2, CallTypes, OnlyMessage
<1>4. OneMessage'
  BY <1>1, <1>2, <1>3 DEF OneMessage
<1>5. NonePending' /\ NoneRelayed'
  BY <1>1, <1>2 DEF NonePending, NoneRelayed
<1>6. CallInv'
  BY <1>4, <1>5, CallAtRest
<1>7. /\ Phase = "answered" /\ Phase' = "idle" /\ call'.sockfd = 0 /\ Answer' = -1
      /\ OpenSocks' = OpenSocks
  BY <1>1, <1>3 DEF Phase, Answer, OpenSocks, NoCall
<1>8. Service!Return
  BY <1>7 DEF Service!Return, OpenSocks
<1> QED BY <1>6, <1>8 DEF ServiceStep, Service!Next

\* Every step concerns the call in progress as SocketService says.
LEMMA CallStep ==
  ASSUME TypeOK, TypeOK', TcpAnswersPair, Doubts, CallInv, [Next]_vars,
         \A i \in Sock : socks[i].status = "LISTENING" => ~OfUdp(i)
  PROVE  CallInv' /\ ServiceStep
<1>1. CASE Application
  BY <1>1, AskCall
<1>2. CASE CallReturn
  BY <1>2, ReturnCall
<1>3. CASE SockProcess
  <2>1. SockModuleStep /\ UNCHANGED call
    BY <1>3 DEF SockProcess
  <2>2. CASE ProcessAppRequest
    BY <2>1, <2>2, SocketCall, BindCall, ListenCall, AcceptCall, ConnectCall, ReadCall,
       WriteCall, CloseCall, UnservedCall DEF ProcessAppRequest
  <2> QED BY <2>1, <2>2, UDPWriteCall, UDPStatusCall, TCPWriteCall, TCPStatusCall
          DEF SockModuleStep
<1>4. CASE UdpFromMux \/ UdpFromSock \/ TcpFromSock \/ TcpFromNetwork \/ UNCHANGED vars
  <2>1. UNCHANGED <<call, socklib2sock, sock2socklib, udpq, tcpq, socks>>
    BY <1>4 DEF UdpFromMux, UdpFromSock, TcpFromSock, TcpFromNetwork, appFifos, sockVars,
                vars, fifos
  <2> QED BY <2>1, CallIdle DEF OfUdp
<1> QED BY <1>1, <1>2, <1>3, <1>4 DEF Next

-----------------------------------------------------------------------------
(***************************************************************************)
(* Ports: the invariant.                                                   *)
(***************************************************************************)

\* Nothing that tcp_module knows or is told is about the port of socket i, which
\* no other socket has.
Unused(i) == Quiet(PortOf(socks[i])) /\ Alone(i)

Named(i) == PortOf(socks[i]) # PORT_NONE
Held(i) == ports[PortOf(socks[i])] = i

(***************************************************************************)
(* What the status of a socket says of its connection and of the table of  *)
(* ports: a close leaves the reservation in place, so that only the socket *)
(* bound first ever holds a port.                                          *)
(***************************************************************************)
RecordShape(i) ==
  LET c == socks[i].connection
      status == socks[i].status
  IN  /\ i = 0 => status = "FREE"
      /\ status = "FREE" => c = NoConnection
      /\ status \in {"LISTENING", "ACCEPT_PENDING", "CONNECT_PENDING"} => ~OfUdp(i)
      /\ status = "UNBOUND" /\ ~OfUdp(i) => ~Named(i)
      /\ status \in {"BOUND", "LISTENING", "ACCEPT_PENDING"} /\ ~OfUdp(i) => Named(i) /\ Held(i)
      /\ status \in {"LISTENING", "ACCEPT_PENDING"} => c.dest = IP_ADDRESS_ANY
      /\ status \in {"CONNECT_PENDING", "CONNECTED", "READ_PENDING", "WRITE_PENDING"} /\ ~OfUdp(i)
           => Named(i) /\ c.dest # IP_ADDRESS_ANY
      /\ OfUdp(i) /\ Named(i) => Held(i)

(***************************************************************************)
(* What tcp_module and the other sockets have to do with the port of a     *)
(* socket: nothing for a UDP socket and for a bound one.                   *)
(***************************************************************************)
PortUse(i) ==
  LET status == socks[i].status
  IN  /\ OfUdp(i) /\ Named(i) => Unused(i)
      /\ status = "BOUND" /\ ~OfUdp(i) => Unused(i)
      /\ status = "LISTENING" => Listened(socks[i].connection) \/ Unused(i)
      /\ status = "ACCEPT_PENDING" => Listened(socks[i].connection) \/ Undecided(i)

Shapes == \A i \in Sock : RecordShape(i) /\ PortUse(i)

\* A port nobody reserved is nowhere in use.
Unreserved ==
  \A p \in Port \ {PORT_NONE} :
    ports[p] = 0 => Quiet(p) /\ \A i \in Sock : PortOf(socks[i]) # p

\* tcp_module offers only connections with both ends named.
Traffic ==
  /\ \A t \in tcbs : /\ PortOf(t) # PORT_NONE
                     /\ t.state # "LISTEN" => t.connection.dest # IP_ADDRESS_ANY
  /\ \A m \in Range(tcp2sock) :
       m.type = "WRITE" => PortOf(m) # PORT_NONE /\ m.connection.dest # IP_ADDRESS_ANY

\* No CLOSE is for a connection that is listened to, or asked to be.
ClosesLast(q) ==
  \A m, n \in DOMAIN q :
    m < n /\ q[m].type = "CLOSE" /\ q[n].type = "ACCEPT" => q[m].connection # q[n].connection

Closes ==
  /\ ClosesLast(sock2tcp)
  /\ \A m \in Range(sock2tcp), i \in Sock :
       m.type = "CLOSE" /\ socks[i].status \in {"LISTENING", "ACCEPT_PENDING"}
         => m.connection # socks[i].connection

PortInv == Unreserved /\ Shapes /\ Traffic /\ Doubts /\ Closes

-----------------------------------------------------------------------------
(***************************************************************************)
(* A step is about one port, or about none: what it leaves alone.          *)
(***************************************************************************)

\* A FIFO or queue of records changes by what is about port q.
OnlyAbout(q, old, new, S) ==
  /\ \A m \in Range(new) : PortOf(m) # q => m \in Range(old)
  /\ \A p \in Port \ {q} :
       Once(old, {m \in S : PortOf(m) = p}) => Once(new, {m \in S : PortOf(m) = p})

\* A socket keeps its connection and all its status says of a port.
Calm(i) ==
  /\ socks'[i].connection = socks[i].connection
  /\ \A status \in {"LISTENING", "ACCEPT_PENDING", "CONNECT_PENDING"} :
       socks'[i].status = status <=> socks[i].status = status
  /\ OfUdp(i) \/ (socks'[i].status = "BOUND" <=> socks[i].status = "BOUND")

\* Nothing changes but what has to do with port q.
Elsewhere(q) ==
  /\ \A t : PortOf(t) # q => (t \in tcbs' <=> t \in tcbs)
  /\ OnlyAbout(q, sock2tcp, sock2tcp', SockRequestResponse)
  /\ OnlyAbout(q, tcp2sock, tcp2sock', SockRequestResponse)
  /\ OnlyAbout(q, tcpq, tcpq', RequestRecord)
  /\ \A p \in Port \ {PORT_NONE, q} : ports'[p] = ports[p]
  /\ \A i \in Sock :
       \/ Calm(i)
       \/ /\ PortOf(socks'[i]) \in {PORT_NONE, q}
          /\ socks[i].status \in {"ACCEPT_PENDING", "CONNECT_PENDING"} => PortOf(socks[i]) = q

\* tcp_module goes on knowing and being told nothing about another port.
LEMMA QuietKept ==
  ASSUME NEW q, NEW p, p # q, Elsewhere(q), Quiet(p)
  PROVE  Quiet(p)'
BY DEF Elsewhere, OnlyAbout, Quiet

\* No other socket comes to another port.
LEMMA AloneKept ==
  ASSUME NEW q, NEW i \in Sock, Elsewhere(q), socks'[i].connection = socks[i].connection,
         PortOf(socks[i]) \notin {PORT_NONE, q}, Alone(i)
  PROVE  Alone(i)'
<1>1. PortOf(socks'[i]) = PortOf(socks[i])
  BY DEF PortOf
<1>2. \A j \in Sock : \/ PortOf(socks'[j]) = PortOf(socks[j])
                      \/ PortOf(socks'[j]) \in {PORT_NONE, q}
  BY DEF Elsewhere, Calm, PortOf
<1> QED BY <1>1, <1>2 DEF Alone

\* An unused port stays unused.
LEMMA UnusedKept ==
  ASSUME NEW q, NEW i \in Sock, Elsewhere(q), socks'[i].connection = socks[i].connection,
         PortOf(socks[i]) \notin {PORT_NONE, q}, Unused(i)
  PROVE  Unused(i)'
<1>1. PICK p : p = PortOf(socks[i])
  OBVIOUS
<1>2. PortOf(socks'[i]) = p
  BY <1>1 DEF PortOf
<1>3. Quiet(p)'
  BY <1>1, QuietKept DEF Unused
<1>4. Alone(i)'
  BY AloneKept DEF Unused
<1> QED BY <1>2, <1>3, <1>4 DEF Unused

\* What is undecided over another port stays so.
LEMMA UndecidedKept ==
  ASSUME NEW q, NEW i \in Sock, Elsewhere(q), Calm(i),
         PortOf(socks[i]) \in Port \ {PORT_NONE, q}, Undecided(i)
  PROVE  Undecided(i)'
<1>1. PICK p \in Port : p = PortOf(socks[i])
  OBVIOUS
<1>2. PICK c : c = socks[i].connection
  OBVIOUS
<1>3. PortOf(socks'[i]) = p /\ socks'[i].connection = c /\ p # q
  BY <1>1, <1>2 DEF PortOf, Calm
<1>4. Opening(i)' = Opening(i)
  BY DEF Opening, Calm
<1>5. UndecidedOver(i, c, p)
  BY <1>1, <1>2 DEF Undecided
<1>6. Alone(i)'
  BY <1>5, AloneKept DEF UndecidedOver, Calm
<1>7. /\ \A t \in tcbs' : PortOf(t) # p
      /\ \A m \in Range(sock2tcp') : PortOf(m) = p => m \in Range(sock2tcp)
      /\ \A m \in Range(tcp2sock') : PortOf(m) = p => m \in Range(tcp2sock)
      /\ \A r \in Range(tcpq') : PortOf(r) = p => r \in Range(tcpq)
  BY <1>3, <1>5 DEF Elsewhere, OnlyAbout, UndecidedOver
<1>8. Once(sock2tcp', MessagesOf(p)) /\ Once(tcp2sock', MessagesOf(p)) /\ Once(tcpq', RecordsOf(p))
  BY <1>3, <1>5 DEF Elsewhere, OnlyAbout, UndecidedOver, MessagesOf, RecordsOf
<1>9. UndecidedOver(i, c, p)'
  BY <1>4, <1>5, <1>6, <1>7, <1>8 DEF UndecidedOver
<1> QED BY <1>3, <1>9 DEF Undecided

\* Listening to a connection at another port goes on.
LEMMA ListenedKept ==
  ASSUME NEW q, NEW c, c.srcport # q, Elsewhere(q)
  PROVE  Listened(c)' <=> Listened(c)
<1>1. PICK t : t = Tcb(c, "LISTEN")
  OBVIOUS
<1>2. PortOf(t) # q
  BY <1>1 DEF Tcb, PortOf
<1> QED BY <1>1, <1>2 DEF Elsewhere, Listened

\* So what tcp_module has to do with another port stays.
LEMMA PortUseKept ==
  ASSUME NEW q, NEW i \in Sock, Elsewhere(q), Calm(i),
         PortOf(socks[i]) \in Port \ {PORT_NONE, q}, PortUse(i)
  PROVE  PortUse(i)'
<1>1. PICK c : c = socks[i].connection
  OBVIOUS
<1>2. socks'[i].connection = c /\ c.srcport # q
  BY <1>1 DEF Calm, PortOf
<1>3. Listened(c)' <=> Listened(c)
  BY <1>2, ListenedKept
<1>4. Unused(i) => Unused(i)'
  BY UnusedKept DEF Calm
<1>5. Undecided(i) => Undecided(i)'
  BY UndecidedKept
<1>6. (OfUdp(i)' <=> OfUdp(i)) /\ (Named(i)' <=> Named(i))
  BY DEF Calm, OfUdp, Named, PortOf
<1> QED BY <1>1, <1>2, <1>3, <1>4, <1>5, <1>6 DEF PortUse, Calm

\* A dispute is about a port with a name.
LEMMA DisputedNamed ==
  ASSUME Shapes
  PROVE  ~ Disputed(PORT_NONE)
BY DEF Shapes, RecordShape, Disputed, Named

\* A dispute about another port goes on.
LEMMA DisputedKept ==
  ASSUME Shapes, NEW q, NEW p \in Port \ {q}, Elsewhere(q), Disputed(p)
  PROVE  Disputed(p)'
<1>1. PICK i \in Sock : /\ socks[i].status \in {"CONNECT_PENDING", "ACCEPT_PENDING"}
                        /\ PortOf(socks[i]) = p
                        /\ Undecided(i)
  BY DEF Disputed
<1>2. p # PORT_NONE
  BY DisputedNamed
<1>3. Calm(i)
  BY <1>1 DEF Elsewhere
<1>4. Undecided(i)'
  BY <1>1, <1>2, <1>3, UndecidedKept
<1>5. socks'[i].status \in {"CONNECT_PENDING", "ACCEPT_PENDING"} /\ PortOf(socks'[i]) = p
  BY <1>1, <1>3 DEF Calm, PortOf
<1> QED BY <1>4, <1>5 DEF Disputed

\* No doubt comes up about another port.
LEMMA DoubtsKept ==
  ASSUME Shapes, Doubts, NEW q, NEW p \in Port \ {q}, Elsewhere(q), Doubtful(p)'
  PROVE  Disputed(p)'
<1>1. Doubtful(p)
  <2>1. CASE \E m \in Range(tcp2sock') : PortOf(m) = p /\ Refusal(m)
    BY <2>1 DEF Doubtful, Elsewhere, OnlyAbout
  <2>2. CASE \E m \in Range(sock2tcp') : PortOf(m) = p /\ Refusable(m)'
    <3>1. PICK m \in Range(sock2tcp') : PortOf(m) = p /\ Refusable(m)'
      BY <2>2
    <3>2. m \in Range(sock2tcp)
      BY <3>1 DEF Elsewhere, OnlyAbout
    <3>3. Listened(m.connection)' <=> Listened(m.connection)
      BY <3>1, ListenedKept DEF PortOf
    <3>4. Refusable(m)
      BY <3>1, <3>3 DEF Refusable
    <3> QED BY <3>1, <3>2, <3>4 DEF Doubtful
  <2> QED BY <2>1, <2>2 DEF Doubtful
<1> QED BY <1>1, DisputedKept DEF Doubts

\* A step about port q keeps the invariant when what it does about q does.
LEMMA PortsStep ==
  ASSUME TypeOK, TypeOK', PortInv, NEW q \in Port, Elsewhere(q),
         q # PORT_NONE => ports'[q] # 0,
         \A i \in Sock : RecordShape(i)',
         \A i \in Sock : PortOf(socks'[i]) = q /\ q # PORT_NONE => PortUse(i)',
         Doubtful(q)' => Disputed(q)',
         Traffic', Closes'
  PROVE  PortInv'
<1>1. \A i \in Sock : PortOf(socks[i]) \in Port /\ PortOf(socks'[i]) \in Port
  BY CallTypes, MessagePort DEF TypeOK, SockTypeOK, SockTable
<1>2. Unreserved'
  <2> SUFFICES ASSUME NEW p \in Port \ {PORT_NONE}, ports'[p] = 0
               PROVE  Quiet(p)' /\ \A i \in Sock : PortOf(socks'[i]) # p
    BY DEF Unreserved
  <2>1. p # q /\ ports[p] = 0
    BY DEF Elsewhere
  <2>2. Quiet(p) /\ \A i \in Sock : PortOf(socks[i]) # p
    BY <2>1 DEF PortInv, Unreserved
  <2>3. Quiet(p)'
    BY <2>1, <2>2, QuietKept
  <2>4. \A i \in Sock : PortOf(socks'[i]) # p
    BY <2>1, <2>2 DEF Elsewhere, Calm, PortOf
  <2> QED BY <2>3, <2>4
<1>3. ASSUME NEW i \in Sock PROVE PortUse(i)'
  <2>1. CASE PortOf(socks'[i]) = PORT_NONE
    BY <2>1 DEF RecordShape, PortUse, Named
  <2>2. CASE PortOf(socks'[i]) = q /\ q # PORT_NONE
    BY <2>2
  <2>3. CASE PortOf(socks'[i]) \notin {PORT_NONE, q}
    <3>1. Calm(i)
      BY <2>3 DEF Elsewhere
    <3>2. PortOf(socks[i]) \in Port \ {PORT_NONE, q}
      BY <1>1, <2>3, <3>1 DEF Calm, PortOf
    <3> QED BY <3>1, <3>2, PortUseKept DEF PortInv, Shapes
  <2> QED BY <2>1, <2>2, <2>3
<1>4. Shapes'
  BY <1>3 DEF Shapes
<1>5. Doubts'
  <2>1. \A p \in Port \ {q} : Doubtful(p)' => Disputed(p)'
    BY DoubtsKept DEF PortInv
  <2> QED BY <2>1 DEF Doubts
<1> QED BY <1>2, <1>4, <1>5 DEF PortInv

\* A FIFO that does not change.
LEMMA AboutSame == \A q, old, S : OnlyAbout(q, old, old, S)
BY DEF OnlyAbout

\* A message sent is about its port.
LEMMA AboutAppend ==
  ASSUME NEW S, NEW old \in Seq(S), NEW e \in S, NEW q, PortOf(e) = q
  PROVE  OnlyAbout(q, old, Append(old, e), S)
<1>1. Range(Append(old, e)) = Range(old) \cup {e}
  BY RangeAppend
<1>2. ASSUME NEW p \in Port \ {q}, Once(old, {m \in S : PortOf(m) = p})
      PROVE  Once(Append(old, e), {m \in S : PortOf(m) = p})
  BY <1>2, OnceAppend
<1> QED BY <1>1, <1>2 DEF OnlyAbout

\* A message taken is about any port.
LEMMA AboutTail ==
  ASSUME NEW S, NEW old \in Seq(S), old # <<>>, NEW q
  PROVE  OnlyAbout(q, old, Tail(old), S)
<1>1. Range(Tail(old)) \subseteq Range(old)
  BY RangeTail
<1>2. ASSUME NEW p \in Port \ {q}, Once(old, {m \in S : PortOf(m) = p})
      PROVE  Once(Tail(old), {m \in S : PortOf(m) = p})
  BY <1>2, OnceTail
<1> QED BY <1>1, <1>2 DEF OnlyAbout

\* A socket whose port is in use, and not in dispute, need not be looked at again.
LEMMA BusyUse ==
  ASSUME NEW i \in Sock, NEW p, PortOf(socks[i]) = p, Calm(i), PortUse(i), ~Unused(i),
         ~Disputed(p),
         socks[i].status \in {"LISTENING", "ACCEPT_PENDING"} /\ Listened(socks[i].connection)
           => Tcb(socks[i].connection, "LISTEN") \in tcbs'
  PROVE  PortUse(i)'
<1>1. PICK c : c = socks[i].connection
  OBVIOUS
<1>2. socks'[i].connection = c
  BY <1>1 DEF Calm
<1>3. (OfUdp(i)' <=> OfUdp(i)) /\ (Named(i)' <=> Named(i))
  BY DEF Calm, OfUdp, Named, PortOf
<1>4. ~ (OfUdp(i) /\ Named(i)) /\ (OfUdp(i) \/ socks[i].status # "BOUND")
  BY DEF PortUse
<1>5. socks[i].status \in {"LISTENING", "ACCEPT_PENDING"} => Listened(c)
  BY <1>1 DEF PortUse, Disputed
<1>6. socks[i].status \in {"LISTENING", "ACCEPT_PENDING"} => Listened(c)'
  BY <1>1, <1>5 DEF Listened
<1> QED BY <1>1, <1>2, <1>3, <1>4, <1>5, <1>6 DEF PortUse, Calm

\* Port reservations are never given up, so what a record says of them lasts.
LEMMA RecordShapeKept ==
  ASSUME TypeOK, NEW i \in Sock, RecordShape(i),
         socks'[i].connection = socks[i].connection, socks'[i].status = socks[i].status,
         \A p \in Port \ {PORT_NONE} : ports[p] # 0 => ports'[p] = ports[p]
  PROVE  RecordShape(i)'
<1>1. PICK p \in Port : p = PortOf(socks[i])
  BY CallTypes, MessagePort
<1>2. PortOf(socks'[i]) = p
  BY <1>1 DEF PortOf
<1>3. (OfUdp(i)' <=> OfUdp(i)) /\ (Named(i)' <=> Named(i))
  BY <1>1, <1>2 DEF OfUdp, Named
<1>4. Named(i) /\ Held(i) => Held(i)'
  <2>1. Named(i) => i # 0
    BY DEF RecordShape, Named, PortOf, NoConnection
  <2> QED BY <1>1, <1>2, <2>1 DEF Named, Held
<1> QED BY <1>3, <1>4 DEF RecordShape

\* When sock_module and tcp_module have nothing to say to each other, and no
\* socket has a new port.
LEMMA PortsIdle ==
  ASSUME TypeOK, TypeOK', PortInv, UNCHANGED <<ports, tcbs, sock2tcp, tcp2sock, tcpq>>,
         \A i \in Sock : RecordShape(i)',
         \A i \in Sock :
           \/ Calm(i)
           \/ /\ PortOf(socks'[i]) = PORT_NONE
              /\ socks[i].status \notin {"ACCEPT_PENDING", "CONNECT_PENDING"}
  PROVE  PortInv'
<1>1. PORT_NONE \in Port
  BY SockIntAssumption DEF Port, PORT_NONE
<1>2. Elsewhere(PORT_NONE)
  BY AboutSame DEF Elsewhere
<1>3. ~ Doubtful(PORT_NONE)
  BY <1>1, DisputedNamed DEF PortInv, Doubts
<1>4. ~ Doubtful(PORT_NONE)'
  BY <1>3 DEF Doubtful, Refusable, Listened
<1>5. Traffic'
  BY DEF PortInv, Traffic
<1>6. Closes'
  <2>1. ASSUME NEW i \in Sock, socks'[i].status \in {"LISTENING", "ACCEPT_PENDING"}
        PROVE  /\ socks[i].status \in {"LISTENING", "ACCEPT_PENDING"}
               /\ socks'[i].connection = socks[i].connection
    <3>1. Named(i)'
      BY <2>1 DEF RecordShape
    <3>2. Calm(i)
      BY <3>1 DEF Named
    <3> QED BY <2>1, <3>2 DEF Calm
  <2> QED BY <2>1 DEF PortInv, Closes, ClosesLast
<1> QED BY <1>1, <1>2, <1>4, <1>5, <1>6, PortsStep

\* No socket changes but in its buffer.
LEMMA PortsAlone ==
  ASSUME TypeOK, TypeOK', PortInv, UNCHANGED <<ports, tcbs, sock2tcp, tcp2sock, tcpq>>,
         \A i \in Sock : /\ socks'[i].connection = socks[i].connection
                         /\ socks'[i].status = socks[i].status
  PROVE  PortInv'
<1>1. \A i \in Sock : Calm(i)
  BY DEF Calm
<1>2. \A i \in Sock : RecordShape(i)'
  BY RecordShapeKept DEF PortInv, Shapes
<1> QED BY <1>1, <1>2, PortsIdle

\* One socket changes.
LEMMA PortsOneSocket ==
  ASSUME TypeOK, TypeOK', PortInv, UNCHANGED <<ports, tcbs, sock2tcp, tcp2sock, tcpq>>,
         NEW sock \in Sock, OthersKept(socks, socks', sock),
         \/ Calm(sock)
         \/ /\ PortOf(socks'[sock]) = PORT_NONE
            /\ socks[sock].status \notin {"ACCEPT_PENDING", "CONNECT_PENDING"},
         RecordShape(sock)'
  PROVE  PortInv'
<1>1. \A i \in Sock : i # sock => Calm(i)
  BY DEF Calm, OthersKept
<1>2. \A i \in Sock : i # sock => RecordShape(i)'
  BY RecordShapeKept DEF PortInv, Shapes, OthersKept
<1> QED BY <1>1, <1>2, PortsIdle

\* A socket that reads or writes, or ends doing so.
Connected == {"CONNECTED", "READ_PENDING", "WRITE_PENDING"}

\* Between these states nothing changes about ports.
LEMMA PortsBusySocket ==
  ASSUME TypeOK, TypeOK', PortInv, UNCHANGED <<ports, tcbs, sock2tcp, tcp2sock, tcpq>>,
         NEW sock \in Sock, OthersKept(socks, socks', sock),
         socks'[sock].connection = socks[sock].connection,
         \/ /\ socks[sock].status \in Connected /\ socks'[sock].status \in Connected
         \/ /\ OfUdp(sock)
            /\ socks[sock].status \in {"UNBOUND", "BOUND"} \cup Connected
            /\ socks'[sock].status \in {"UNBOUND", "BOUND"} \cup Connected
  PROVE  PortInv'
<1>1. Calm(sock)
  BY DEF Calm, Connected
<1>2. PortOf(socks'[sock]) = PortOf(socks[sock])
  BY DEF PortOf
<1>3. /\ OfUdp(sock)' <=> OfUdp(sock)
      /\ Named(sock)' <=> Named(sock)
      /\ Held(sock)' <=> Held(sock)
  BY <1>2 DEF OfUdp, Named, Held
<1>4. RecordShape(sock)'
  BY <1>3 DEF PortInv, Shapes, RecordShape, Connected
<1> QED BY <1>1, <1>4, PortsOneSocket

-----------------------------------------------------------------------------
(***************************************************************************)
(* sock_module, udp_module and the application: ports.                     *)
(***************************************************************************)

\* Data of udp_module changes nothing about ports.
LEMMA UDPWritePorts ==
  ASSUME TypeOK, TypeOK', PortInv, HandleUDPWrite, UNCHANGED tcbs
  PROVE  PortInv'
<1> DEFINE s == Head(udp2sock)
           sock == FindConnection(socks, s.connection)
<1>1. s \in SockRequestResponse
  BY UDPHead DEF HandleUDPWrite, TypeOK
<1>2. sock > 0 => sock \in Sock
  BY FindConnectionRange, UsableSock DEF TypeOK, SockTypeOK
<1>3. UNCHANGED <<ports, tcbs, sock2tcp, tcp2sock, tcpq>>
  BY DEF HandleUDPWrite, tcpFifos
<1>4. CASE UNCHANGED socks
  BY <1>3, <1>4, PortsAlone
<1>5. CASE sock > 0 /\ DataForBuffer(s, sock)
  <2>1. \A i \in Sock : /\ socks'[i].connection = socks[i].connection
                        /\ socks'[i].status = socks[i].status
    BY <1>1, <1>2, <1>5, BufferedAt DEF DataForBuffer, OthersKept
  <2> QED BY <1>3, <2>1, PortsAlone
<1>6. CASE sock > 0 /\ socks[sock].status = "READ_PENDING" /\ DataForReader(s, sock)
  <2>1. /\ OthersKept(socks, socks', sock) /\ socks'[sock].status = "CONNECTED"
        /\ socks'[sock].connection = socks[sock].connection
    BY <1>2, <1>6, SetStatusAt DEF DataForReader, TypeOK, SockTypeOK, Status
  <2> QED BY <1>2, <1>3, <1>6, <2>1, PortsBusySocket DEF Connected
<1> QED BY <1>4, <1>5, <1>6 DEF HandleUDPWrite

\* A new socket's record says nothing of ports, as a closed one's does.
LEMMA UnnamedShape ==
  ASSUME NEW i \in Sock, PortOf(socks'[i]) = PORT_NONE,
         \/ socks'[i] = FreeRecord
         \/ socks'[i].status = "UNBOUND" /\ i # 0
  PROVE  RecordShape(i)'
BY DEF RecordShape, FreeRecord, NoConnection, OfUdp, Named, PortOf

\* A STATUS of udp_module settles a UDP socket, or closes it.
LEMMA UDPStatusPorts ==
  ASSUME TypeOK, TypeOK', CallInv, PortInv, HandleUDPStatus, UNCHANGED tcbs
  PROVE  PortInv'
<1> DEFINE s == Head(udp2sock)
           request == Head(udpq)
<1>1. PICK sock : sock = request.sock
  OBVIOUS
<1>2. UNCHANGED <<ports, tcbs, sock2tcp, tcp2sock, tcpq>> /\ udpq # <<>>
  BY DEF HandleUDPStatus, tcpFifos
<1>3. request \in Range(udpq) /\ sock \in Sock
  BY <1>1, <1>2, CallTypes, RangeTail DEF Records
<1>4. CASE UNCHANGED socks
  BY <1>2, <1>4, PortsAlone
<1>5. CASE ~UNCHANGED socks
  <2>1. /\ request.type \in {"FORWARD", "WRITE"}
        /\ socks' = CloseSocket(socks, sock) \/ socks' = Settled(sock)
    BY <1>1, <1>5 DEF HandleUDPStatus
  <2>2. /\ OfUdp(sock)
        /\ socks[sock].status \in {"UNBOUND", "BOUND", "CONNECTED", "WRITE_PENDING"}
    BY <1>1, <1>3, <2>1 DEF CallInv, UdpRecords
  <2>3. CASE socks' = CloseSocket(socks, sock)
    <3>1. OthersKept(socks, socks', sock) /\ socks'[sock] = FreeRecord
      BY <1>3, <2>3, CloseSocketAt DEF TypeOK, SockTypeOK
    <3>2. PortOf(socks'[sock]) = PORT_NONE
      BY <3>1 DEF FreeRecord, NoConnection, PortOf
    <3>3. RecordShape(sock)'
      BY <1>3, <3>1, <3>2, UnnamedShape
    <3> QED BY <1>2, <1>3, <2>2, <3>1, <3>2, <3>3, PortsOneSocket
  <2>4. CASE socks' = Settled(sock)
    <3>1. /\ OthersKept(socks, socks', sock) /\ socks'[sock].status \in {"BOUND", "CONNECTED"}
          /\ socks'[sock].connection = socks[sock].connection
      BY <1>3, <2>4, SettledAt
    <3> QED BY <1>2, <1>3, <2>2, <3>1, PortsBusySocket DEF Connected
  <2> QED BY <2>1, <2>3, <2>4
<1> QED BY <1>4, <1>5

-----------------------------------------------------------------------------
(***************************************************************************)
(* Requests of the application: ports.                                     *)
(***************************************************************************)

\* While sock_module has a request of the application no port is in dispute.
LEMMA NothingDisputed ==
  ASSUME TypeOK, CallInv, PortInv, NEW type, AppReceive(type)
  PROVE  /\ NonePending
         /\ \A p : ~ Disputed(p)
         /\ \A p \in Port : ~ Doubtful(p)
<1>1. NonePending
  BY RequestTaken
<1>2. \A p : ~ Disputed(p)
  BY <1>1 DEF Disputed, NonePending, Pending
<1> QED BY <1>1, <1>2 DEF PortInv, Doubts

\* A request sent to tcp_module is about its port, as its record is.
LEMMA RequestSent ==
  ASSUME TypeOK, TypeOK', NEW s, NEW sock, SendTCPRequest(s, sock)
  PROVE  /\ s \in SockRequestResponse /\ RecordOf(s, sock) \in RequestRecord
         /\ Range(sock2tcp') = Range(sock2tcp) \cup {s}
         /\ Range(tcpq') = Range(tcpq) \cup {RecordOf(s, sock)}
         /\ UNCHANGED tcp2sock
         /\ OnlyAbout(PortOf(s), sock2tcp, sock2tcp', SockRequestResponse)
         /\ OnlyAbout(PortOf(s), tcpq, tcpq', RequestRecord)
<1> DEFINE record == RecordOf(s, sock)
<1>1. PortOf(record) = PortOf(s)
  BY DEF RecordOf, PortOf
<1> HIDE DEF record
<1>2. /\ sock2tcp' = Append(sock2tcp, s) /\ tcpq' = Append(tcpq, record)
      /\ UNCHANGED tcp2sock
  BY DEF SendTCPRequest, record
<1>3. /\ sock2tcp \in Seq(SockRequestResponse) /\ sock2tcp' \in Seq(SockRequestResponse)
      /\ tcpq \in Seq(RequestRecord) /\ tcpq' \in Seq(RequestRecord)
  BY DEF TypeOK, FifosTypeOK, SockTypeOK
<1>4. s \in SockRequestResponse /\ record \in RequestRecord
  BY <1>2, <1>3, Appended
<1>5. Range(sock2tcp') = Range(sock2tcp) \cup {s} /\ Range(tcpq') = Range(tcpq) \cup {record}
  BY <1>2, <1>3, <1>4, RangeAppend
<1>6. OnlyAbout(PortOf(s), sock2tcp, sock2tcp', SockRequestResponse)
  BY <1>2, <1>3, <1>4, AboutAppend
<1>7. OnlyAbout(PortOf(s), tcpq, tcpq', RequestRecord)
  BY <1>1, <1>2, <1>3, <1>4, AboutAppend
<1> QED BY <1>2, <1>4, <1>5, <1>6, <1>7 DEF record

\* A message after all others.
LEMMA ClosesLastAppend ==
  ASSUME NEW q \in Seq(SockRequestResponse), NEW e \in SockRequestResponse, ClosesLast(q),
         e.type = "ACCEPT" =>
           \A m \in Range(q) : m.type = "CLOSE" => m.connection # e.connection
  PROVE  ClosesLast(Append(q, e))
<1> DEFINE q2 == Append(q, e)
<1>1. /\ Len(q) \in Nat /\ DOMAIN q = 1 .. Len(q) /\ DOMAIN q2 = 1 .. Len(q) + 1
      /\ q2[Len(q) + 1] = e
      /\ \A n \in 1 .. Len(q) : q2[n] = q[n]
  BY AtAppend
<1> HIDE DEF q2
<1>2. \A m, n \in 1 .. Len(q) + 1 :
        m < n => m \in 1 .. Len(q) /\ (n \in 1 .. Len(q) \/ n = Len(q) + 1)
  BY <1>1
<1>3. \A m \in 1 .. Len(q) : q[m] \in Range(q)
  BY <1>1 DEF Range
<1>4. ASSUME NEW m \in DOMAIN q2, NEW n \in DOMAIN q2, m < n,
             q2[m].type = "CLOSE", q2[n].type = "ACCEPT"
      PROVE  q2[m].connection # q2[n].connection
  <2>1. m \in 1 .. Len(q) /\ q2[m] = q[m] /\ q[m] \in Range(q)
    BY <1>1, <1>2, <1>3, <1>4
  <2>2. CASE n \in 1 .. Len(q)
    BY <1>1, <1>4, <2>1, <2>2 DEF ClosesLast
  <2>3. CASE n = Len(q) + 1
    BY <1>1, <1>4, <2>1, <2>3
  <2> QED BY <1>1, <1>2, <1>4, <2>2, <2>3
<1>5. ClosesLast(q2)
  BY <1>4 DEF ClosesLast
<1> QED BY <1>5 DEF q2

\* Taking the first message.
LEMMA ClosesLastTail ==
  ASSUME NEW q \in Seq(SockRequestResponse), q # <<>>, ClosesLast(q)
  PROVE  /\ ClosesLast(Tail(q))
         /\ Head(q).type = "CLOSE" =>
              \A m \in Range(Tail(q)) :
                m.type = "ACCEPT" => m.connection # Head(q).connection
<1> DEFINE q2 == Tail(q)
<1>1. /\ Len(q) \in Nat \ {0} /\ DOMAIN q = 1 .. Len(q) /\ DOMAIN q2 = 1 .. Len(q) - 1
      /\ Head(q) = q[1]
      /\ \A n \in 1 .. Len(q) - 1 : q2[n] = q[n + 1]
  BY AtTail
<1>2. /\ 1 \in DOMAIN q
      /\ \A n \in DOMAIN q2 : n \in Nat /\ n + 1 \in DOMAIN q /\ 1 < n + 1 /\ q2[n] = q[n + 1]
      /\ \A m, n \in DOMAIN q2 : m < n => m + 1 < n + 1
  BY <1>1
<1> HIDE DEF q2
<1>3. ASSUME NEW m \in DOMAIN q2, NEW n \in DOMAIN q2, m < n,
             q2[m].type = "CLOSE", q2[n].type = "ACCEPT"
      PROVE  q2[m].connection # q2[n].connection
  BY <1>2, <1>3 DEF ClosesLast
<1>4. ASSUME Head(q).type = "CLOSE", NEW n \in DOMAIN q2, q2[n].type = "ACCEPT"
      PROVE  q2[n].connection # Head(q).connection
  BY <1>1, <1>2, <1>4 DEF ClosesLast
<1>5. ClosesLast(q2)
  BY <1>3 DEF ClosesLast
<1>6. Head(q).type = "CLOSE" =>
              \A m \in Range(q2) : m.type = "ACCEPT" => m.connection # Head(q).connection
  BY <1>4 DEF Range
<1> QED BY <1>5, <1>6 DEF q2

\* Only this entry of the table of ports may change, and only to reserve.
Reserved(q, sock) ==
  /\ ports[q] \in {0, sock} /\ ports'[q] = sock
  /\ \A p \in Port \ {PORT_NONE, q} : ports'[p] = ports[p]

\* A socket that does not wait comes to, or stays at, a port that is quiet and no
\* other socket's, and may ask tcp_module for it.
LEMMA PortTaken ==
  ASSUME TypeOK, TypeOK', PortInv, NEW sock \in Sock \ {0}, NEW q \in Port \ {PORT_NONE},
         OthersKept(socks, socks', sock), PortOf(socks'[sock]) = q,
         socks[sock].status \notin {"ACCEPT_PENDING", "CONNECT_PENDING"},
         Reserved(q, sock), UNCHANGED <<tcbs, tcp2sock>>,
         OnlyAbout(q, sock2tcp, sock2tcp', SockRequestResponse),
         OnlyAbout(q, tcpq, tcpq', RequestRecord),
         \A j \in Sock \ {sock} : PortOf(socks[j]) # q,
         RecordShape(sock)', PortUse(sock)', Doubtful(q)' => Disputed(q)', Closes'
  PROVE  PortInv'
<1>1. Elsewhere(q)
  <2>1. \A i \in Sock : i # sock => Calm(i)
    BY DEF Calm, OthersKept
  <2>2. PortOf(socks'[sock]) \in {PORT_NONE, q}
    OBVIOUS
  <2>3. OnlyAbout(q, tcp2sock, tcp2sock', SockRequestResponse)
    BY AboutSame
  <2>4. \A i \in Sock :
       \/ Calm(i)
       \/ /\ PortOf(socks'[i]) \in {PORT_NONE, q}
          /\ socks[i].status \in {"ACCEPT_PENDING", "CONNECT_PENDING"} => PortOf(socks[i]) = q
    BY <2>1, <2>2
  <2> QED BY <2>3, <2>4 DEF Elsewhere, Reserved
<1>2. ports'[q] # 0
  BY DEF Reserved
<1>3. ASSUME NEW i \in Sock PROVE RecordShape(i)'
  <2>1. CASE i = sock
    BY <2>1
  <2>2. CASE i # sock
    <3>1. socks'[i] = socks[i] /\ PortOf(socks[i]) # q /\ RecordShape(i)
      BY <2>2 DEF OthersKept, PortInv, Shapes
    <3>2. PICK p \in Port : p = PortOf(socks[i])
      BY CallTypes, MessagePort
    <3>3. PortOf(socks'[i]) = p
      BY <3>1, <3>2
    <3>4. (OfUdp(i)' <=> OfUdp(i)) /\ (Named(i)' <=> Named(i))
      BY <3>1, <3>2, <3>3 DEF OfUdp, Named
    <3>5. Named(i) /\ Held(i) => Held(i)'
      BY <3>1, <3>2, <3>3 DEF Named, Held, Reserved
    <3> QED BY <3>1, <3>4, <3>5 DEF RecordShape
  <2> QED BY <2>1, <2>2
<1>4. ASSUME NEW i \in Sock, PortOf(socks'[i]) = q PROVE PortUse(i)'
  <2>1. i = sock
    BY <1>4 DEF OthersKept
  <2> QED BY <2>1
<1>5. Traffic'
  BY DEF PortInv, Traffic
<1> QED BY <1>1, <1>2, <1>3, <1>4, <1>5, PortsStep

\* A socket that tcp_module has not heard of.
LEMMA PortTakenQuietly ==
  ASSUME TypeOK, TypeOK', PortInv, NEW sock \in Sock \ {0}, NEW q \in Port \ {PORT_NONE},
         OthersKept(socks, socks', sock), PortOf(socks'[sock]) = q,
         socks[sock].status \notin {"ACCEPT_PENDING", "CONNECT_PENDING"},
         Reserved(q, sock), UNCHANGED <<tcbs, sock2tcp, tcp2sock, tcpq>>,
         \A j \in Sock \ {sock} : PortOf(socks[j]) # q, Quiet(q),
         \/ /\ OfUdp(sock)' /\ socks'[sock].status \in {"UNBOUND", "BOUND", "CONNECTED"}
         \/ /\ ~OfUdp(sock)' /\ socks'[sock].status \in {"BOUND", "LISTENING"}
            /\ socks'[sock].status = "LISTENING" => socks'[sock].connection.dest = IP_ADDRESS_ANY
  PROVE  PortInv'
<1>1. Quiet(q)'
  BY DEF Quiet
<1>2. Alone(sock)'
  BY DEF Alone, OthersKept
<1>3. Unused(sock)'
  BY <1>1, <1>2 DEF Unused
<1>4. Named(sock)' /\ Held(sock)'
  BY DEF Named, Held, Reserved
<1>5. RecordShape(sock)'
  BY <1>4 DEF RecordShape
<1>6. PortUse(sock)'
  BY <1>3 DEF PortUse
<1>7. ~ Doubtful(q)'
  BY <1>1 DEF Doubtful, Quiet
<1>8. Closes'
  <2>1. \A m \in Range(sock2tcp) : m.connection # socks'[sock].connection
    BY DEF Quiet, PortOf
  <2> QED BY <2>1 DEF PortInv, Closes, ClosesLast, OthersKept
<1>9. /\ OnlyAbout(q, sock2tcp, sock2tcp', SockRequestResponse)
      /\ OnlyAbout(q, tcpq, tcpq', RequestRecord)
  BY AboutSame
<1> QED BY <1>5, <1>6, <1>7, <1>8, <1>9, PortTaken

\* Connecting, or listening for the first time.
LEMMA PortAsked ==
  ASSUME TypeOK, TypeOK', PortInv, NEW sock \in Sock \ {0}, NEW q \in Port \ {PORT_NONE},
         OthersKept(socks, socks', sock), PortOf(socks'[sock]) = q,
         socks[sock].status \notin {"ACCEPT_PENDING", "CONNECT_PENDING"},
         Reserved(q, sock), UNCHANGED tcbs,
         \A j \in Sock \ {sock} : PortOf(socks[j]) # q, Quiet(q),
         NEW s, SendTCPRequest(s, sock), s.connection = socks'[sock].connection,
         ~OfUdp(sock)',
         \/ /\ s.type = "CONNECT" /\ socks'[sock].status = "CONNECT_PENDING"
            /\ socks'[sock].connection.dest # IP_ADDRESS_ANY
         \/ /\ s.type = "ACCEPT" /\ socks'[sock].status = "ACCEPT_PENDING"
            /\ socks'[sock].connection.dest = IP_ADDRESS_ANY
  PROVE  PortInv'
<1> DEFINE record == RecordOf(s, sock)
<1>1. /\ s \in SockRequestResponse /\ record \in RequestRecord
      /\ Range(sock2tcp') = Range(sock2tcp) \cup {s} /\ Range(tcpq') = Range(tcpq) \cup {record}
      /\ tcp2sock' = tcp2sock
      /\ OnlyAbout(PortOf(s), sock2tcp, sock2tcp', SockRequestResponse)
      /\ OnlyAbout(PortOf(s), tcpq, tcpq', RequestRecord)
  BY RequestSent
<1>2. record.type = s.type /\ record.sock = sock
  BY RequestAt
<1>3. /\ sock2tcp' = Append(sock2tcp, s) /\ tcpq' = Append(tcpq, record)
      /\ sock2tcp \in Seq(SockRequestResponse) /\ tcpq \in Seq(RequestRecord)
      /\ tcp2sock' \in Seq(SockRequestResponse)
  BY DEF SendTCPRequest, TypeOK, FifosTypeOK, SockTypeOK
<1> HIDE DEF record
<1>4. PICK c : c = socks'[sock].connection
  OBVIOUS
<1>5. PortOf(s) = q /\ s.connection = c /\ c.srcport = q
  BY <1>4 DEF PortOf
<1>6. Alone(sock)'
  BY DEF Alone, OthersKept
<1>7. Named(sock)' /\ Held(sock)'
  BY DEF Named, Held, Reserved
<1>8. RecordShape(sock)'
  BY <1>7 DEF RecordShape
<1>9. UndecidedOver(sock, c, q)'
  <2>1. Opening(sock)' = s.type
    BY DEF Opening
  <2>2. Once(sock2tcp', MessagesOf(q))
    <3>1. Range(sock2tcp) \cap MessagesOf(q) = {}
      BY DEF Quiet, MessagesOf
    <3>2. Once(sock2tcp, MessagesOf(q))
      BY <1>3, <3>1, OnceNone
    <3> QED BY <1>1, <1>3, <3>1, <3>2, OnceAppend
  <2>3. Once(tcpq', RecordsOf(q))
    <3>1. Range(tcpq) \cap RecordsOf(q) = {}
      BY DEF Quiet, RecordsOf
    <3>2. Once(tcpq, RecordsOf(q))
      BY <1>3, <3>1, OnceNone
    <3> QED BY <1>1, <1>3, <3>1, <3>2, OnceAppend
  <2>4. \A m \in Range(tcp2sock') : PortOf(m) # q
    BY <1>1 DEF Quiet
  <2>5. Once(tcp2sock', MessagesOf(q))
    <3>1. Range(tcp2sock') \cap MessagesOf(q) = {}
      BY <2>4 DEF MessagesOf
    <3> QED BY <1>3, <3>1, OnceNone
  <2>6. \A t \in tcbs' : PortOf(t) # q
    BY DEF Quiet
  <2>7. \A m \in Range(sock2tcp') : PortOf(m) = q => m = s
    BY <1>1 DEF Quiet
  <2>8. \A r \in Range(tcpq') : PortOf(r) = q => r = record
    BY <1>1 DEF Quiet
  <2> QED BY <1>2, <1>5, <1>6, <2>1, <2>2, <2>3, <2>4, <2>5, <2>6, <2>7, <2>8 DEF UndecidedOver
<1>10. Undecided(sock)'
  BY <1>4, <1>5, <1>9 DEF Undecided
<1>11. PortUse(sock)'
  BY <1>10 DEF PortUse
<1>12. Disputed(q)'
  BY <1>10 DEF Disputed
<1>13. Closes'
  <2>1. \A m \in Range(sock2tcp) : m.connection # c
    BY <1>5 DEF Quiet, PortOf
  <2>2. ClosesLast(sock2tcp')
    BY <1>1, <1>3, <1>5, <2>1, ClosesLastAppend DEF PortInv, Closes
  <2>3. \A m \in Range(sock2tcp'), i \in Sock :
          m.type = "CLOSE" /\ socks'[i].status \in {"LISTENING", "ACCEPT_PENDING"}
            => m.connection # socks'[i].connection
    BY <1>1, <1>4, <2>1 DEF PortInv, Closes, OthersKept
  <2> QED BY <2>2, <2>3 DEF Closes
<1> QED BY <1>1, <1>5, <1>8, <1>11, <1>12, <1>13, PortTaken

\* A message about the port of a socket that other sockets use.
LEMMA PortsSend ==
  ASSUME TypeOK, TypeOK', PortInv, NEW sock \in Sock, NEW s, SendTCPRequest(s, sock),
         UNCHANGED <<ports, tcbs>>, OthersKept(socks, socks', sock),
         PortOf(s) \in Port, PortOf(s) = PortOf(socks[sock]),
         \A p : ~ Disputed(p), \A p \in Port : ~ Doubtful(p),
         ~ Refusable(s),
         socks[sock].status \notin {"ACCEPT_PENDING", "CONNECT_PENDING"},
         PortOf(socks'[sock]) \in {PORT_NONE, PortOf(s)},
         \A j \in Sock \ {sock} :
           PortOf(socks[j]) = PortOf(s) /\ PortOf(s) # PORT_NONE => ~ Unused(j),
         RecordShape(sock)', PortOf(socks'[sock]) # PORT_NONE => PortUse(sock)',
         Closes'
  PROVE  PortInv'
<1>1. PICK q \in Port : q = PortOf(s)
  OBVIOUS
<1>2. /\ Range(sock2tcp') = Range(sock2tcp) \cup {s} /\ UNCHANGED tcp2sock
      /\ OnlyAbout(q, sock2tcp, sock2tcp', SockRequestResponse)
      /\ OnlyAbout(q, tcpq, tcpq', RequestRecord)
  BY <1>1, RequestSent
<1>3. \A i \in Sock : i # sock => Calm(i)
  BY DEF Calm, OthersKept
<1>4. Elsewhere(q)
  <2>1. OnlyAbout(q, tcp2sock, tcp2sock', SockRequestResponse)
    BY <1>2, AboutSame
  <2>2. \A i \in Sock :
       \/ Calm(i)
       \/ /\ PortOf(socks'[i]) \in {PORT_NONE, q}
          /\ socks[i].status \in {"ACCEPT_PENDING", "CONNECT_PENDING"} => PortOf(socks[i]) = q
    BY <1>1, <1>3
  <2> QED BY <1>2, <2>1, <2>2 DEF Elsewhere
<1>5. q # PORT_NONE => ports'[q] # 0
  BY <1>1 DEF PortInv, Unreserved
<1>6. ASSUME NEW i \in Sock PROVE RecordShape(i)'
  BY RecordShapeKept DEF PortInv, Shapes, OthersKept
<1>7. ASSUME NEW i \in Sock, PortOf(socks'[i]) = q, q # PORT_NONE PROVE PortUse(i)'
  <2>1. CASE i = sock
    BY <1>7, <2>1
  <2>2. CASE i # sock
    <3>1. PortOf(socks[i]) = q /\ Calm(i)
      BY <1>3, <1>7, <2>2 DEF OthersKept
    <3>2. Listened(socks[i].connection) => Tcb(socks[i].connection, "LISTEN") \in tcbs'
      BY DEF Listened
    <3> QED BY <1>1, <1>7, <2>2, <3>1, <3>2, BusyUse DEF PortInv, Shapes
  <2> QED BY <2>1, <2>2
<1>8. ~ Doubtful(q)'
  BY <1>2 DEF Doubtful, Refusable, Listened
<1>9. Traffic'
  BY <1>2 DEF PortInv, Traffic
<1> QED BY <1>4, <1>5, <1>6, <1>7, <1>8, <1>9, PortsStep

\* A request answered without any effect on sockets and ports.
LEMMA RefusedPorts ==
  ASSUME TypeOK, TypeOK', PortInv, NEW d, NEW err, Refuse(d, err), UNCHANGED tcbs
  PROVE  PortInv'
<1>1. UNCHANGED <<socks, ports, tcbs, sock2tcp, tcp2sock, tcpq>>
  BY DEF Refuse, AnswerNow, tcpFifos
<1> QED BY <1>1, PortsAlone

\* mSOCKET.
LEMMA SocketPorts ==
  ASSUME TypeOK, TypeOK', PortInv, mSOCKET, UNCHANGED tcbs
  PROVE  PortInv'
<1>1. CASE Refuse(AppRequest.sockfd, "ERESOURCE_UNAVAIL")
  BY <1>1, RefusedPorts
<1>2. CASE ~ Refuse(AppRequest.sockfd, "ERESOURCE_UNAVAIL")
  <2>1. PICK sock : sock = FindFreeSock(socks)
    OBVIOUS
  <2>2. /\ socks' = [socks EXCEPT ![sock] =
             [connection |-> [@.connection EXCEPT !.protocol = AppRequest.connection.protocol],
              bin |-> @.bin, status |-> "UNBOUND", toApp |-> TRUE]]
        /\ sock >= 0 /\ UNCHANGED <<ports, tcbs, sock2tcp, tcp2sock, tcpq>>
    BY <1>2, <2>1 DEF mSOCKET, AnswerNow, tcpFifos
  <2>3. socks \in SockTable
    BY DEF TypeOK, SockTypeOK
  <2>4. sock \in Sock \ {0} /\ socks[sock].status = "FREE"
    BY <2>1, <2>2, <2>3, FindFreeSockRange, UsableSock
  <2>5. socks[sock].connection = NoConnection
    BY <2>4 DEF PortInv, Shapes, RecordShape
  <2>6. PICK c : c = [NoConnection EXCEPT !.protocol = AppRequest.connection.protocol]
    OBVIOUS
  <2>7. c.srcport = PORT_NONE
    BY <2>6 DEF NoConnection
  <2>8. /\ OthersKept(socks, socks', sock) /\ socks'[sock].status = "UNBOUND"
        /\ socks'[sock].connection = c
    BY <2>2, <2>3, <2>4, <2>5, <2>6 DEF OthersKept, SockTable
  <2>9. PortOf(socks'[sock]) = PORT_NONE
    BY <2>7, <2>8 DEF PortOf
  <2>10. RecordShape(sock)'
    BY <2>4, <2>8, <2>9, UnnamedShape
  <2> QED BY <2>2, <2>4, <2>8, <2>9, <2>10, PortsOneSocket
<1> QED BY <1>1, <1>2

\* mREAD.
LEMMA ReadPorts ==
  ASSUME TypeOK, TypeOK', CallInv, PortInv, mREAD, UNCHANGED tcbs
  PROVE  PortInv'
<1>1. PICK sock \in Sock : sock = AppRequest.sockfd
  BY RequestTaken DEF mREAD
<1>2. CASE Refuse(sock, "EINVALID_OP")
  BY <1>2, RefusedPorts
<1>3. CASE ~ Refuse(sock, "EINVALID_OP")
  <2>1. /\ UNCHANGED <<ports, tcbs, sock2tcp, tcp2sock, tcpq>>
        /\ \/ UNCHANGED socks
           \/ /\ socks' = SetStatus(socks, sock, "READ_PENDING")
              /\ \/ socks[sock].status = "CONNECTED"
                 \/ socks[sock].status = "BOUND" /\ OfUdp(sock)
    BY <1>1, <1>3 DEF mREAD, AnswerNow, tcpFifos, OfUdp
  <2>2. CASE UNCHANGED socks
    BY <2>1, <2>2, PortsAlone
  <2>3. CASE ~ UNCHANGED socks
    <3>1. /\ OthersKept(socks, socks', sock) /\ socks'[sock].status = "READ_PENDING"
          /\ socks'[sock].connection = socks[sock].connection
      BY <2>1, <2>3, SetStatusAt DEF TypeOK, SockTypeOK, Status
    <3> QED BY <2>1, <2>3, <3>1, PortsBusySocket DEF Connected
  <2> QED BY <2>2, <2>3
<1> QED BY <1>2, <1>3

\* mWRITE: the data is for a connection that others on the port do not disturb.
LEMMA WritePorts ==
  ASSUME TypeOK, TypeOK', CallInv, PortInv, mWRITE, UNCHANGED tcbs
  PROVE  PortInv'
<1>1. PICK sock \in Sock : sock = AppRequest.sockfd
  BY RequestTaken DEF mWRITE
<1>2. CASE Refuse(sock, "EINVALID_OP")
  BY <1>2, RefusedPorts
<1>3. CASE ~ Refuse(sock, "EINVALID_OP")
  <2>1. PICK s : s = Request("WRITE", socks[sock].connection, AppRequest.data)
    OBVIOUS
  <2>2. /\ socks[sock].status = "CONNECTED" /\ SendRequest(s, sock)
        /\ socks' = SetStatus(socks, sock, "WRITE_PENDING") /\ UNCHANGED ports
    BY <1>1, <1>3, <2>1 DEF mWRITE, Forward
  <2>3. s.type = "WRITE" /\ s.connection = socks[sock].connection
    BY <2>1, RequestAt
  <2>4. /\ OthersKept(socks, socks', sock) /\ socks'[sock].status = "WRITE_PENDING"
        /\ socks'[sock].connection = socks[sock].connection
    BY <2>2, SetStatusAt DEF TypeOK, SockTypeOK, Status
  <2>5. CASE OfUdp(sock)
    <3>1. UNCHANGED <<ports, tcbs, sock2tcp, tcp2sock, tcpq>>
      BY <2>2, <2>3, <2>5 DEF SendRequest, SendUDPRequest, tcpFifos, OfUdp
    <3> QED BY <2>2, <2>4, <3>1, PortsBusySocket DEF Connected
  <2>6. CASE ~OfUdp(sock)
    <3>1. SendTCPRequest(s, sock)
      BY <2>2, <2>3, <2>6 DEF SendRequest, OfUdp
    <3>2. PortOf(s) = PortOf(socks[sock]) /\ PortOf(socks'[sock]) = PortOf(s)
      BY <2>3, <2>4 DEF PortOf
    <3>3. PortOf(s) \in Port
      BY <3>2, CallTypes, MessagePort
    <3>4. /\ Named(sock)' <=> Named(sock)
          /\ OfUdp(sock)' <=> OfUdp(sock)
      BY <2>4, <3>2 DEF Named, OfUdp
    <3>5. RecordShape(sock)
      BY DEF PortInv, Shapes
    <3>6. RecordShape(sock)' /\ PortUse(sock)'
      BY <2>2, <2>4, <2>6, <3>4, <3>5 DEF RecordShape, PortUse
    <3>7. \A j \in Sock \ {sock} : PortOf(socks[j]) = PortOf(s) => ~ Unused(j)
      BY <3>2 DEF Unused, Alone
    <3>8. ~ Refusable(s)
      BY <2>3 DEF Refusable
    <3>9. Closes'
      <4>1. /\ Range(sock2tcp') = Range(sock2tcp) \cup {s} /\ s \in SockRequestResponse
        BY <3>1, RequestSent
      <4>2. sock2tcp' = Append(sock2tcp, s) /\ sock2tcp \in Seq(SockRequestResponse)
        BY <3>1 DEF SendTCPRequest, TypeOK, FifosTypeOK
      <4>3. ClosesLast(sock2tcp')
        BY <2>3, <4>1, <4>2, ClosesLastAppend DEF PortInv, Closes
      <4> QED BY <2>3, <2>4, <4>1, <4>3 DEF PortInv, Closes, OthersKept
    <3>10. (\A p : ~ Disputed(p)) /\ \A p \in Port : ~ Doubtful(p)
      BY NothingDisputed DEF mWRITE
    <3> QED BY <2>2, <2>4, <3>1, <3>2, <3>3, <3>6, <3>7, <3>8, <3>9, <3>10, PortsSend
  <2> QED BY <2>5, <2>6
<1> QED BY <1>2, <1>3

\* No other socket listens under the connection of a socket that does not wait.
LEMMA ListenerUnique ==
  ASSUME TypeOK, PortInv, NonePending, NEW sock \in Sock, NEW i \in Sock \ {sock},
         socks[i].status = "LISTENING", socks[i].connection = socks[sock].connection
  PROVE  FALSE
<1>1. PICK p : p = PortOf(socks[i])
  OBVIOUS
<1>2. PortOf(socks[sock]) = p
  BY <1>1 DEF PortOf
<1>3. /\ ~OfUdp(i) /\ p # PORT_NONE /\ ports[p] = i
      /\ socks[i].connection.dest = IP_ADDRESS_ANY
  BY <1>1 DEF PortInv, Shapes, RecordShape, Named, Held
<1>4. ~OfUdp(sock) /\ Named(sock)
  BY <1>2, <1>3 DEF OfUdp, Named
<1>5. ~ Held(sock)
  BY <1>2, <1>3 DEF Held
<1>6. RecordShape(sock) /\ socks[sock].status \in Status
  BY CallTypes DEF PortInv, Shapes
<1>7. socks[sock].status = "FREE"
  BY <1>3, <1>4, <1>5, <1>6 DEF RecordShape, NonePending, Pending, Status
<1> QED BY <1>2, <1>3, <1>6, <1>7 DEF RecordShape, NoConnection, PortOf

\* mCLOSE: the port stays reserved; what tcp_module still has to do with it concerns
\* no bound socket.
LEMMA ClosePorts ==
  ASSUME TypeOK, TypeOK', CallInv, PortInv, mCLOSE, UNCHANGED tcbs
  PROVE  PortInv'
<1>1. PICK sock \in Sock : sock = AppRequest.sockfd
  BY RequestTaken DEF mCLOSE
<1>2. CASE Refuse(sock, "EINVALID_OP")
  BY <1>2, RefusedPorts
<1>3. CASE ~ Refuse(sock, "EINVALID_OP")
  <2>1. PICK s : s = Request("CLOSE", socks[sock].connection, <<>>)
    OBVIOUS
  <2>2. SendRequest(s, sock) /\ socks' = CloseSocket(socks, sock) /\ UNCHANGED ports
    BY <1>1, <1>3, <2>1 DEF mCLOSE
  <2>3. s.type = "CLOSE" /\ s.connection = socks[sock].connection
    BY <2>1, RequestAt
  <2>4. /\ OthersKept(socks, socks', sock) /\ socks'[sock] = FreeRecord
    BY <2>2, CloseSocketAt DEF TypeOK, SockTypeOK
  <2>5. PortOf(socks'[sock]) = PORT_NONE
    BY <2>4 DEF FreeRecord, NoConnection, PortOf
  <2>6. RecordShape(sock)'
    BY <2>4, <2>5, UnnamedShape
  <2>7. NonePending /\ (\A p : ~ Disputed(p)) /\ \A p \in Port : ~ Doubtful(p)
    BY NothingDisputed DEF mCLOSE
  <2>8. socks[sock].status \notin {"ACCEPT_PENDING", "CONNECT_PENDING"}
    BY <2>7 DEF NonePending, Pending
  <2>9. CASE OfUdp(sock)
    <3>1. UNCHANGED <<ports, tcbs, sock2tcp, tcp2sock, tcpq>>
      BY <2>2, <2>3, <2>9 DEF SendRequest, SendUDPRequest, tcpFifos, OfUdp
    <3> QED BY <2>4, <2>5, <2>6, <2>8, <3>1, PortsOneSocket
  <2>10. CASE ~OfUdp(sock)
    <3>1. SendTCPRequest(s, sock)
      BY <2>2, <2>3, <2>10 DEF SendRequest, OfUdp
    <3>2. PortOf(s) = PortOf(socks[sock])
      BY <2>3 DEF PortOf
    <3>3. PortOf(s) \in Port
      BY <3>2, CallTypes, MessagePort
    <3>4. \A j \in Sock \ {sock} : PortOf(socks[j]) = PortOf(s) => ~ Unused(j)
      BY <3>2 DEF Unused, Alone
    <3>5. ~ Refusable(s)
      BY <2>3 DEF Refusable
    <3>6. Closes'
      <4>1. /\ Range(sock2tcp') = Range(sock2tcp) \cup {s} /\ s \in SockRequestResponse
        BY <3>1, RequestSent
      <4>2. sock2tcp' = Append(sock2tcp, s) /\ sock2tcp \in Seq(SockRequestResponse)
        BY <3>1 DEF SendTCPRequest, TypeOK, FifosTypeOK
      <4>3. ClosesLast(sock2tcp')
        BY <2>3, <4>1, <4>2, ClosesLastAppend DEF PortInv, Closes
      <4>4. ASSUME NEW i \in Sock, socks'[i].status \in {"LISTENING", "ACCEPT_PENDING"}
            PROVE  /\ socks'[i].connection # s.connection
                   /\ socks[i].status \in {"LISTENING", "ACCEPT_PENDING"}
                   /\ socks'[i].connection = socks[i].connection
        <5>1. i # sock /\ socks'[i] = socks[i]
          BY <2>4, <4>4 DEF OthersKept, FreeRecord
        <5>2. socks[i].status = "LISTENING"
          BY <2>7, <4>4, <5>1 DEF NonePending, Pending
        <5>3. socks[i].connection # socks[sock].connection
          BY <2>7, <5>1, <5>2, ListenerUnique
        <5> QED BY <2>3, <5>1, <5>2, <5>3
      <4>5. \A m \in Range(sock2tcp'), i \in Sock :
              m.type = "CLOSE" /\ socks'[i].status \in {"LISTENING", "ACCEPT_PENDING"}
                => m.connection # socks'[i].connection
        BY <4>1, <4>4 DEF PortInv, Closes
      <4> QED BY <4>3, <4>5 DEF Closes
    <3> QED BY <2>2, <2>4, <2>5, <2>6, <2>7, <2>8, <3>1, <3>2, <3>3, <3>4, <3>5, <3>6, PortsSend
  <2> QED BY <2>9, <2>10
<1> QED BY <1>2, <1>3

\* A socket that is bound for the first time gets a port nobody has.
LEMMA PortResolved ==
  ASSUME TypeOK, PortInv, NEW sock \in Sock, NEW port,
         port = ResolveSrcPort(ports, AppRequest.connection), port >= 0,
         AppRequest.connection \in Connection, ports' = AssignPort(ports, port, sock)
  PROVE  /\ port \in Port \ {PORT_NONE} /\ Reserved(port, sock)
         /\ Quiet(port) /\ \A j \in Sock : PortOf(socks[j]) # port
<1>1. /\ ports \in PortTable /\ port \in 1 .. NumPorts - 1 /\ ports[port] = 0
  BY ResolveSrcPortRange DEF TypeOK, SockTypeOK
<1>2. NumPorts \in Nat \ {0, 1}
  BY SockIntAssumption
<1>3. port \in Port \ {PORT_NONE} /\ \A p \in Port \ {PORT_NONE} : p \in 1 .. NumPorts - 1
  BY <1>1, <1>2 DEF Port, PORT_NONE
<1>4. Reserved(port, sock)
  BY <1>1, <1>3 DEF Reserved, AssignPort, PortTable
<1>5. Quiet(port) /\ \A j \in Sock : PortOf(socks[j]) # port
  BY <1>1, <1>3 DEF PortInv, Unreserved
<1> QED BY <1>3, <1>4, <1>5

\* mBIND.
LEMMA BindPorts ==
  ASSUME TypeOK, TypeOK', CallInv, PortInv, mBIND, UNCHANGED tcbs
  PROVE  PortInv'
<1>1. AppReceive("mBIND")
  BY DEF mBIND
<1>2. PICK sock \in Sock : sock = AppRequest.sockfd
  BY <1>1, RequestTaken
<1>3. CASE \E err : Refuse(sock, err)
  BY <1>3, RefusedPorts
<1>4. CASE ~ \E err : Refuse(sock, err)
  <2>1. PICK port : port = ResolveSrcPort(ports, AppRequest.connection)
    OBVIOUS
  <2>2. PICK c : c = LocalEnd(socks[sock].connection, AppRequest.connection, port)
    OBVIOUS
  <2>3. /\ socks[sock].status = "UNBOUND" /\ port >= 0
        /\ ports' = AssignPort(ports, port, sock)
        /\ \/ /\ c.protocol = "UDP"
              /\ socks' = [socks EXCEPT ![sock].connection = c]
              /\ Forward(Request("FORWARD", c, <<>>), sock)
           \/ /\ c.protocol # "UDP"
              /\ socks' = [socks EXCEPT ![sock].connection = c, ![sock].status = "BOUND"]
              /\ AnswerNow(sock, <<>>, "EOK")
    BY <1>2, <1>4, <2>1, <2>2 DEF mBIND
  <2>4. c.srcport = port /\ c.protocol = socks[sock].connection.protocol
    BY <2>2, LocalEndAt
  <2>5. AppRequest.connection \in Connection
    BY <1>1, RequestTaken
  <2>6. /\ port \in Port \ {PORT_NONE} /\ Reserved(port, sock)
        /\ Quiet(port) /\ \A j \in Sock : PortOf(socks[j]) # port
    BY <2>1, <2>3, <2>5, PortResolved
  <2>7. sock # 0
    BY <2>3 DEF PortInv, Shapes, RecordShape
  <2>8. socks \in SockTable
    BY DEF TypeOK, SockTypeOK
  <2>9. /\ OthersKept(socks, socks', sock) /\ socks'[sock].connection = c
        /\ socks'[sock].status = IF c.protocol = "UDP" THEN "UNBOUND" ELSE "BOUND"
    BY <2>3, <2>8, TableRecord DEF OthersKept, SockTable, SockRecord
  <2>10. PortOf(socks'[sock]) = port /\ (OfUdp(sock)' <=> c.protocol = "UDP")
    BY <2>4, <2>9 DEF PortOf, OfUdp
  <2>11. UNCHANGED <<tcbs, sock2tcp, tcp2sock, tcpq>>
    <3>1. Request("FORWARD", c, <<>>).connection = c
      BY RequestAt
    <3> QED BY <2>3, <3>1 DEF Forward, SendRequest, SendUDPRequest, AnswerNow, tcpFifos
  <2>12. \/ /\ OfUdp(sock)' /\ socks'[sock].status \in {"UNBOUND", "BOUND", "CONNECTED"}
         \/ /\ ~OfUdp(sock)' /\ socks'[sock].status \in {"BOUND", "LISTENING"}
            /\ socks'[sock].status = "LISTENING" => socks'[sock].connection.dest = IP_ADDRESS_ANY
    BY <2>9, <2>10
  <2> QED BY <2>3, <2>6, <2>7, <2>9, <2>10, <2>11, <2>12, PortTakenQuietly
<1> QED BY <1>3, <1>4

\* mLISTEN.
LEMMA ListenPorts ==
  ASSUME TypeOK, TypeOK', CallInv, PortInv, mLISTEN, UNCHANGED tcbs
  PROVE  PortInv'
<1>1. PICK sock \in Sock : sock = AppRequest.sockfd
  BY RequestTaken DEF mLISTEN
<1>2. CASE \E d, err : Refuse(d, err)
  BY <1>2, RefusedPorts
<1>3. CASE ~ \E d, err : Refuse(d, err)
  <2>1. PICK c : c = [socks[sock].connection EXCEPT !.dest = IP_ADDRESS_ANY, !.destport = PORT_ANY]
    OBVIOUS
  <2>2. /\ socks[sock].status = "BOUND" /\ ~OfUdp(sock)
        /\ socks' = [socks EXCEPT ![sock].connection = c, ![sock].status = "LISTENING"]
        /\ UNCHANGED <<ports, tcbs, sock2tcp, tcp2sock, tcpq>>
    BY <1>1, <1>3, <2>1 DEF mLISTEN, AnswerNow, tcpFifos, OfUdp
  <2>3. socks \in SockTable /\ socks[sock].connection \in Connection
    BY TableRecord DEF TypeOK, SockTypeOK
  <2>4. /\ c.srcport = socks[sock].connection.srcport /\ c.dest = IP_ADDRESS_ANY
        /\ c.protocol = socks[sock].connection.protocol
    BY <2>1, <2>3 DEF Connection
  <2>5. /\ OthersKept(socks, socks', sock) /\ socks'[sock].connection = c
        /\ socks'[sock].status = "LISTENING"
    BY <2>2, <2>3, TableRecord DEF OthersKept, SockTable, SockRecord
  <2>6. PICK q : q = PortOf(socks[sock])
    OBVIOUS
  <2>7. PortOf(socks'[sock]) = q /\ ~OfUdp(sock)'
    BY <2>2, <2>4, <2>5, <2>6 DEF PortOf, OfUdp
  <2>8. q \in Port
    BY <2>6, CallTypes, MessagePort
  <2>9. /\ q # PORT_NONE /\ ports[q] = sock /\ sock # 0 /\ Unused(sock)
    BY <2>2, <2>6 DEF PortInv, Shapes, RecordShape, PortUse, Named, Held
  <2>10. Quiet(q) /\ \A j \in Sock \ {sock} : PortOf(socks[j]) # q
    BY <2>6, <2>9 DEF Unused, Alone
  <2>11. Reserved(q, sock)
    BY <2>2, <2>9 DEF Reserved
  <2> QED BY <2>2, <2>4, <2>5, <2>7, <2>8, <2>9, <2>10, <2>11, PortTakenQuietly
<1> QED BY <1>2, <1>3

\* mACCEPT: the first one asks tcp_module for the port, which can refuse it; a
\* later one is about a port tcp_module already listens to.
LEMMA AcceptPorts ==
  ASSUME TypeOK, TypeOK', CallInv, PortInv, mACCEPT, UNCHANGED tcbs
  PROVE  PortInv'
<1>1. PICK sock \in Sock : sock = AppRequest.sockfd
  BY RequestTaken DEF mACCEPT
<1>2. CASE Refuse(sock, "EINVALID_OP")
  BY <1>2, RefusedPorts
<1>3. CASE ~ Refuse(sock, "EINVALID_OP")
  <2>1. PICK s : s = Request("ACCEPT", socks[sock].connection, <<>>)
    OBVIOUS
  <2>2. /\ socks[sock].status = "LISTENING" /\ SendRequest(s, sock)
        /\ socks' = SetStatus(socks, sock, "ACCEPT_PENDING") /\ UNCHANGED ports
    BY <1>1, <1>3, <2>1 DEF mACCEPT, Forward
  <2>3. s.type = "ACCEPT" /\ s.connection = socks[sock].connection
    BY <2>1, RequestAt
  <2>4. /\ OthersKept(socks, socks', sock) /\ socks'[sock].status = "ACCEPT_PENDING"
        /\ socks'[sock].connection = socks[sock].connection
    BY <2>2, SetStatusAt DEF TypeOK, SockTypeOK, Status
  <2>5. PICK q \in Port : q = PortOf(socks[sock])
    BY CallTypes, MessagePort
  <2>6. /\ PortOf(s) = q /\ PortOf(socks'[sock]) = q
        /\ OfUdp(sock)' <=> OfUdp(sock)
    BY <2>3, <2>4, <2>5 DEF PortOf, OfUdp
  <2>7. /\ ~OfUdp(sock) /\ q # PORT_NONE /\ ports[q] = sock /\ sock # 0
        /\ socks[sock].connection.dest = IP_ADDRESS_ANY
        /\ Listened(socks[sock].connection) \/ Unused(sock)
    BY <2>2, <2>5 DEF PortInv, Shapes, RecordShape, PortUse, Named, Held
  <2>8. SendTCPRequest(s, sock)
    BY <2>2, <2>3, <2>7 DEF SendRequest, OfUdp
  <2>9. CASE Unused(sock)
    <3>1. Quiet(q) /\ \A j \in Sock \ {sock} : PortOf(socks[j]) # q
      BY <2>5, <2>9 DEF Unused, Alone
    <3>2. Reserved(q, sock)
      BY <2>2, <2>7 DEF Reserved
    <3> QED BY <2>2, <2>3, <2>4, <2>6, <2>7, <2>8, <3>1, <3>2, PortAsked
  <2>10. CASE Listened(socks[sock].connection)
    <3>1. PICK c : c = socks[sock].connection
      OBVIOUS
    <3>2. PICK t : t = Tcb(c, "LISTEN")
      OBVIOUS
    <3>3. t \in tcbs /\ PortOf(t) = q
      BY <2>5, <2>10, <3>1, <3>2 DEF Listened, Tcb, PortOf
    <3>4. \A j \in Sock \ {sock} : PortOf(socks[j]) = PortOf(s) => ~ Unused(j)
      BY <2>6, <3>3 DEF Unused, Quiet
    <3>5. ~ Refusable(s)
      BY <2>3, <2>10 DEF Refusable
    <3>6. RecordShape(sock)'
      <4>1. Named(sock)' /\ Held(sock)'
        BY <2>2, <2>6, <2>7 DEF Named, Held
      <4> QED BY <2>4, <2>6, <2>7, <4>1 DEF RecordShape
    <3>7. PortUse(sock)'
      <4>1. Listened(c)' /\ socks'[sock].connection = c
        BY <2>4, <2>10, <3>1 DEF Listened
      <4> QED BY <2>4, <2>6, <2>7, <4>1 DEF PortUse
    <3>8. Closes'
      <4>1. /\ Range(sock2tcp') = Range(sock2tcp) \cup {s} /\ s \in SockRequestResponse
        BY <2>8, RequestSent
      <4>2. sock2tcp' = Append(sock2tcp, s) /\ sock2tcp \in Seq(SockRequestResponse)
        BY <2>8 DEF SendTCPRequest, TypeOK, FifosTypeOK
      <4>3. \A m \in Range(sock2tcp) : m.type = "CLOSE" => m.connection # s.connection
        BY <2>2, <2>3 DEF PortInv, Closes
      <4>4. ClosesLast(sock2tcp')
        BY <4>1, <4>2, <4>3, ClosesLastAppend DEF PortInv, Closes
      <4>5. \A m \in Range(sock2tcp'), i \in Sock :
              m.type = "CLOSE" /\ socks'[i].status \in {"LISTENING", "ACCEPT_PENDING"}
                => m.connection # socks'[i].connection
        BY <2>2, <2>3, <2>4, <4>1 DEF PortInv, Closes, OthersKept
      <4> QED BY <4>4, <4>5 DEF Closes
    <3>9. (\A p : ~ Disputed(p)) /\ \A p \in Port : ~ Doubtful(p)
      BY NothingDisputed DEF mACCEPT
    <3> QED BY <2>2, <2>4, <2>5, <2>6, <2>8, <3>4, <3>5, <3>6, <3>7, <3>8, <3>9, PortsSend
  <2> QED BY <2>7, <2>9, <2>10
<1> QED BY <1>2, <1>3

\* A socket is connected, from a port that is quiet.
LEMMA PortConnected ==
  ASSUME TypeOK, TypeOK', CallInv, PortInv, UNCHANGED tcbs,
         NEW sock \in Sock \ {0}, NEW q \in Port \ {PORT_NONE}, NEW c, c.srcport = q,
         socks[sock].status \in {"UNBOUND", "BOUND"}, OthersKept(socks, socks', sock),
         socks'[sock].connection = c, c.dest # IP_ADDRESS_ANY,
         socks'[sock].status = IF c.protocol = "UDP" THEN "CONNECTED" ELSE "CONNECT_PENDING",
         NEW s, s.type = (IF c.protocol = "UDP" THEN "FORWARD" ELSE "CONNECT"), s.connection = c,
         SendRequest(s, sock), Reserved(q, sock), Quiet(q),
         \A j \in Sock \ {sock} : PortOf(socks[j]) # q
  PROVE  PortInv'
<1>1. PortOf(socks'[sock]) = q /\ (OfUdp(sock)' <=> c.protocol = "UDP")
  BY DEF PortOf, OfUdp
<1>2. CASE c.protocol = "UDP"
  <2>1. UNCHANGED <<tcbs, sock2tcp, tcp2sock, tcpq>>
    BY <1>2 DEF SendRequest, SendUDPRequest, tcpFifos
  <2> QED BY <1>1, <1>2, <2>1, PortTakenQuietly
<1>3. CASE c.protocol # "UDP"
  <2>1. SendTCPRequest(s, sock)
    BY <1>3 DEF SendRequest
  <2> QED BY <1>1, <1>3, <2>1, PortAsked
<1> QED BY <1>2, <1>3

\* mCONNECT.
LEMMA ConnectPorts ==
  ASSUME TypeOK, TypeOK', CallInv, PortInv, mCONNECT, UNCHANGED tcbs
  PROVE  PortInv'
<1>1. AppReceive("mCONNECT")
  BY DEF mCONNECT
<1>2. PICK sock \in Sock : sock = AppRequest.sockfd
  BY <1>1, RequestTaken
<1>3. CASE \E err : Refuse(sock, err)
  BY <1>3, RefusedPorts
<1>4. CASE ~ \E err : Refuse(sock, err)
  <2>1. PICK port : port = ResolveSrcPort(ports, AppRequest.connection)
    OBVIOUS
  <2>2. PICK local : local = IF socks[sock].status = "BOUND" THEN socks[sock].connection
                             ELSE LocalEnd(socks[sock].connection, AppRequest.connection, port)
    OBVIOUS
  <2>3. PICK c : c = [local EXCEPT !.dest = AppRequest.connection.dest,
                                   !.destport = AppRequest.connection.destport]
    OBVIOUS
  <2>4. /\ socks[sock].status \in {"UNBOUND", "BOUND"}
        /\ socks[sock].status = "BOUND" \/ port >= 0
        /\ ports' = IF socks[sock].status = "BOUND" THEN ports ELSE AssignPort(ports, port, sock)
        /\ socks' = [socks EXCEPT ![sock].connection = c,
             ![sock].status = IF c.protocol = "UDP" THEN "CONNECTED" ELSE "CONNECT_PENDING"]
        /\ Forward(Request(IF c.protocol = "UDP" THEN "FORWARD" ELSE "CONNECT", c, <<>>), sock)
    BY <1>2, <1>4, <2>1, <2>2, <2>3 DEF mCONNECT
  <2>5. PICK s : s = Request(IF c.protocol = "UDP" THEN "FORWARD" ELSE "CONNECT", c, <<>>)
    OBVIOUS
  <2>6. /\ s.type = IF c.protocol = "UDP" THEN "FORWARD" ELSE "CONNECT"
        /\ s.connection = c /\ SendRequest(s, sock)
    BY <2>4, <2>5, RequestAt DEF Forward
  <2>7. socks \in SockTable /\ socks[sock].connection \in Connection
    BY TableRecord DEF TypeOK, SockTypeOK
  <2>8. PICK stat : stat = IF c.protocol = "UDP" THEN "CONNECTED" ELSE "CONNECT_PENDING"
    OBVIOUS
  <2>9. /\ OthersKept(socks, socks', sock) /\ socks'[sock].connection = c
        /\ socks'[sock].status = stat
    BY <2>4, <2>7, <2>8, TableRecord DEF OthersKept, SockTable, SockRecord
  <2>10. sock # 0
    BY <2>4 DEF PortInv, Shapes, RecordShape
  <2>11. AppRequest.connection \in Connection /\ AppRequest.connection.dest # IP_ADDRESS_ANY
    BY <1>1, RequestTaken, SockIntAssumption DEF ProperRequest
  <2>12. CASE socks[sock].status = "UNBOUND"
    <3>1. /\ port \in Port \ {PORT_NONE} /\ Reserved(port, sock)
          /\ Quiet(port) /\ \A j \in Sock : PortOf(socks[j]) # port
      BY <2>1, <2>4, <2>11, <2>12, PortResolved
    <3>2. c.srcport = port /\ c.dest = AppRequest.connection.dest
      BY <2>2, <2>3, <2>12 DEF LocalEnd
    <3> QED BY <2>4, <2>6, <2>8, <2>9, <2>10, <2>11, <3>1, <3>2, PortConnected
  <2>13. CASE socks[sock].status = "BOUND"
    <3>1. PICK q \in Port : q = PortOf(socks[sock])
      BY CallTypes, MessagePort
    <3>2. /\ c.srcport = q /\ c.dest = AppRequest.connection.dest
          /\ c.protocol = socks[sock].connection.protocol
      BY <2>2, <2>3, <2>7, <2>13, <3>1 DEF Connection, PortOf
    <3>3. ports' = ports
      BY <2>4, <2>13
    <3>4. CASE q = PORT_NONE
      <4>1. OfUdp(sock)
        BY <2>13, <3>1, <3>4 DEF PortInv, Shapes, RecordShape, Named
      <4>2. c.protocol = "UDP" /\ PortOf(socks'[sock]) = PORT_NONE
        BY <2>9, <3>2, <3>4, <4>1 DEF OfUdp, PortOf
      <4>3. UNCHANGED <<ports, tcbs, sock2tcp, tcp2sock, tcpq>>
        BY <2>6, <3>3, <4>2 DEF SendRequest, SendUDPRequest, tcpFifos
      <4>4. RecordShape(sock)'
        <5>1. OfUdp(sock)' /\ ~Named(sock)'
          BY <2>9, <4>2 DEF OfUdp, Named
        <5> QED BY <2>8, <2>9, <2>10, <4>2, <5>1 DEF RecordShape
      <4> QED BY <2>9, <2>13, <4>2, <4>3, <4>4, PortsOneSocket
    <3>5. CASE q # PORT_NONE
      <4>1. Held(sock) /\ Unused(sock)
        BY <2>13, <3>1, <3>5 DEF PortInv, Shapes, RecordShape, PortUse, Named
      <4>2. Quiet(q) /\ \A j \in Sock \ {sock} : PortOf(socks[j]) # q
        BY <3>1, <4>1 DEF Unused, Alone
      <4>3. Reserved(q, sock)
        BY <3>1, <3>3, <4>1 DEF Reserved, Held
      <4> QED BY <2>4, <2>6, <2>8, <2>9, <2>10, <2>11, <3>1, <3>2, <3>5, <4>2, <4>3, PortConnected
    <3> QED BY <3>4, <3>5
  <2> QED BY <2>4, <2>12, <2>13
<1> QED BY <1>3, <1>4

\* Any request of the application.
LEMMA RequestPorts ==
  ASSUME TypeOK, TypeOK', CallInv, PortInv, ProcessAppRequest, UNCHANGED tcbs
  PROVE  PortInv'
<1>1. CASE UnservedRequest
  BY <1>1, RefusedPorts DEF UnservedRequest
<1> QED BY <1>1, SocketPorts, BindPorts, ListenPorts, AcceptPorts, ConnectPorts, ReadPorts,
        WritePorts, ClosePorts DEF ProcessAppRequest

-----------------------------------------------------------------------------
(***************************************************************************)
(* sock_module and tcp_module: ports.                                      *)
(***************************************************************************)

\* tcp_module goes on listening for every socket that listens.
ListenersKept ==
  \A i \in Sock, t \in tcbs :
    socks[i].status \in {"LISTENING", "ACCEPT_PENDING"} /\ t = Tcb(socks[i].connection, "LISTEN")
      => t \in tcbs'

\* What a socket may become in a step about port q.
Proceeds(i, q) ==
  \/ Calm(i)
  \/ /\ PortOf(socks'[i]) \in {PORT_NONE, q}
     /\ socks[i].status \in {"ACCEPT_PENDING", "CONNECT_PENDING"} => PortOf(socks[i]) = q
     /\ PortOf(socks'[i]) = q /\ q # PORT_NONE => PortUse(i)'

\* A step about a port that is in use and not in dispute.
LEMMA PortsBusy ==
  ASSUME TypeOK, TypeOK', PortInv, NEW q \in Port, ~ Quiet(q), ~ Disputed(q),
         UNCHANGED ports,
         \A t : PortOf(t) # q => (t \in tcbs' <=> t \in tcbs),
         OnlyAbout(q, sock2tcp, sock2tcp', SockRequestResponse),
         OnlyAbout(q, tcp2sock, tcp2sock', SockRequestResponse),
         OnlyAbout(q, tcpq, tcpq', RequestRecord),
         ListenersKept,
         \A i \in Sock : RecordShape(i)',
         \A i \in Sock : Proceeds(i, q),
         ~ Doubtful(q)', Traffic', Closes'
  PROVE  PortInv'
<1>1. Elsewhere(q)
  BY DEF Elsewhere, Proceeds
<1>2. q # PORT_NONE => ports'[q] # 0
  BY DEF PortInv, Unreserved
<1>3. ASSUME NEW i \in Sock, PortOf(socks'[i]) = q, q # PORT_NONE PROVE PortUse(i)'
  <2>1. CASE Calm(i)
    <3>1. PortOf(socks[i]) = q
      BY <1>3, <2>1 DEF Calm, PortOf
    <3>2. ~ Unused(i)
      BY <3>1 DEF Unused
    <3>3. socks[i].status \in {"LISTENING", "ACCEPT_PENDING"} /\ Listened(socks[i].connection)
           => Tcb(socks[i].connection, "LISTEN") \in tcbs'
      BY DEF ListenersKept, Listened
    <3>4. PortUse(i)
      BY DEF PortInv, Shapes
    <3> QED BY <2>1, <3>1, <3>2, <3>3, <3>4, BusyUse
  <2>2. CASE ~ Calm(i)
    BY <1>3, <2>2 DEF Proceeds
  <2> QED BY <2>1, <2>2
<1> QED BY <1>1, <1>2, <1>3, PortsStep

\* The fields of what tcp_module knows and says.
LEMMA TcbAt ==
  /\ \A c, state : /\ Tcb(c, state).connection = c /\ Tcb(c, state).state = state
                   /\ PortOf(Tcb(c, state)) = c.srcport
  /\ \A t \in [connection : Connection, state : TcbState] : t = Tcb(t.connection, t.state)
BY DEF Tcb, PortOf

\* The fields of an answer.
LEMMA StatusReplyAt ==
  \A s, data, n, err : /\ StatusReply(s, data, n, err).type = "STATUS"
                       /\ StatusReply(s, data, n, err).connection = s.connection
                       /\ StatusReply(s, data, n, err).error = err
                       /\ PortOf(StatusReply(s, data, n, err)) = PortOf(s)
BY DEF StatusReply, PortOf

\* What tcp_module passes up.
LEMMA IndicateAt ==
  ASSUME NEW c, NEW data, NEW err, Indicate(c, data, err)
  PROVE  \E m : /\ tcp2sock' = Append(tcp2sock, m)
                /\ m.type = "WRITE" /\ m.connection = c
                /\ m.data = data /\ m.error = err
BY DEF Indicate

\* What a network event does: it concerns one connection tcp_module knows.
LEMMA NetworkEvent ==
  ASSUME TypeOK, PortInv, TcpNetwork
  PROVE  \E t, u, m :
           /\ t \in tcbs
           /\ tcbs' \in {tcbs, tcbs \cup {u}, (tcbs \ {t}) \cup {u}}
           /\ tcbs' = tcbs \/ u.state # "LISTEN"
           /\ tcbs' = (tcbs \ {t}) \cup {u} => t.state # "LISTEN"
           /\ u.connection.dest # IP_ADDRESS_ANY /\ PortOf(u) = PortOf(t)
           /\ tcp2sock' = Append(tcp2sock, m)
           /\ m.type = "WRITE" /\ m.connection = u.connection
<1>1. PICK t \in tcbs :
       \/ \E err \in {"EOK", "ECONN_FAILED"} :
            \/ ConnectOutcome(t, err)
            \/ \E host \in Remotes, port \in PeerPorts : Arrival(t, host, port, err)
       \/ \E len \in 0 .. MaxSegmentLen : Received(t, len)
  BY DEF TcpNetwork
<1>2. /\ t \in [connection : Connection, state : TcbState]
      /\ t.connection \in Connection
      /\ t.state # "LISTEN" => t.connection.dest # IP_ADDRESS_ANY
  BY DEF TypeOK, TcpTypeOK, PortInv, Traffic
<1>3. ASSUME NEW err, ConnectOutcome(t, err) PROVE
        \E u, m : /\ tcbs' = (tcbs \ {t}) \cup {u} /\ u.state # "LISTEN" /\ t.state # "LISTEN"
                  /\ u.connection = t.connection
                  /\ tcp2sock' = Append(tcp2sock, m)
                  /\ m.type = "WRITE" /\ m.connection = u.connection
  <2>1. PICK u : u = Offer(t.connection, err)
    OBVIOUS
  <2>2. u.connection = t.connection /\ u.state # "LISTEN"
    BY <2>1 DEF Offer, Tcb
  <2>3. /\ tcbs' = (tcbs \ {t}) \cup {u} /\ t.state # "LISTEN"
        /\ Indicate(t.connection, <<>>, err)
    BY <1>3, <2>1 DEF ConnectOutcome
  <2> QED BY <2>2, <2>3, IndicateAt
<1>4. ASSUME NEW host \in Remotes, NEW port, NEW err, Arrival(t, host, port, err) PROVE
        \E u, m : /\ tcbs' = tcbs \cup {u} /\ u.state # "LISTEN"
                  /\ u.connection.dest = host /\ PortOf(u) = PortOf(t)
                  /\ tcp2sock' = Append(tcp2sock, m)
                  /\ m.type = "WRITE" /\ m.connection = u.connection
  <2>1. PICK c : c = [t.connection EXCEPT !.dest = host, !.destport = port]
    OBVIOUS
  <2>2. c.dest = host /\ c.srcport = PortOf(t)
    BY <1>2, <2>1 DEF Connection, PortOf
  <2>3. PICK u : u = Offer(c, err)
    OBVIOUS
  <2>4. u.connection = c /\ u.state # "LISTEN" /\ PortOf(u) = PortOf(t)
    BY <2>2, <2>3 DEF Offer, Tcb, PortOf
  <2>5. tcbs' = tcbs \cup {u} /\ Indicate(c, <<>>, err)
    BY <1>4, <2>1, <2>3 DEF Arrival
  <2> QED BY <2>2, <2>4, <2>5, IndicateAt
<1>5. ASSUME NEW len, Received(t, len) PROVE
        \E m : /\ tcbs' = tcbs /\ t.state # "LISTEN"
               /\ tcp2sock' = Append(tcp2sock, m)
               /\ m.type = "WRITE" /\ m.connection = t.connection
  <2>1. /\ tcbs' = tcbs /\ t.state # "LISTEN"
        /\ \E data : Indicate(t.connection, data, "EOK")
    BY <1>5 DEF Received
  <2> QED BY <2>1, IndicateAt
<1>6. \A host \in Remotes : host # IP_ADDRESS_ANY
  BY SockIntAssumption
<1>7. CASE \E err \in {"EOK", "ECONN_FAILED"} : ConnectOutcome(t, err)
  BY <1>2, <1>3, <1>7 DEF PortOf
<1>8. CASE \E err \in {"EOK", "ECONN_FAILED"}, host \in Remotes, port \in PeerPorts :
             Arrival(t, host, port, err)
  BY <1>4, <1>6, <1>8
<1>9. CASE \E len \in 0 .. MaxSegmentLen : Received(t, len)
  BY <1>2, <1>5, <1>9
<1> QED BY <1>1, <1>7, <1>8, <1>9

\* Network events.
LEMMA NetworkPorts ==
  ASSUME TypeOK, TypeOK', PortInv, TcpFromNetwork
  PROVE  PortInv'
<1>1. TcpNetwork /\ UNCHANGED <<socks, ports, tcpq, sock2tcp>>
  BY DEF TcpFromNetwork, TcpNetwork, sockVars
<1>2. PICK t, u, m :
           /\ t \in tcbs
           /\ tcbs' \in {tcbs, tcbs \cup {u}, (tcbs \ {t}) \cup {u}}
           /\ tcbs' = tcbs \/ u.state # "LISTEN"
           /\ tcbs' = (tcbs \ {t}) \cup {u} => t.state # "LISTEN"
           /\ u.connection.dest # IP_ADDRESS_ANY /\ PortOf(u) = PortOf(t)
           /\ tcp2sock' = Append(tcp2sock, m)
           /\ m.type = "WRITE" /\ m.connection = u.connection
  BY <1>1, NetworkEvent
<1>3. PICK q : q = PortOf(t)
  OBVIOUS
<1>4. q \in Port /\ q # PORT_NONE
  BY <1>2, <1>3, MessagePort DEF TypeOK, TcpTypeOK, PortInv, Traffic
<1>5. PortOf(m) = q /\ PortOf(u) = q
  BY <1>2, <1>3 DEF PortOf
<1>6. ~ Quiet(q) /\ ~ Disputed(q)
  BY <1>2, <1>3 DEF Quiet, Disputed, Undecided, UndecidedOver
<1>7. \A v : PortOf(v) # q => (v \in tcbs' <=> v \in tcbs)
  BY <1>2, <1>3, <1>5
<1>8. \A v \in tcbs : v.state = "LISTEN" => v \in tcbs'
  BY <1>2
<1>9. ListenersKept
  BY <1>8, TcbAt DEF ListenersKept
<1>10. /\ m \in SockRequestResponse /\ Range(tcp2sock') = Range(tcp2sock) \cup {m}
       /\ OnlyAbout(q, tcp2sock, tcp2sock', SockRequestResponse)
  <2>1. tcp2sock \in Seq(SockRequestResponse) /\ tcp2sock' \in Seq(SockRequestResponse)
    BY DEF TypeOK, FifosTypeOK
  <2>2. m \in SockRequestResponse
    BY <1>2, <2>1, Appended
  <2> QED BY <1>2, <1>5, <2>1, <2>2, RangeAppend, AboutAppend
<1>11. /\ OnlyAbout(q, sock2tcp, sock2tcp', SockRequestResponse)
       /\ OnlyAbout(q, tcpq, tcpq', RequestRecord)
  BY <1>1, AboutSame
<1>12. \A i \in Sock : RecordShape(i)'
  BY <1>1, RecordShapeKept DEF PortInv, Shapes
<1>13. \A i \in Sock : Proceeds(i, q)
  BY <1>1 DEF Proceeds, Calm
<1>14. ~ Doubtful(q)'
  <2>1. ~ Doubtful(q)
    BY <1>4, <1>6 DEF PortInv, Doubts
  <2>2. \A c : Listened(c) => Listened(c)'
    BY <1>8, TcbAt DEF Listened
  <2> QED BY <1>1, <1>2, <1>10, <2>1, <2>2 DEF Doubtful, Refusal, Refusable
<1>15. Traffic'
  BY <1>2, <1>3, <1>4, <1>5, <1>10 DEF PortInv, Traffic
<1>16. Closes'
  BY <1>1 DEF PortInv, Closes, ClosesLast
<1> QED BY <1>1, <1>4, <1>6, <1>7, <1>9, <1>10, <1>11, <1>12, <1>13, <1>14, <1>15, <1>16, PortsBusy

\* What tcp_module keeps of its connections when it serves req.
Remembers(req) ==
  /\ \A t : PortOf(t) # PortOf(req) => (t \in tcbs' <=> t \in tcbs)
  /\ \A t \in tcbs : t.state = "LISTEN" /\ t \notin tcbs'
       => req.type = "CLOSE" /\ t.connection = req.connection
  /\ \A t \in tcbs' : \E u \in tcbs : /\ u.connection = t.connection
                                      /\ t.state # "LISTEN" => u.state # "LISTEN"

\* It answers, if at all, that all is well.
Complies(req) ==
  \/ tcp2sock' = tcp2sock
  \/ \E m : /\ tcp2sock' = Append(tcp2sock, m) /\ m.type = "STATUS"
            /\ m.error = "EOK" /\ m.connection = req.connection

\* What is no request for a port is never refused.
LEMMA TcpServes ==
  ASSUME TypeOK, TcpHandleSock, NEW req, req = Head(sock2tcp), ~ Refusable(req)
  PROVE  Remembers(req) /\ Complies(req)
<1>1. ASSUME NEW n, TCPReply(req, n, "EOK") PROVE Complies(req)
  BY <1>1, StatusReplyAt DEF TCPReply, Complies
<1>2. \A t \in tcbs : t \in [connection : Connection, state : TcbState]
  BY DEF TypeOK, TcpTypeOK
<1>3. tcbs' = tcbs => Remembers(req)
  BY DEF Remembers
<1>4. CASE req.type = "ACCEPT"
  <2>1. Open(req, "LISTEN")
    BY <1>4 DEF TcpHandleSock
  <2>2. Tcb(req.connection, "LISTEN") \in tcbs
    BY <1>4 DEF Refusable, Listened
  <2>3. tcbs' = tcbs /\ TCPReply(req, 0, "EOK")
    BY <2>1, <2>2 DEF Open
  <2> QED BY <1>1, <1>3, <2>3
<1>5. CASE req.type = "WRITE"
  <2>1. tcbs' = tcbs /\ TCPReply(req, Len(req.data), "EOK")
    BY <1>5 DEF TcpHandleSock
  <2> QED BY <1>1, <1>3, <2>1
<1>6. CASE req.type = "CLOSE"
  <2>1. tcbs' = {t \in tcbs : t.connection # req.connection} /\ TCPReply(req, 0, "EOK")
    BY <1>6 DEF TcpHandleSock
  <2>2. Remembers(req)
    BY <1>6, <2>1 DEF Remembers, PortOf
  <2> QED BY <1>1, <2>1, <2>2
<1>7. CASE req.type = "STATUS"
  <2>1. /\ tcbs' = {Settle(t, req) : t \in {u \in tcbs : ~Dropped(u, req)}}
        /\ UNCHANGED tcp2sock
    BY <1>7 DEF TcpHandleSock
  <2>2. ASSUME NEW t \in tcbs
        PROVE  /\ Settle(t, req).connection = t.connection
               /\ Settle(t, req).state = "LISTEN" <=> t.state = "LISTEN"
               /\ PortOf(t) # PortOf(req) => Settle(t, req) = t /\ ~Dropped(t, req)
               /\ t.state = "LISTEN" => Settle(t, req) = t /\ ~Dropped(t, req)
    BY DEF Settle, Dropped, Tcb, PortOf
  <2>3. \A t : PortOf(t) # PortOf(req) => (t \in tcbs' <=> t \in tcbs)
    BY <2>1, <2>2 DEF PortOf
  <2>4. \A t \in tcbs : t.state = "LISTEN" => t \in tcbs'
    BY <2>1, <2>2
  <2>5. \A t \in tcbs' : \E u \in tcbs : /\ u.connection = t.connection
                                         /\ t.state # "LISTEN" => u.state # "LISTEN"
    BY <2>1, <2>2
  <2>6. Remembers(req)
    BY <2>3, <2>4, <2>5 DEF Remembers
  <2> QED BY <2>1, <2>6 DEF Complies
<1> QED BY <1>4, <1>5, <1>6, <1>7 DEF TcpHandleSock, Refusable

\* What sock_module has sent to tcp_module when tcp_module takes req.
LEMMA TcpTakes ==
  ASSUME TypeOK, TypeOK', PortInv, TcpFromSock, NEW req, req = Head(sock2tcp)
  PROVE  /\ req \in SockRequestResponse /\ PortOf(req) \in Port
         /\ req \in Range(sock2tcp) /\ Range(sock2tcp') \subseteq Range(sock2tcp)
         /\ OnlyAbout(PortOf(req), sock2tcp, sock2tcp', SockRequestResponse)
         /\ OnlyAbout(PortOf(req), tcpq, tcpq', RequestRecord)
         /\ UNCHANGED <<socks, ports, tcpq>> /\ TcpHandleSock
         /\ \A i \in Sock : RecordShape(i)' /\ Calm(i)
         /\ Closes'
         /\ req.type = "CLOSE" =>
              \A m \in Range(sock2tcp') :
                m.type = "ACCEPT" => m.connection # req.connection
<1>1. /\ UNCHANGED <<socks, ports, tcpq>> /\ TcpHandleSock
      /\ sock2tcp # <<>> /\ sock2tcp' = Tail(sock2tcp)
  BY DEF TcpFromSock, sockVars, TcpHandleSock
<1>2. sock2tcp \in Seq(SockRequestResponse)
  BY DEF TypeOK, FifosTypeOK
<1>3. /\ req \in SockRequestResponse /\ req \in Range(sock2tcp)
      /\ Range(sock2tcp') \subseteq Range(sock2tcp)
      /\ OnlyAbout(PortOf(req), sock2tcp, sock2tcp', SockRequestResponse)
  BY <1>1, <1>2, RangeTail, AboutTail, AtTail
<1>4. PortOf(req) \in Port
  BY <1>3, MessagePort
<1>5. \A i \in Sock : RecordShape(i)' /\ Calm(i)
  BY <1>1, RecordShapeKept DEF PortInv, Shapes, Calm
<1>6. /\ ClosesLast(sock2tcp')
      /\ req.type = "CLOSE" =>
              \A m \in Range(sock2tcp') : m.type = "ACCEPT" => m.connection # req.connection
  BY <1>1, <1>2, ClosesLastTail DEF PortInv, Closes
<1>7. Closes'
  BY <1>1, <1>3, <1>6 DEF PortInv, Closes
<1> QED BY <1>1, <1>3, <1>4, <1>5, <1>6, <1>7, AboutSame

\* tcp_module serves what is no request for a port.
LEMMA ServedPorts ==
  ASSUME TypeOK, TypeOK', PortInv, TcpFromSock, ~ Refusable(Head(sock2tcp))
  PROVE  PortInv'
<1>1. PICK req : req = Head(sock2tcp)
  OBVIOUS
<1>2. /\ req \in SockRequestResponse /\ PortOf(req) \in Port
      /\ req \in Range(sock2tcp) /\ Range(sock2tcp') \subseteq Range(sock2tcp)
      /\ OnlyAbout(PortOf(req), sock2tcp, sock2tcp', SockRequestResponse)
      /\ OnlyAbout(PortOf(req), tcpq, tcpq', RequestRecord)
      /\ UNCHANGED <<socks, ports, tcpq>> /\ TcpHandleSock
      /\ \A i \in Sock : RecordShape(i)' /\ Calm(i)
      /\ Closes'
      /\ req.type = "CLOSE" =>
           \A m \in Range(sock2tcp') : m.type = "ACCEPT" => m.connection # req.connection
  BY <1>1, TcpTakes
<1>3. Remembers(req) /\ Complies(req)
  BY <1>1, <1>2, TcpServes
<1>4. PICK q \in Port : q = PortOf(req)
  BY <1>2
<1>5. ~ Quiet(q)
  BY <1>2, <1>4 DEF Quiet
<1>6. ~ Disputed(q)
  <2> SUFFICES ASSUME NEW i \in Sock, Undecided(i), PortOf(socks[i]) = q
               PROVE  FALSE
    BY DEF Disputed
  <2>1. \A t \in tcbs : PortOf(t) # q
    BY DEF Undecided, UndecidedOver
  <2>2. req.type \in {"CONNECT", "ACCEPT"}
    BY <1>2, <1>4 DEF Undecided, UndecidedOver, Opening
  <2>3. req.type = "ACCEPT" /\ Tcb(req.connection, "LISTEN") \in tcbs
    BY <1>1, <2>2 DEF Refusable, Listened
  <2> QED BY <1>4, <2>1, <2>3, TcbAt DEF PortOf
<1>7. ~ Doubtful(q)
  BY <1>6 DEF PortInv, Doubts
<1>8. /\ OnlyAbout(q, tcp2sock, tcp2sock', SockRequestResponse)
      /\ \A m \in Range(tcp2sock') :
           m \notin Range(tcp2sock) => m.type = "STATUS" /\ m.error = "EOK"
  <2>1. CASE tcp2sock' = tcp2sock
    <3>1. OnlyAbout(q, tcp2sock, tcp2sock', SockRequestResponse)
      BY <2>1, AboutSame
    <3>2. Range(tcp2sock') = Range(tcp2sock)
      BY <2>1
    <3> QED BY <3>1, <3>2
  <2>2. CASE tcp2sock' # tcp2sock
    <3>1. PICK m : /\ tcp2sock' = Append(tcp2sock, m) /\ m.type = "STATUS"
                   /\ m.error = "EOK" /\ m.connection = req.connection
      BY <1>3, <2>2 DEF Complies
    <3>2. tcp2sock \in Seq(SockRequestResponse) /\ tcp2sock' \in Seq(SockRequestResponse)
      BY DEF TypeOK, FifosTypeOK
    <3>3. m \in SockRequestResponse
      BY <3>1, <3>2, Appended
    <3>4. PortOf(m) = q
      BY <1>4, <3>1 DEF PortOf
    <3>5. Range(tcp2sock') = Range(tcp2sock) \cup {m}
      BY <3>1, <3>2, <3>3, RangeAppend
    <3>6. OnlyAbout(q, tcp2sock, tcp2sock', SockRequestResponse)
      BY <3>1, <3>2, <3>3, <3>4, AboutAppend
    <3> QED BY <3>1, <3>5, <3>6
  <2> QED BY <2>1, <2>2
<1>9. ListenersKept
  <2> SUFFICES ASSUME NEW i \in Sock, socks[i].status \in {"LISTENING", "ACCEPT_PENDING"},
                      NEW t \in tcbs, t = Tcb(socks[i].connection, "LISTEN"), t \notin tcbs'
               PROVE  FALSE
    BY DEF ListenersKept
  <2>1. t.state = "LISTEN" /\ t.connection = socks[i].connection
    BY TcbAt
  <2>2. req.type = "CLOSE" /\ socks[i].connection = req.connection
    BY <1>3, <2>1 DEF Remembers
  <2> QED BY <1>2, <2>2 DEF PortInv, Closes
<1>10. ~ Doubtful(q)'
  <2>1. \A m \in Range(tcp2sock') : PortOf(m) = q => ~ Refusal(m)
    BY <1>7, <1>8 DEF Doubtful, Refusal
  <2>2. ASSUME NEW m \in Range(sock2tcp'), PortOf(m) = q PROVE ~ Refusable(m)'
    <3>1. ~ Refusable(m)
      BY <1>2, <1>7, <2>2 DEF Doubtful
    <3>2. ASSUME m.type = "ACCEPT" PROVE Tcb(m.connection, "LISTEN") \in tcbs'
      <4>1. Tcb(m.connection, "LISTEN") \in tcbs
        BY <3>1, <3>2 DEF Refusable, Listened
      <4>2. ~ (req.type = "CLOSE" /\ m.connection = req.connection)
        BY <1>2, <2>2, <3>2
      <4> QED BY <1>3, <4>1, <4>2, TcbAt DEF Remembers
    <3> QED BY <3>1, <3>2 DEF Refusable, Listened
  <2> QED BY <2>1, <2>2 DEF Doubtful
<1>11. Traffic'
  <2>1. \A t \in tcbs' : /\ PortOf(t) # PORT_NONE
                         /\ t.state # "LISTEN" => t.connection.dest # IP_ADDRESS_ANY
    BY <1>3 DEF Remembers, PortInv, Traffic, PortOf
  <2> QED BY <1>8, <2>1 DEF PortInv, Traffic
<1>12. \A t : PortOf(t) # q => (t \in tcbs' <=> t \in tcbs)
  BY <1>3, <1>4 DEF Remembers
<1> QED BY <1>2, <1>4, <1>5, <1>6, <1>8, <1>9, <1>10, <1>11, <1>12, PortsBusy DEF Proceeds

\* What tcp_module answers to a request for a port.
LEMMA TcpAnswers ==
  ASSUME TcpHandleSock, NEW req, req = Head(sock2tcp), req.type \in {"CONNECT", "ACCEPT"}
  PROVE  \E m : /\ tcp2sock' = Append(tcp2sock, m)
                /\ m.type = "STATUS" /\ m.connection = req.connection
                /\ \/ /\ m.error = "EOK" /\ req.type = "CONNECT"
                      /\ tcbs' = tcbs \cup {Tcb(req.connection, "SYN_SENT")}
                   \/ /\ m.error = "EOK" /\ req.type = "ACCEPT"
                      /\ tcbs' = tcbs \cup {Tcb(req.connection, "LISTEN")}
                   \/ m.error # "EOK" /\ tcbs' = tcbs
<1>1. \/ req.type = "CONNECT" /\ Open(req, "SYN_SENT")
      \/ req.type = "ACCEPT" /\ Open(req, "LISTEN")
  BY DEF TcpHandleSock
<1>2. ASSUME NEW n, NEW err, TCPReply(req, n, err)
      PROVE  \E m : /\ tcp2sock' = Append(tcp2sock, m) /\ m.type = "STATUS"
                    /\ m.connection = req.connection /\ m.error = err
  BY <1>2, StatusReplyAt DEF TCPReply
<1>3. ASSUME NEW state, Open(req, state)
      PROVE  \E m : /\ tcp2sock' = Append(tcp2sock, m)
                    /\ m.type = "STATUS" /\ m.connection = req.connection
                    /\ \/ m.error = "EOK" /\ tcbs' = tcbs \cup {Tcb(req.connection, state)}
                       \/ m.error # "EOK" /\ tcbs' = tcbs
  <2>1. \/ /\ tcbs' = tcbs \cup {Tcb(req.connection, state)}
           /\ TCPReply(req, 0, "EOK")
        \/ TCPReply(req, 0, "ECONN_FAILED") /\ tcbs' = tcbs
    BY <1>3 DEF Open
  <2> QED BY <1>2, <2>1
<1>4. CASE req.type = "CONNECT"
  BY <1>1, <1>3, <1>4
<1>5. CASE req.type = "ACCEPT"
  BY <1>1, <1>3, <1>5
<1> QED BY <1>4, <1>5

\* tcp_module takes the first request for a port, or refuses it.
LEMMA AskedPorts ==
  ASSUME TypeOK, TypeOK', PortInv, TcpFromSock, Refusable(Head(sock2tcp))
  PROVE  PortInv'
<1>1. PICK req : req = Head(sock2tcp)
  OBVIOUS
<1>2. /\ req \in SockRequestResponse /\ PortOf(req) \in Port
      /\ req \in Range(sock2tcp) /\ Range(sock2tcp') \subseteq Range(sock2tcp)
      /\ OnlyAbout(PortOf(req), sock2tcp, sock2tcp', SockRequestResponse)
      /\ OnlyAbout(PortOf(req), tcpq, tcpq', RequestRecord)
      /\ UNCHANGED <<socks, ports, tcpq>> /\ TcpHandleSock
      /\ \A j \in Sock : RecordShape(j)' /\ Calm(j)
      /\ Closes'
  BY <1>1, TcpTakes
<1>3. PICK q \in Port : q = PortOf(req)
  BY <1>2
<1>4. Disputed(q)
  BY <1>1, <1>2, <1>3 DEF PortInv, Doubts, Doubtful
<1>5. PICK i \in Sock : /\ socks[i].status \in {"CONNECT_PENDING", "ACCEPT_PENDING"}
                        /\ PortOf(socks[i]) = q /\ Undecided(i)
  BY <1>4 DEF Disputed
<1>6. q # PORT_NONE
  BY <1>4, DisputedNamed DEF PortInv
<1>7. PICK c : c = socks[i].connection
  OBVIOUS
<1>8. UndecidedOver(i, c, q)
  BY <1>5, <1>7 DEF Undecided
<1>9. req.connection = c /\ req.type = Opening(i)
  BY <1>2, <1>3, <1>8 DEF UndecidedOver
<1>10. PICK m : /\ tcp2sock' = Append(tcp2sock, m)
                /\ m.type = "STATUS" /\ m.connection = c
                /\ \/ /\ m.error = "EOK" /\ req.type = "CONNECT"
                      /\ tcbs' = tcbs \cup {Tcb(c, "SYN_SENT")}
                   \/ /\ m.error = "EOK" /\ req.type = "ACCEPT"
                      /\ tcbs' = tcbs \cup {Tcb(c, "LISTEN")}
                   \/ m.error # "EOK" /\ tcbs' = tcbs
  BY <1>1, <1>2, <1>9, TcpAnswers DEF Opening
<1>11. /\ sock2tcp \in Seq(SockRequestResponse) /\ sock2tcp # <<>> /\ sock2tcp' = Tail(sock2tcp)
       /\ tcp2sock \in Seq(SockRequestResponse) /\ tcp2sock' \in Seq(SockRequestResponse)
  BY <1>2 DEF TypeOK, FifosTypeOK, TcpHandleSock
<1>12. m \in SockRequestResponse
  BY <1>10, <1>11, Appended
<1>13. PortOf(m) = q /\ c.srcport = q
  BY <1>5, <1>7, <1>10 DEF PortOf
<1>14. Range(tcp2sock') = Range(tcp2sock) \cup {m}
  BY <1>10, <1>11, <1>12, RangeAppend
<1>15. OnlyAbout(q, tcp2sock, tcp2sock', SockRequestResponse)
  BY <1>10, <1>11, <1>12, <1>13, AboutAppend
<1>16. \A t : PortOf(t) # q => (t \in tcbs' <=> t \in tcbs)
  BY <1>10, <1>13, TcbAt
<1>17. Elsewhere(q)
  BY <1>2, <1>3, <1>15, <1>16 DEF Elsewhere
<1>18. \A n \in Range(sock2tcp') : PortOf(n) # q
  <2>1. req \in MessagesOf(q) /\ Once(sock2tcp, MessagesOf(q))
    BY <1>2, <1>3, <1>8 DEF MessagesOf, UndecidedOver
  <2>2. Range(sock2tcp') \cap MessagesOf(q) = {}
    BY <1>1, <1>11, <2>1, OnceTail
  <2>3. Range(sock2tcp') \subseteq SockRequestResponse
    BY <1>2, <1>11, RangeBasics
  <2> QED BY <2>2, <2>3 DEF MessagesOf
<1>19. \A n \in Range(tcp2sock) : PortOf(n) # q
  BY <1>2, <1>3, <1>8 DEF UndecidedOver
<1>20. RecordShape(i) /\ ~OfUdp(i)
  BY <1>5 DEF PortInv, Shapes, RecordShape
<1>21. ~OfUdp(i)' /\ Alone(i)'
  BY <1>2, <1>8, <1>20 DEF OfUdp, Alone, UndecidedOver, PortOf
<1>22. m.error # "EOK" => Undecided(i)'
  <2> SUFFICES ASSUME m.error # "EOK" PROVE Undecided(i)'
    OBVIOUS
  <2>1. tcbs' = tcbs
    BY <1>10
  <2>2. Opening(i)' = Opening(i)
    BY <1>2 DEF Opening
  <2>3. Once(sock2tcp', MessagesOf(q))
    BY <1>8, <1>11, OnceTail DEF UndecidedOver
  <2>4. Once(tcp2sock', MessagesOf(q))
    <3>1. Range(tcp2sock) \cap MessagesOf(q) = {}
      BY <1>19 DEF MessagesOf
    <3> QED BY <1>8, <1>10, <1>11, <1>12, <3>1, OnceAppend DEF UndecidedOver
  <2>5. \A n \in Range(tcp2sock') : PortOf(n) = q => n.type = "STATUS" /\ n.error # "EOK"
    BY <1>10, <1>14, <1>19
  <2>6. UndecidedOver(i, c, q)'
    BY <1>2, <1>8, <1>18, <1>21, <2>1, <2>2, <2>3, <2>4, <2>5 DEF UndecidedOver
  <2>7. socks'[i].connection = c /\ PortOf(socks'[i]) = q
    BY <1>2, <1>5, <1>7
  <2> QED BY <2>6, <2>7 DEF Undecided
<1>23. ASSUME NEW j \in Sock, PortOf(socks'[j]) = q PROVE PortUse(j)'
  <2>1. j = i
    BY <1>2, <1>5, <1>8, <1>23 DEF UndecidedOver, Alone
  <2>2. socks[i].status = "ACCEPT_PENDING" /\ m.error = "EOK" => Listened(c)'
    BY <1>9, <1>10 DEF Listened, Opening
  <2>3. socks[i].status = "ACCEPT_PENDING" => Listened(c)' \/ Undecided(i)'
    BY <1>22, <2>2
  <2>4. PortUse(i)'
    BY <1>2, <1>5, <1>7, <1>21, <2>3 DEF PortUse
  <2> QED BY <2>1, <2>4
<1>24. Doubtful(q)' => Disputed(q)'
  <2>1. CASE m.error = "EOK"
    BY <1>14, <1>18, <1>19, <2>1 DEF Doubtful, Refusal
  <2>2. CASE m.error # "EOK"
    <3>1. socks'[i].status \in {"CONNECT_PENDING", "ACCEPT_PENDING"} /\ PortOf(socks'[i]) = q
      BY <1>2, <1>5
    <3> QED BY <1>22, <2>2, <3>1 DEF Disputed
  <2> QED BY <2>1, <2>2
<1>25. Traffic'
  <2>1. req.type = "CONNECT" => c.dest # IP_ADDRESS_ANY
    BY <1>5, <1>7, <1>9, <1>20 DEF Opening, RecordShape
  <2>2. \A t \in tcbs' : \/ t \in tcbs
                         \/ t = Tcb(c, "LISTEN")
                         \/ t = Tcb(c, "SYN_SENT") /\ c.dest # IP_ADDRESS_ANY
    BY <1>10, <2>1
  <2>3. \A t \in tcbs' : /\ PortOf(t) # PORT_NONE
                         /\ t.state # "LISTEN" => t.connection.dest # IP_ADDRESS_ANY
    BY <1>6, <1>13, <2>2, TcbAt DEF PortInv, Traffic
  <2> QED BY <1>10, <1>14, <2>3 DEF PortInv, Traffic
<1>26. ports'[q] # 0
  BY <1>2, <1>5, <1>6 DEF PortInv, Unreserved
<1> QED BY <1>2, <1>17, <1>23, <1>24, <1>25, <1>26, PortsStep

\* A socket that listens after a step listened to the same connection before.
ListensOn(i) ==
  socks'[i].status \in {"LISTENING", "ACCEPT_PENDING"}
    => /\ socks[i].status \in {"LISTENING", "ACCEPT_PENDING"}
       /\ socks'[i].connection = socks[i].connection

\* What becomes of a socket in a step of sock_module about port q.
Settles(i, q) == RecordShape(i)' /\ Proceeds(i, q) /\ ListensOn(i)

\* A socket that does not change.
LEMMA SettlesSame ==
  ASSUME TypeOK, PortInv, UNCHANGED ports, NEW q, NEW i \in Sock,
         socks'[i].connection = socks[i].connection, socks'[i].status = socks[i].status
  PROVE  Settles(i, q)
<1>1. RecordShape(i)'
  BY RecordShapeKept DEF PortInv, Shapes
<1> QED BY <1>1 DEF Settles, Proceeds, Calm, ListensOn

\* The socket an incoming message is for has its port and protocol.
LEMMA AnswersPort ==
  ASSUME NEW record, NEW c \in Connection, Answers(record, c)
  PROVE  /\ record.connection.srcport = c.srcport
         /\ record.connection.protocol = c.protocol
BY DEF Answers, Connection

\* A connected socket reads or writes, or ends doing so.
LEMMA SettlesConnected ==
  ASSUME TypeOK, PortInv, UNCHANGED ports, NEW q, NEW i \in Sock,
         socks'[i].connection = socks[i].connection,
         socks[i].status \in Connected, socks'[i].status \in Connected
  PROVE  Settles(i, q)
<1>1. PortOf(socks'[i]) = PortOf(socks[i])
  BY DEF PortOf
<1>2. (OfUdp(i)' <=> OfUdp(i)) /\ (Named(i)' <=> Named(i)) /\ (Held(i)' <=> Held(i))
  BY <1>1 DEF OfUdp, Named, Held
<1>3. RecordShape(i)'
  BY <1>2 DEF PortInv, Shapes, RecordShape, Connected
<1> QED BY <1>3 DEF Settles, Proceeds, Calm, ListensOn, Connected

\* The outcome of a connect: the socket is connected, or free again.
LEMMA ConnectSettles ==
  ASSUME TypeOK, PortInv, UNCHANGED ports, NEW q, NEW sock \in Sock, NEW s,
         PortOf(socks[sock]) = q, socks[sock].status = "CONNECT_PENDING",
         CompleteConnect(s, sock)
  PROVE  \A i \in Sock : Settles(i, q)
<1>1. /\ OthersKept(socks, socks', sock)
      /\ \/ socks'[sock] = FreeRecord
         \/ /\ socks'[sock].status = "CONNECTED"
            /\ socks'[sock].connection = socks[sock].connection
  BY CloseSocketAt, SetStatusAt DEF CompleteConnect, TypeOK, SockTypeOK, Status
<1>2. \A i \in Sock : i # sock => Settles(i, q)
  BY <1>1, SettlesSame DEF OthersKept
<1>3. CASE socks'[sock] = FreeRecord
  <2>1. PortOf(socks'[sock]) = PORT_NONE /\ socks'[sock].status = "FREE"
    BY <1>3 DEF FreeRecord, NoConnection, PortOf
  <2>2. RecordShape(sock)'
    BY <1>3, <2>1, UnnamedShape
  <2>3. Settles(sock, q)
    BY <2>1, <2>2 DEF Settles, Proceeds, ListensOn, PORT_NONE
  <2> QED BY <1>2, <2>3
<1>4. CASE /\ socks'[sock].status = "CONNECTED"
           /\ socks'[sock].connection = socks[sock].connection
  <2>1. PortOf(socks'[sock]) = q
    BY <1>4 DEF PortOf
  <2>2. (OfUdp(sock)' <=> OfUdp(sock)) /\ (Named(sock)' <=> Named(sock))
    BY <1>4, <2>1 DEF OfUdp, Named
  <2>3. ~OfUdp(sock) /\ RecordShape(sock)
    BY DEF PortInv, Shapes, RecordShape
  <2>4. RecordShape(sock)' /\ PortUse(sock)'
    BY <1>4, <2>2, <2>3 DEF RecordShape, PortUse
  <2>5. Settles(sock, q)
    BY <1>4, <2>1, <2>4 DEF Settles, Proceeds, ListensOn
  <2> QED BY <1>2, <2>5
<1> QED BY <1>1, <1>3, <1>4

\* A connection arrives for a socket in accept(): the port is listened to, and the
\* new socket shares it.
LEMMA AcceptSettles ==
  ASSUME TypeOK, PortInv, UNCHANGED <<ports, tcbs>>, NEW q \in Port \ {PORT_NONE},
         ~ Disputed(q), NEW sock \in Sock, NEW s \in SockRequestResponse, PortOf(s) = q,
         s.connection.dest # IP_ADDRESS_ANY, Answers(socks[sock], s.connection),
         socks[sock].status = "ACCEPT_PENDING", CompleteAccept(s, sock)
  PROVE  \A i \in Sock : Settles(i, q)
<1> DEFINE listening == SetStatus(socks, sock, "LISTENING")
           accepted == [connection |-> s.connection, bin |-> <<>>,
                        status |-> "CONNECTED", toApp |-> TRUE]
<1>1. PortOf(socks[sock]) = q /\ socks[sock].connection.protocol = s.connection.protocol
  BY AnswersPort DEF PortOf, SockRequestResponse
<1>2. /\ listening \in SockTable
      /\ OthersKept(socks, listening, sock)
      /\ listening[sock].status = "LISTENING"
      /\ listening[sock].connection = socks[sock].connection
  BY SetStatusAt, SetStatusType DEF TypeOK, SockTypeOK, Status
<1>3. PICK newsock : newsock = FindFreeSock(listening)
  OBVIOUS
<1>4. newsock > 0 => /\ newsock \in Sock \ {0} /\ listening[newsock].status = "FREE"
  BY <1>2, <1>3, FindFreeSockRange, UsableSock
<1>5. newsock > 0 => newsock # sock /\ socks[newsock].status = "FREE"
  BY <1>2, <1>4 DEF OthersKept
<1>6. accepted.status = "CONNECTED" /\ accepted.connection = s.connection
  OBVIOUS
<1> HIDE DEF listening, accepted
<1>7. ASSUME socks'[sock] = listening[sock] PROVE Settles(sock, q)
  <2>1. /\ socks'[sock].status = "LISTENING"
        /\ socks'[sock].connection = socks[sock].connection
        /\ PortOf(socks'[sock]) = q
    BY <1>1, <1>2, <1>7 DEF PortOf
  <2>2. /\ OfUdp(sock)' <=> OfUdp(sock)
        /\ Named(sock)' <=> Named(sock)
        /\ Held(sock)' <=> Held(sock)
    BY <1>1, <2>1 DEF OfUdp, Named, Held
  <2>3. PICK c : c = socks[sock].connection
    OBVIOUS
  <2>4. ~OfUdp(sock) /\ RecordShape(sock) /\ Listened(c)
    BY <1>1, <2>3 DEF PortInv, Shapes, RecordShape, PortUse, Disputed
  <2>5. Listened(c)'
    BY <2>4 DEF Listened
  <2>6. RecordShape(sock)' /\ PortUse(sock)'
    BY <2>1, <2>2, <2>3, <2>4, <2>5 DEF RecordShape, PortUse
  <2> QED BY <1>1, <2>1, <2>6 DEF Settles, Proceeds, ListensOn
<1>8. CASE socks' = listening
  <2>1. Settles(sock, q)
    BY <1>7, <1>8
  <2>2. \A i \in Sock : i # sock => Settles(i, q)
    BY <1>2, <1>8, SettlesSame DEF OthersKept
  <2> QED BY <2>1, <2>2
<1>9. CASE newsock > 0 /\ socks' = [listening EXCEPT ![newsock] = accepted]
  <2>1. /\ socks'[newsock] = accepted /\ socks'[sock] = listening[sock]
        /\ \A j \in Sock : j # sock /\ j # newsock => socks'[j] = socks[j]
    BY <1>2, <1>4, <1>5, <1>9 DEF OthersKept, SockTable
  <2>2. Settles(sock, q)
    BY <1>7, <2>1
  <2>3. \A i \in Sock : i # sock /\ i # newsock => Settles(i, q)
    BY <2>1, SettlesSame
  <2>4. /\ socks'[newsock].status = "CONNECTED" /\ socks'[newsock].connection = s.connection
        /\ PortOf(socks'[newsock]) = q
    BY <1>6, <2>1 DEF PortOf
  <2>5. s.connection.protocol # "UDP"
    BY <1>1 DEF PortInv, Shapes, RecordShape, OfUdp
  <2>6. ~OfUdp(newsock)' /\ Named(newsock)'
    BY <2>4, <2>5 DEF OfUdp, Named
  <2>7. RecordShape(newsock)' /\ PortUse(newsock)'
    BY <1>4, <1>9, <2>4, <2>6 DEF RecordShape, PortUse
  <2>8. Settles(newsock, q)
    BY <1>5, <1>9, <2>4, <2>7 DEF Settles, Proceeds, ListensOn
  <2> QED BY <2>2, <2>3, <2>8
<1> QED BY <1>3, <1>8, <1>9 DEF CompleteAccept, listening, accepted

\* sock_module answers whatever tcp_module passes up.
LEMMA TCPWriteReply ==
  ASSUME HandleTCPWrite
  PROVE  \E m : /\ sock2tcp' = Append(sock2tcp, m)
                /\ m.type = "STATUS" /\ m.connection = Head(tcp2sock).connection
<1> DEFINE s == Head(tcp2sock)
           sock == FindConnection(socks, s.connection)
<1>1. \A data, n, err : ReplyTCP(StatusReply(s, data, n, err)) =>
        \E m : /\ sock2tcp' = Append(sock2tcp, m)
               /\ m.type = "STATUS" /\ m.connection = s.connection
  BY StatusReplyAt DEF ReplyTCP
<1>2. \/ ReplyTCP(UnmatchedReply(s)) \/ ReplyTCP(BufferReply(s, sock))
      \/ ReplyTCP(TakenReply(s)) \/ ReplyTCP(RefusedReply(s))
      \/ CompleteAccept(s, sock) \/ CompleteConnect(s, sock)
  BY DEF HandleTCPWrite
<1>3. \E data, n, err : ReplyTCP(StatusReply(s, data, n, err))
  BY <1>2 DEF UnmatchedReply, BufferReply, TakenReply, RefusedReply, CompleteAccept,
              CompleteConnect
<1> QED BY <1>1, <1>3

\* Data, a connection or the outcome of a connect: about a port that tcp_module has
\* long taken.
LEMMA TCPWritePorts ==
  ASSUME TypeOK, TypeOK', PortInv, HandleTCPWrite, UNCHANGED tcbs
  PROVE  PortInv'
<1>1. PICK s : s = Head(tcp2sock)
  OBVIOUS
<1>2. PICK sock : sock = FindConnection(socks, s.connection)
  OBVIOUS
<1>3. /\ s \in SockRequestResponse /\ s.type = "WRITE" /\ tcp2sock # <<>>
      /\ tcp2sock' = Tail(tcp2sock) /\ UNCHANGED <<ports, tcpq>>
  BY <1>1, TCPHead DEF HandleTCPWrite, TCPReceive, TypeOK
<1>4. /\ tcp2sock \in Seq(SockRequestResponse)
      /\ sock2tcp \in Seq(SockRequestResponse) /\ sock2tcp' \in Seq(SockRequestResponse)
  BY DEF TypeOK, FifosTypeOK
<1>5. s \in Range(tcp2sock) /\ Range(tcp2sock') \subseteq Range(tcp2sock)
  BY <1>1, <1>3, <1>4, RangeTail
<1>6. PICK q \in Port : q = PortOf(s)
  BY <1>3, MessagePort
<1>7. q # PORT_NONE /\ s.connection.dest # IP_ADDRESS_ANY
  BY <1>3, <1>5, <1>6 DEF PortInv, Traffic
<1>8. ~ Quiet(q)
  BY <1>5, <1>6 DEF Quiet
<1>9. ~ Disputed(q)
  BY <1>3, <1>5, <1>6 DEF Disputed, Undecided, UndecidedOver
<1>10. PICK m : /\ sock2tcp' = Append(sock2tcp, m)
                /\ m.type = "STATUS" /\ m.connection = s.connection
  BY <1>1, TCPWriteReply
<1>11. m \in SockRequestResponse
  BY <1>4, <1>10, Appended
<1>12. PortOf(m) = q
  BY <1>6, <1>10 DEF PortOf
<1>13. Range(sock2tcp') = Range(sock2tcp) \cup {m}
  BY <1>4, <1>10, <1>11, RangeAppend
<1>14. OnlyAbout(q, sock2tcp, sock2tcp', SockRequestResponse)
  BY <1>4, <1>10, <1>11, <1>12, AboutAppend
<1>15. OnlyAbout(q, tcp2sock, tcp2sock', SockRequestResponse)
  BY <1>3, <1>4, AboutTail
<1>16. OnlyAbout(q, tcpq, tcpq', RequestRecord)
  BY <1>3, AboutSame
<1>17. sock > 0 => /\ sock \in Sock /\ Answers(socks[sock], s.connection)
                   /\ PortOf(socks[sock]) = q
  <2>1. s.connection \in Connection
    BY <1>3 DEF SockRequestResponse
  <2>2. sock > 0 => sock \in Sock /\ Answers(socks[sock], s.connection)
    BY <1>2, FindConnectionRange, UsableSock DEF TypeOK, SockTypeOK
  <2> QED BY <1>6, <2>1, <2>2, AnswersPort DEF PortOf
<1>18. \A i \in Sock : Settles(i, q)
  <2>1. CASE UNCHANGED socks
    BY <1>3, <2>1, SettlesSame
  <2>2. CASE sock > 0 /\ DataForBuffer(s, sock)
    <3>1. \A i \in Sock : /\ socks'[i].connection = socks[i].connection
                          /\ socks'[i].status = socks[i].status
      BY <1>3, <1>17, <2>2, BufferedAt DEF DataForBuffer, OthersKept
    <3> QED BY <1>3, <3>1, SettlesSame
  <2>3. CASE sock > 0 /\ socks[sock].status = "READ_PENDING" /\ DataForReader(s, sock)
    <3>1. /\ OthersKept(socks, socks', sock) /\ socks'[sock].status = "CONNECTED"
          /\ socks'[sock].connection = socks[sock].connection
      BY <1>17, <2>3, SetStatusAt DEF DataForReader, TypeOK, SockTypeOK, Status
    <3>2. Settles(sock, q)
      BY <1>3, <1>17, <2>3, <3>1, SettlesConnected DEF Connected
    <3>3. \A i \in Sock : i # sock => Settles(i, q)
      BY <1>3, <3>1, SettlesSame DEF OthersKept
    <3> QED BY <3>2, <3>3
  <2>4. CASE sock > 0 /\ socks[sock].status = "ACCEPT_PENDING" /\ CompleteAccept(s, sock)
    BY <1>3, <1>6, <1>7, <1>9, <1>17, <2>4, AcceptSettles
  <2>5. CASE sock > 0 /\ socks[sock].status = "CONNECT_PENDING" /\ CompleteConnect(s, sock)
    BY <1>3, <1>17, <2>5, ConnectSettles
  <2> QED BY <1>1, <1>2, <2>1, <2>2, <2>3, <2>4, <2>5 DEF HandleTCPWrite
<1>19. ~ Doubtful(q)'
  <2>1. ~ Doubtful(q)
    BY <1>9 DEF PortInv, Doubts
  <2> QED BY <1>5, <1>10, <1>13, <2>1 DEF Doubtful, Refusal, Refusable, Listened
<1>20. Traffic'
  BY <1>5 DEF PortInv, Traffic
<1>21. Closes'
  <2>1. ClosesLast(sock2tcp')
    BY <1>4, <1>10, <1>11, ClosesLastAppend DEF PortInv, Closes
  <2>2. \A n \in Range(sock2tcp'), i \in Sock :
          n.type = "CLOSE" /\ socks'[i].status \in {"LISTENING", "ACCEPT_PENDING"}
            => n.connection # socks'[i].connection
    BY <1>10, <1>13, <1>18 DEF PortInv, Closes, Settles, ListensOn
  <2> QED BY <2>1, <2>2 DEF Closes
<1>22. ListenersKept
  BY DEF ListenersKept
<1>23. \A i \in Sock : RecordShape(i)' /\ Proceeds(i, q)
  BY <1>18 DEF Settles
<1> QED BY <1>3, <1>8, <1>9, <1>14, <1>15, <1>16, <1>19, <1>20, <1>21, <1>22, <1>23, PortsBusy

\* What sock_module takes when it takes a STATUS of tcp_module.
LEMMA TCPStatusTaken ==
  ASSUME TypeOK, TypeOK', TcpAnswersPair, PortInv, HandleTCPStatus, UNCHANGED tcbs,
         NEW s, s = Head(tcp2sock), NEW request, request = Head(tcpq), NEW q, q = PortOf(s)
  PROVE  /\ q \in Port /\ PortOf(request) = q
         /\ s \in Range(tcp2sock) /\ s \in SockRequestResponse /\ s.type = "STATUS"
         /\ request \in Range(tcpq) /\ request \in RequestRecord
         /\ tcp2sock \in Seq(SockRequestResponse) /\ tcp2sock # <<>> /\ tcp2sock' = Tail(tcp2sock)
         /\ tcpq \in Seq(RequestRecord) /\ tcpq # <<>> /\ tcpq' = Tail(tcpq)
         /\ Range(tcp2sock') \subseteq Range(tcp2sock)
         /\ UNCHANGED <<ports, sock2tcp>>
         /\ OnlyAbout(q, sock2tcp, sock2tcp', SockRequestResponse)
         /\ OnlyAbout(q, tcp2sock, tcp2sock', SockRequestResponse)
         /\ OnlyAbout(q, tcpq, tcpq', RequestRecord)
         /\ Traffic'
<1>1. /\ tcp2sock # <<>> /\ s.type = "STATUS" /\ tcp2sock' = Tail(tcp2sock)
      /\ tcpq # <<>> /\ tcpq' = Tail(tcpq) /\ UNCHANGED <<ports, sock2tcp>>
  BY DEF HandleTCPStatus, TCPReceive
<1>2. tcp2sock \in Seq(SockRequestResponse) /\ tcpq \in Seq(RequestRecord)
  BY DEF TypeOK, FifosTypeOK, SockTypeOK
<1>3. s \in Range(tcp2sock) /\ Range(tcp2sock') \subseteq Range(tcp2sock) /\ request \in Range(tcpq)
  BY <1>1, <1>2, RangeTail
<1>4. s \in SockRequestResponse /\ request \in RequestRecord
  BY <1>2, <1>3, RangeBasics
<1>5. s.connection = request.connection
  BY <1>1, TcpTypes, FrontConnection DEF TcpAnswersPair
<1>6. q \in Port /\ PortOf(request) = q
  <2>1. PortOf(s) \in Port
    BY <1>4, MessagePort
  <2> QED BY <1>5, <2>1 DEF PortOf
<1>7. /\ OnlyAbout(q, tcp2sock, tcp2sock', SockRequestResponse)
      /\ OnlyAbout(q, tcpq, tcpq', RequestRecord)
      /\ OnlyAbout(q, sock2tcp, sock2tcp', SockRequestResponse)
  BY <1>1, <1>2, AboutTail, AboutSame
<1>8. Traffic'
  BY <1>3 DEF PortInv, Traffic
<1> QED BY <1>1, <1>2, <1>3, <1>4, <1>6, <1>7, <1>8

\* What sock_module is told when it was not refused a port.
LEMMA AnsweredPorts ==
  ASSUME TypeOK, TypeOK', TcpAnswersPair, CallInv, PortInv, HandleTCPStatus, UNCHANGED tcbs,
         Head(tcpq).type \notin {"CONNECT", "ACCEPT"} \/ Head(tcp2sock).error = "EOK"
  PROVE  PortInv'
<1>1. PICK s : s = Head(tcp2sock)
  OBVIOUS
<1>2. PICK request : request = Head(tcpq)
  OBVIOUS
<1>3. PICK q : q = PortOf(s)
  OBVIOUS
<1>4. /\ q \in Port /\ PortOf(request) = q
      /\ s \in Range(tcp2sock) /\ request \in Range(tcpq) /\ request \in RequestRecord
      /\ Range(tcp2sock') \subseteq Range(tcp2sock)
      /\ UNCHANGED <<ports, sock2tcp>>
      /\ OnlyAbout(q, sock2tcp, sock2tcp', SockRequestResponse)
      /\ OnlyAbout(q, tcp2sock, tcp2sock', SockRequestResponse)
      /\ OnlyAbout(q, tcpq, tcpq', RequestRecord)
      /\ Traffic'
  BY <1>1, <1>2, <1>3, TCPStatusTaken
<1>5. ~ Quiet(q)
  BY <1>3, <1>4 DEF Quiet
<1>6. ~ Disputed(q)
  <2> SUFFICES ASSUME NEW i \in Sock, Undecided(i), PortOf(socks[i]) = q PROVE FALSE
    BY DEF Disputed
  <2>1. s.error # "EOK" /\ request.type = Opening(i)
    BY <1>3, <1>4 DEF Undecided, UndecidedOver
  <2> QED BY <1>1, <1>2, <2>1 DEF Opening
<1>7. PICK sock \in Sock : sock = request.sock
  BY <1>4 DEF RequestRecord
<1>8. \A i \in Sock : Settles(i, q)
  <2>1. CASE UNCHANGED socks
    BY <1>4, <2>1, SettlesSame
  <2>2. CASE request.type = "WRITE" /\ socks' = SetStatus(socks, sock, "CONNECTED")
    <3>1. socks[sock].status = "WRITE_PENDING"
      BY <1>4, <1>7, <2>2 DEF CallInv, TcpRecords
    <3>2. /\ OthersKept(socks, socks', sock) /\ socks'[sock].status = "CONNECTED"
          /\ socks'[sock].connection = socks[sock].connection
      BY <2>2, SetStatusAt DEF TypeOK, SockTypeOK, Status
    <3>3. Settles(sock, q)
      BY <1>4, <3>1, <3>2, SettlesConnected DEF Connected
    <3>4. \A i \in Sock : i # sock => Settles(i, q)
      BY <1>4, <3>2, SettlesSame DEF OthersKept
    <3> QED BY <3>3, <3>4
  <2>3. \/ UNCHANGED socks
        \/ request.type = "WRITE" /\ socks' = SetStatus(socks, sock, "CONNECTED")
    BY <1>1, <1>2, <1>7 DEF HandleTCPStatus
  <2> QED BY <2>1, <2>2, <2>3
<1>9. ~ Doubtful(q)'
  <2>1. ~ Doubtful(q)
    BY <1>4, <1>6 DEF PortInv, Doubts
  <2> QED BY <1>4, <2>1 DEF Doubtful, Refusable, Listened
<1>10. Closes'
  BY <1>4, <1>8 DEF PortInv, Closes, ClosesLast, Settles, ListensOn
<1>11. ListenersKept
  BY DEF ListenersKept
<1>12. \A i \in Sock : RecordShape(i)' /\ Proceeds(i, q)
  BY <1>8 DEF Settles
<1> QED BY <1>4, <1>5, <1>6, <1>9, <1>10, <1>11, <1>12, PortsBusy

\* A refused connect closes the socket; a refused accept leaves it listening, and
\* nothing else has to do with the port.
LEMMA RefusalPorts ==
  ASSUME TypeOK, TypeOK', TcpAnswersPair, CallInv, PortInv, HandleTCPStatus, UNCHANGED tcbs,
         Head(tcpq).type \in {"CONNECT", "ACCEPT"}, Head(tcp2sock).error # "EOK"
  PROVE  PortInv'
<1>1. PICK s : s = Head(tcp2sock)
  OBVIOUS
<1>2. PICK request : request = Head(tcpq)
  OBVIOUS
<1>3. PICK q : q = PortOf(s)
  OBVIOUS
<1>4. /\ q \in Port /\ PortOf(request) = q
      /\ s \in Range(tcp2sock) /\ s \in SockRequestResponse /\ s.type = "STATUS"
      /\ request \in Range(tcpq) /\ request \in RequestRecord
      /\ tcp2sock \in Seq(SockRequestResponse) /\ tcp2sock # <<>> /\ tcp2sock' = Tail(tcp2sock)
      /\ tcpq \in Seq(RequestRecord) /\ tcpq # <<>> /\ tcpq' = Tail(tcpq)
      /\ UNCHANGED <<ports, sock2tcp>>
      /\ OnlyAbout(q, sock2tcp, sock2tcp', SockRequestResponse)
      /\ OnlyAbout(q, tcp2sock, tcp2sock', SockRequestResponse)
      /\ OnlyAbout(q, tcpq, tcpq', RequestRecord)
      /\ Traffic'
  BY <1>1, <1>2, <1>3, TCPStatusTaken
<1>5. PICK sock : sock = request.sock
  OBVIOUS
<1>6. /\ sock \in Sock /\ PortOf(socks[sock]) = q
      /\ socks[sock].status \in {"CONNECT_PENDING", "ACCEPT_PENDING"}
      /\ Undecided(sock) /\ request.type = Opening(sock)
  BY <1>1, <1>2, <1>3, <1>4, <1>5, RefusalFindsSocket DEF PortInv
<1>7. Disputed(q)
  BY <1>6 DEF Disputed
<1>8. q # PORT_NONE /\ ports[q] # 0
  <2>1. q # PORT_NONE
    BY <1>7, DisputedNamed DEF PortInv
  <2> QED BY <1>4, <1>6, <2>1 DEF PortInv, Unreserved
<1>9. PICK c : UndecidedOver(sock, c, q)
  BY <1>6 DEF Undecided
<1>10. Quiet(q)'
  <2>1. \A t \in tcbs' : PortOf(t) # q
    BY <1>9 DEF UndecidedOver
  <2>2. \A m \in Range(sock2tcp') : PortOf(m) # q
    BY <1>3, <1>4, <1>9 DEF UndecidedOver
  <2>3. \A m \in Range(tcp2sock') : PortOf(m) # q
    <3>1. s \in MessagesOf(q) /\ Once(tcp2sock, MessagesOf(q))
      BY <1>3, <1>4, <1>9 DEF MessagesOf, UndecidedOver
    <3>2. Range(tcp2sock') \cap MessagesOf(q) = {}
      BY <1>1, <1>4, <3>1, OnceTail
    <3>3. tcp2sock' \in Seq(SockRequestResponse)
      BY DEF TypeOK, FifosTypeOK
    <3>4. Range(tcp2sock') \subseteq SockRequestResponse
      BY <3>3, RangeBasics
    <3> QED BY <3>2, <3>4 DEF MessagesOf
  <2>4. \A r \in Range(tcpq') : PortOf(r) # q
    <3>1. request \in RecordsOf(q) /\ Once(tcpq, RecordsOf(q))
      BY <1>4, <1>9 DEF RecordsOf, UndecidedOver
    <3>2. Range(tcpq') \cap RecordsOf(q) = {}
      BY <1>2, <1>4, <3>1, OnceTail
    <3>3. tcpq' \in Seq(RequestRecord)
      BY DEF TypeOK, SockTypeOK
    <3>4. Range(tcpq') \subseteq RequestRecord
      BY <3>3, RangeBasics
    <3> QED BY <3>2, <3>4 DEF RecordsOf
  <2> QED BY <2>1, <2>2, <2>3, <2>4 DEF Quiet
<1>11. Alone(sock) /\ ~OfUdp(sock) /\ RecordShape(sock)
  BY <1>6, <1>9 DEF UndecidedOver, PortInv, Shapes, RecordShape
<1>12. /\ OthersKept(socks, socks', sock)
       /\ \/ socks'[sock] = FreeRecord
          \/ /\ socks[sock].status = "ACCEPT_PENDING" /\ socks'[sock].status = "LISTENING"
             /\ socks'[sock].connection = socks[sock].connection
  <2>1. \/ socks' = CloseSocket(socks, sock)
        \/ socks[sock].status = "ACCEPT_PENDING" /\ socks' = SetStatus(socks, sock, "LISTENING")
    BY <1>1, <1>2, <1>5, <1>6 DEF HandleTCPStatus, Opening
  <2> QED BY <1>6, <2>1, CloseSocketAt, SetStatusAt DEF TypeOK, SockTypeOK, Status
<1>13. \A i \in Sock : i # sock => Settles(i, q)
  BY <1>4, <1>12, SettlesSame DEF OthersKept
<1>14. /\ RecordShape(sock)' /\ ListensOn(sock) /\ PortOf(socks'[sock]) \in {PORT_NONE, q}
       /\ PortOf(socks'[sock]) = q => PortUse(sock)'
  <2>1. CASE socks'[sock] = FreeRecord
    <3>1. PortOf(socks'[sock]) = PORT_NONE /\ socks'[sock].status = "FREE"
      BY <2>1 DEF FreeRecord, NoConnection, PortOf
    <3>2. RecordShape(sock)'
      BY <1>6, <2>1, <3>1, UnnamedShape
    <3> QED BY <1>8, <3>1, <3>2 DEF ListensOn
  <2>2. CASE /\ socks[sock].status = "ACCEPT_PENDING" /\ socks'[sock].status = "LISTENING"
             /\ socks'[sock].connection = socks[sock].connection
    <3>1. PortOf(socks'[sock]) = q
      BY <1>6, <2>2 DEF PortOf
    <3>2. /\ OfUdp(sock)' <=> OfUdp(sock)
          /\ Named(sock)' <=> Named(sock)
          /\ Held(sock)' <=> Held(sock)
      BY <1>4, <1>6, <2>2, <3>1 DEF OfUdp, Named, Held
    <3>3. RecordShape(sock)'
      BY <1>11, <2>2, <3>2 DEF RecordShape
    <3>4. Alone(sock)'
      BY <1>6, <1>11, <1>12, <3>1 DEF Alone, OthersKept
    <3>5. Unused(sock)'
      BY <1>10, <3>1, <3>4 DEF Unused
    <3>6. PortUse(sock)'
      BY <1>11, <2>2, <3>2, <3>5 DEF PortUse
    <3> QED BY <2>2, <3>1, <3>3, <3>6 DEF ListensOn
  <2> QED BY <1>12, <2>1, <2>2
<1>15. Elsewhere(q)
  <2>1. \A i \in Sock : i # sock => Calm(i)
    BY <1>12 DEF Calm, OthersKept
  <2> QED BY <1>4, <1>6, <1>14, <2>1 DEF Elsewhere
<1>16. \A i \in Sock : RecordShape(i)' /\ ListensOn(i)
  BY <1>13, <1>14 DEF Settles
<1>17. \A i \in Sock : PortOf(socks'[i]) = q => PortUse(i)'
  BY <1>6, <1>11, <1>12, <1>14 DEF Alone, OthersKept
<1>18. ~ Doubtful(q)'
  BY <1>10 DEF Doubtful, Quiet
<1>19. Closes'
  BY <1>4, <1>16 DEF PortInv, Closes, ClosesLast, ListensOn
<1> QED BY <1>4, <1>8, <1>15, <1>16, <1>17, <1>18, <1>19, PortsStep

\* An answer of tcp_module.
LEMMA TCPStatusPorts ==
  ASSUME TypeOK, TypeOK', TcpAnswersPair, CallInv, PortInv, HandleTCPStatus, UNCHANGED tcbs
  PROVE  PortInv'
BY AnsweredPorts, RefusalPorts

-----------------------------------------------------------------------------
(***************************************************************************)
(* The invariants and the theorems.                                        *)
(***************************************************************************)

\* Every step keeps what is known about ports.
LEMMA PortStep ==
  ASSUME TypeOK, TypeOK', TcpAnswersPair, CallInv, PortInv, [Next]_vars
  PROVE  PortInv'
<1>1. CASE \/ Application \/ CallReturn \/ UdpFromMux \/ UdpFromSock \/ UNCHANGED vars
  <2>1. UNCHANGED <<socks, ports, tcbs, sock2tcp, tcp2sock, tcpq>>
    BY <1>1 DEF Application, CallReturn, UdpFromMux, UdpFromSock, vars, fifos, tcpFifos,
                sockVars, tcpVars
  <2> QED BY <2>1, PortsAlone
<1>2. CASE SockProcess
  <2>1. SockModuleStep /\ UNCHANGED tcbs
    BY <1>2 DEF SockProcess, tcpVars
  <2> QED BY <2>1, UDPWritePorts, UDPStatusPorts, TCPWritePorts, TCPStatusPorts, RequestPorts
          DEF SockModuleStep
<1>3. CASE TcpFromSock
  BY <1>3, ServedPorts, AskedPorts
<1>4. CASE TcpFromNetwork
  BY <1>4, NetworkPorts
<1> QED BY <1>1, <1>2, <1>3, <1>4 DEF Next

\* No call is in progress at first, and no port in use.
LEMMA CallInit == Init => CallInv /\ PortInv
<1> SUFFICES ASSUME Init PROVE CallInv /\ PortInv
  OBVIOUS
<1>1. /\ socklib2sock = <<>> /\ sock2socklib = <<>> /\ udpq = <<>> /\ tcpq = <<>>
      /\ sock2tcp = <<>> /\ tcp2sock = <<>> /\ tcbs = {}
  BY DEF Init, FifosInit, SockInit, TcpInit
<1>2. \A i \in Sock : socks[i] = FreeRecord
  BY DEF Init, SockInit
<1>3. Range(<<>>) = {} /\ Len(<<>>) = 0 /\ \A X : Once(<<>>, X)
  BY DEF Range, Once
<1>4. CallInv
  <2>1. NonePending
    BY <1>2 DEF NonePending, Pending, FreeRecord
  <2>2. OneMessage
    BY <1>1, <1>3 DEF OneMessage
  <2> QED BY <1>1, <1>3, <2>1, <2>2
          DEF CallInv, PendingWaits, NonePending, UdpRecords, TcpRecords
<1>5. \A p : Quiet(p)
  BY <1>1, <1>3 DEF Quiet
<1>6. \A i \in Sock : socks[i].status = "FREE" /\ PortOf(socks[i]) = PORT_NONE /\ ~Named(i)
  BY <1>2 DEF FreeRecord, NoConnection, PortOf, Named
<1>7. Unreserved
  BY <1>5, <1>6 DEF Unreserved
<1>8. Shapes
  BY <1>2, <1>6 DEF Shapes, RecordShape, PortUse, FreeRecord
<1>9. Traffic /\ Doubts
  BY <1>1, <1>3 DEF Traffic, Doubts, Doubtful
<1>10. Closes
  <2>1. ClosesLast(sock2tcp)
    BY <1>1 DEF ClosesLast
  <2> QED BY <1>1, <1>3, <2>1 DEF Closes
<1> QED BY <1>4, <1>7, <1>8, <1>9, <1>10 DEF PortInv

\* A TCP socket listens, and no UDP socket does.
LEMMA OnlyTcpListens ==
  ASSUME PortInv
  PROVE  \A i \in Sock : socks[i].status = "LISTENING" => ~OfUdp(i)
BY DEF PortInv, Shapes, RecordShape

(***************************************************************************)
(* The inductive invariant: the call in progress and the ports keep each   *)
(* other.  A refusal of tcp_module answers the call in progress only if    *)
(* the socket that asked still waits, which takes what is known of its     *)
(* port; and a port is in dispute only during a call.                      *)
(***************************************************************************)
SocketInv == TypeOK /\ Pairing /\ CallInv /\ PortInv

LEMMA SocketInvariant == Spec => []SocketInv
<1>1. Init => SocketInv
  BY InitType, PairingInit, CallInit DEF SocketInv
<1>2. SocketInv /\ [Next]_vars => SocketInv'
  <2> SUFFICES ASSUME SocketInv, [Next]_vars PROVE SocketInv'
    OBVIOUS
  <2>1. TypeOK /\ TypeOK' /\ Pairing /\ CallInv /\ PortInv
    BY StepType DEF SocketInv
  <2>2. Pairing'
    BY <2>1, PairingStep
  <2>3. TcpAnswersPair /\ Doubts
    BY <2>1 DEF Pairing, PortInv
  <2>4. CallInv'
    BY <2>1, <2>3, CallStep, OnlyTcpListens
  <2>5. PortInv'
    BY <2>1, <2>3, PortStep
  <2> QED BY <2>1, <2>2, <2>4, <2>5 DEF SocketInv
<1> QED BY <1>1, <1>2, PTL DEF Spec

\* Where the call in progress can be held is one place.
LEMMA OneHolder ==
  ASSUME TypeOK, CallInv
  PROVE  /\ call = NoCall => Holders = {}
         /\ \A x, y \in Holders : x = y
<1> DEFINE Requests == {<<"request", k>> : k \in DOMAIN socklib2sock}
           Replies == {<<"reply", k>> : k \in DOMAIN sock2socklib}
           Waiting == {<<"socket", i>> : i \in {j \in Sock : socks[j].status \in Pending}}
           Forwards == {<<"forward", k>> :
                          k \in {j \in DOMAIN udpq : udpq[j].type = "FORWARD"}}
<1>1. Holders = Requests \cup Replies \cup Waiting \cup Forwards
  BY DEF Holders
<1>2. /\ Len(socklib2sock) \in Nat /\ DOMAIN socklib2sock = 1 .. Len(socklib2sock)
      /\ Len(sock2socklib) \in Nat /\ DOMAIN sock2socklib = 1 .. Len(sock2socklib)
  BY CallTypes
<1>3. DOMAIN socklib2sock \subseteq {1} /\ DOMAIN sock2socklib \subseteq {1}
  BY <1>2 DEF CallInv, OneMessage
<1>4. /\ socklib2sock = <<>> => Requests = {}
      /\ sock2socklib = <<>> => Replies = {}
  OBVIOUS
<1>5. \A k \in DOMAIN udpq : udpq[k] \in Range(udpq) /\ udpq[k] \in RequestRecord
  BY CallTypes DEF Range
<1>6. NonePending => Waiting = {}
  BY DEF NonePending
<1>7. NoneRelayed => Forwards = {}
  BY <1>5 DEF NoneRelayed
<1>8. CASE call = NoCall \/ socklib2sock # <<>> \/ sock2socklib # <<>>
  <2>1. Waiting = {} /\ Forwards = {}
    BY <1>6, <1>7, <1>8, NobodyWaits
  <2>2. Requests = {} \/ Replies = {}
    BY <1>4 DEF CallInv, OneMessage
  <2>3. call = NoCall => Requests = {} /\ Replies = {}
    BY <1>4 DEF CallInv, OneMessage
  <2>4. (\A x, y \in Requests : x = y) /\ \A x, y \in Replies : x = y
    BY <1>3
  <2> HIDE DEF Requests, Replies, Waiting, Forwards
  <2> QED BY <1>1, <2>1, <2>2, <2>3, <2>4
<1>9. CASE call # NoCall /\ socklib2sock = <<>> /\ sock2socklib = <<>>
  <2>1. Requests = {} /\ Replies = {}
    BY <1>4, <1>9
  <2>2. CASE ~ NonePending
    <3>1. PICK i \in Sock : socks[i].status \in Pending
      BY <2>2 DEF NonePending
    <3>2. /\ \A j \in Sock : j # i => socks[j].status \notin Pending
          /\ \A r \in Range(udpq) : r.type # "FORWARD"
      BY <3>1, OnePending
    <3>3. Forwards = {}
      BY <1>5, <3>2
    <3>4. \A x, y \in Waiting : x = y
      BY <3>2
    <3> HIDE DEF Requests, Replies, Waiting, Forwards
    <3> QED BY <1>1, <1>9, <2>1, <3>3, <3>4
  <2>3. CASE NonePending
    <3>1. Waiting = {}
      BY <1>6, <2>3
    <3>2. Once(udpq, Relayed({"FORWARD", "WRITE"}))
      BY DEF CallInv, UdpRecords
    <3>3. \A k \in DOMAIN udpq : udpq[k].type = "FORWARD" => udpq[k] \in Relayed({"FORWARD", "WRITE"})
      BY <1>5 DEF Relayed
    <3>4. \A x, y \in Forwards : x = y
      BY <3>2, <3>3 DEF Once
    <3> HIDE DEF Requests, Replies, Waiting, Forwards
    <3> QED BY <1>1, <1>9, <2>1, <3>1, <3>4
  <2> QED BY <2>2, <2>3
<1> QED BY <1>8, <1>9

\* A call in progress is never held in two places and none is left over between
\* calls, for every order in which answers, data and requests meet in sock_module
\* (sock_module.cc ProcessAppRequest, HandleUDPWrite, HandleUDPStatus, HandleTCPWrite,
\* HandleTCPStatus).
THEOREM AnsweredOnce == Spec => []NeverAnsweredTwice
<1>1. SocketInv => NeverAnsweredTwice
  <2> SUFFICES ASSUME SocketInv PROVE NeverAnsweredTwice
    OBVIOUS
  <2>1. /\ call = NoCall => Holders = {}
        /\ \A x, y \in Holders : x = y
    BY OneHolder DEF SocketInv
  <2>2. CASE Holders = {}
    <3>1. Cardinality(Holders) = 0
      BY <2>2, FS_EmptySet
    <3> QED BY <2>2, <3>1 DEF NeverAnsweredTwice
  <2>3. CASE Holders # {}
    <3>1. PICK x \in Holders : TRUE
      BY <2>3
    <3>2. Holders = {x}
      BY <2>1, <3>1
    <3>3. Cardinality(Holders) = 1
      BY <3>2, FS_Singleton
    <3> QED BY <2>1, <2>3, <3>3 DEF NeverAnsweredTwice
  <2> QED BY <2>2, <2>3
<1> QED BY <1>1, SocketInvariant, PTL

LEMMA ExclusivePorts ==
  ASSUME SocketInv
  PROVE  PortIsExclusive
<1> SUFFICES ASSUME NEW i \in BoundUdp
             PROVE  /\ ports[socks[i].connection.srcport] = i
                    /\ \A j \in Sock \ {i} :
                         socks[j].connection.srcport # socks[i].connection.srcport
  BY DEF PortIsExclusive
<1>1. i \in Sock /\ OfUdp(i) /\ Named(i)
  BY DEF BoundUdp, OfUdp, Named, PortOf
<1>2. Held(i) /\ Alone(i)
  BY <1>1 DEF SocketInv, PortInv, Shapes, RecordShape, PortUse, Unused
<1> QED BY <1>2 DEF Held, Alone, PortOf

\* A bound UDP socket holds the reservation of its port and shares the port with no
\* other open socket, although a close frees the descriptor and not the port
\* (sock_module.cc ResolveSrcPort, mBIND, mCONNECT, mCLOSE).
THEOREM UdpPortsAreExclusive == Spec => []PortIsExclusive
<1>1. SocketInv => PortIsExclusive
  BY ExclusivePorts
<1> QED BY <1>1, SocketInvariant, PTL

\* The socket modules implement SocketService: a call is answered once, for its own
\* descriptor or a new one, and no socket is opened or closed behind the caller's back,
\* whatever the order in which answers, data and requests of all modules meet in
\* sock_module (sock_module.cc, all handlers; minet_socket.cc MinetSend, MinetReceive).
THEOREM SocketsImplementService == Spec => ImplementsService
<1>1. Init => Service!Init
  <2> SUFFICES ASSUME Init PROVE Service!Init
    OBVIOUS
  <2>1. call = NoCall /\ sock2socklib = <<>>
    BY DEF Init, SockLibInit, FifosInit
  <2>2. call.sockfd = 0
    BY <2>1 DEF NoCall
  <2>3. \A i \in Sock : socks[i].status = "FREE"
    BY DEF Init, SockInit, FreeRecord
  <2>4. Phase = "idle" /\ Answer = -1 /\ {i \in Sock : socks[i].status # "FREE"} = {}
    BY <2>1, <2>3 DEF Phase, Answer
  <2> QED BY <2>2, <2>4 DEF Service!Init
<1>2. SocketInv /\ SocketInv' /\ [Next]_vars => ServiceStep
  <2> SUFFICES ASSUME SocketInv, SocketInv', [Next]_vars PROVE ServiceStep
    OBVIOUS
  <2> QED BY CallStep, OnlyTcpListens DEF SocketInv, Pairing, PortInv
<1>3. SocketInv /\ SocketInv' /\ [Next]_vars => [Service!Next]_(Service!vars)
  BY <1>2 DEF ServiceStep
<1> QED BY <1>1, <1>3, SocketInvariant, PTL DEF Spec, ImplementsService, Service!Spec
==============================================================================

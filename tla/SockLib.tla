------------------------------- MODULE SockLib -------------------------------
(***************************************************************************)
(* libminet/minet_socket.cc in MINET_USER mode: each library call is one   *)
(* request to sock_module and a wait for its reply, so the application has *)
(* one request outstanding at most.                                        *)
(***************************************************************************)
EXTENDS SockInt

CONSTANTS
  Protocols,     \* protocols the application opens sockets for
  Listeners,     \* addresses the application may bind to
  WriteSizes,    \* lengths the application writes
  Unserved       \* calls of UnservedType the application makes

ASSUME SockLibAssumption ==
  /\ Protocols \subseteq {"UDP", "TCP"}
  /\ Listeners \subseteq {IP_ADDRESS_ANY, MyIPAddr}
  /\ WriteSizes \subseteq Nat
  /\ Unserved \subseteq UnservedType

NoCall == [type |-> "none", sockfd |-> 0]

VARIABLE call    \* the call in progress, NoCall between calls

SockLibTypeOK == call \in [type : SlrrType, sockfd : Sock] \cup {NoCall}

SockLibInit == call = NoCall

Call(type, sockfd, c, data) ==
  /\ call = NoCall
  /\ call' = [type |-> type, sockfd |-> sockfd]
  /\ socklib2sock' = Append(socklib2sock,
       [type |-> type, sockfd |-> sockfd, connection |-> c, data |-> data])
  /\ UNCHANGED sock2socklib

minet_socket(protocol) ==
  Call("mSOCKET", 0, [NoConnection EXCEPT !.protocol = protocol], <<>>)

minet_bind(sockfd, addr, port) ==
  Call("mBIND", sockfd, [NoConnection EXCEPT !.src = addr, !.srcport = port], <<>>)

minet_listen(sockfd) == Call("mLISTEN", sockfd, NoConnection, <<>>)

minet_accept(sockfd) == Call("mACCEPT", sockfd, NoConnection, <<>>)

minet_connect(sockfd, addr, port) ==
  Call("mCONNECT", sockfd, [NoConnection EXCEPT !.dest = addr, !.destport = port], <<>>)

minet_read(sockfd) == Call("mREAD", sockfd, NoConnection, <<>>)

minet_write(sockfd, len) ==
  Call("mWRITE", sockfd, NoConnection,
       [i \in 1 .. len |-> [from |-> MyIPAddr, fromport |-> 0, toport |-> 0]])

minet_close(sockfd) == Call("mCLOSE", sockfd, NoConnection, <<>>)

minet_unserved(type, sockfd) == Call(type, sockfd, NoConnection, <<>>)

(***************************************************************************)
(* The library call returns what the reply says.                           *)
(***************************************************************************)
Return ==
  /\ call # NoCall
  /\ sock2socklib # <<>>
  /\ sock2socklib' = Tail(sock2socklib)
  /\ call' = NoCall
  /\ UNCHANGED socklib2sock
==============================================================================

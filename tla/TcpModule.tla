------------------------------ MODULE TcpModule ------------------------------
(***************************************************************************)
(* The TCP module as sock_module expects it.  The repository holds only a  *)
(* skeleton (core/tcp_module.cc prints what it receives), so this is an    *)
(* environment: it answers each request with one STATUS, in order; it      *)
(* offers the outcome of a connect or a new connection with a WRITE, and   *)
(* passes data up, with a WRITE as well, for the connections whose offer   *)
(* sock_module took with a STATUS and has not closed.                      *)
(***************************************************************************)
EXTENDS SockInt

CONSTANTS
  MaxSegments,   \* bound: events the network causes in a behaviour
  MaxSegmentLen  \* bound: bytes in a segment

ASSUME TcpAssumption == MaxSegments \in Nat /\ MaxSegmentLen \in Nat

VARIABLES
  tcbs,       \* [connection, state] of every connection it knows
  segments    \* how many network events have happened

tcpVars == <<tcbs, segments>>

\* OFFERED and FAILED: a WRITE reports the connection, or its failure, and
\* its STATUS has not come back.
TcbState == {"LISTEN", "SYN_SENT", "OFFERED", "FAILED", "ESTABLISHED"}

TcpTypeOK ==
  /\ tcbs \subseteq [connection : Connection, state : TcbState]
  /\ segments \in 0 .. MaxSegments

TcpInit ==
  /\ tcbs = {}
  /\ segments = 0

Tcb(c, state) == [connection |-> c, state |-> state]

TCPReply(req, n, err) ==
  tcp2sock' = Append(tcp2sock, StatusReply(req, <<>>, n, err))

Indicate(c, data, err) ==
  tcp2sock' = Append(tcp2sock,
    [type |-> "WRITE", connection |-> c, data |-> data, bytes |-> Len(data),
     error |-> err])

\* It may refuse what is not open yet.
Open(req, state) ==
  \/ /\ tcbs' = tcbs \cup {Tcb(req.connection, state)}
     /\ TCPReply(req, 0, "EOK")
  \/ /\ Tcb(req.connection, state) \notin tcbs
     /\ TCPReply(req, 0, "ECONN_FAILED")
     /\ UNCHANGED tcbs

Settle(t, req) ==
  IF t.connection = req.connection /\ t.state = "OFFERED" /\ req.error = "EOK"
  THEN Tcb(t.connection, "ESTABLISHED") ELSE t

Dropped(t, req) ==
  /\ t.connection = req.connection
  /\ t.state = "FAILED" \/ (t.state = "OFFERED" /\ req.error # "EOK")

TcpHandleSock ==
  LET req == Head(sock2tcp)
  IN  /\ sock2tcp # <<>>
      /\ sock2tcp' = Tail(sock2tcp)
      /\ \/ req.type = "CONNECT" /\ Open(req, "SYN_SENT")
         \/ req.type = "ACCEPT" /\ Open(req, "LISTEN")
         \/ /\ req.type = "WRITE"
            /\ TCPReply(req, Len(req.data), "EOK")
            /\ UNCHANGED tcbs
         \/ /\ req.type = "CLOSE"
            /\ tcbs' = {t \in tcbs : t.connection # req.connection}
            /\ TCPReply(req, 0, "EOK")
         \/ /\ req.type = "STATUS"
            /\ tcbs' = {Settle(t, req) : t \in {u \in tcbs : ~Dropped(u, req)}}
            /\ UNCHANGED tcp2sock
      /\ UNCHANGED segments

Offer(c, err) == Tcb(c, IF err = "EOK" THEN "OFFERED" ELSE "FAILED")

\* The far end answers a connect, or does not.
ConnectOutcome(t, err) ==
  /\ t.state = "SYN_SENT"
  /\ tcbs' = (tcbs \ {t}) \cup {Offer(t.connection, err)}
  /\ Indicate(t.connection, <<>>, err)

\* A remote host connects to a listening connection, or fails to.
Arrival(t, host, port, err) ==
  LET c == [t.connection EXCEPT !.dest = host, !.destport = port]
  IN  /\ t.state = "LISTEN"
      /\ \A u \in tcbs : u.connection # c
      /\ tcbs' = tcbs \cup {Offer(c, err)}
      /\ Indicate(c, <<>>, err)

Received(t, len) ==
  /\ t.state = "ESTABLISHED"
  /\ Indicate(t.connection,
       [i \in 1 .. len |->
          [from |-> t.connection.dest, fromport |-> t.connection.destport,
           toport |-> t.connection.srcport]], "EOK")
  /\ UNCHANGED tcbs

TcpNetwork ==
  /\ segments < MaxSegments
  /\ segments' = segments + 1
  /\ \E t \in tcbs :
       \/ \E err \in {"EOK", "ECONN_FAILED"} :
            \/ ConnectOutcome(t, err)
            \/ \E host \in Remotes, port \in PeerPorts : Arrival(t, host, port, err)
       \/ \E len \in 0 .. MaxSegmentLen : Received(t, len)
  /\ UNCHANGED sock2tcp

TcpModuleStep == TcpHandleSock \/ TcpNetwork
==============================================================================

------------------------------ MODULE SockTable ------------------------------
(***************************************************************************)
(* The data structures of sock_module (libminet/sock_mod_structs): the     *)
(* socket table and the port table, as pure operators on their values.     *)
(***************************************************************************)
EXTENDS SockInt

Status == {"FREE", "UNBOUND", "BOUND", "LISTENING", "ACCEPT_PENDING",
           "CONNECT_PENDING", "CONNECTED", "READ_PENDING", "WRITE_PENDING"}

(***************************************************************************)
(* toApp is TRUE when the record holds the handle of the application; no   *)
(* other non-zero handle is ever stored.  fromApp and the notification     *)
(* flags are never read, and blocking is 1 in every record because nothing *)
(* calls SetBlockingStatus: they are left out.                             *)
(***************************************************************************)
SockRecord ==
  [connection : Connection, bin : Seq(Byte), status : Status, toApp : BOOLEAN]

FreeRecord ==
  [connection |-> NoConnection, bin |-> <<>>, status |-> "FREE", toApp |-> FALSE]

SockTable ==
  {table \in [Sock -> SockRecord] : \A i \in Sock : Len(table[i].bin) <= BinSize}

Usable == 1 .. NumSocks - 1

\* Fault: a socket that was never bound counts as free.
FreeOrUnboundSocks(socks) ==
  {i \in Usable : socks[i].status \in {"FREE", "UNBOUND"}}

FreeSocks(socks) == {i \in Usable : socks[i].status = "FREE"}

FindFreeSock(socks) ==
  IF FreeSocks(socks) = {} THEN -1 ELSE Min(FreeSocks(socks))

\* Fault: the far end is not compared.
AnswersAnyPeer(record, c) ==
  MatchesSource(record.connection, c) /\ record.connection.protocol = c.protocol

(***************************************************************************)
(* A record matches a connection exactly, or it waits in accept() with its *)
(* far end open.                                                           *)
(***************************************************************************)
Answers(record, c) ==
  \/ record.connection = c
  \/ /\ record.status = "ACCEPT_PENDING"
     /\ record.connection = [c EXCEPT !.dest = IP_ADDRESS_ANY,
                                      !.destport = PORT_ANY]

FindConnection(socks, c) ==
  LET found == {i \in Usable : Answers(socks[i], c)}
  IN  IF found = {} THEN -1 ELSE Min(found)

\* It refuses descriptor 0, which no caller passes: record 0 has no application.
SetStatus(socks, sock, stat) == [socks EXCEPT ![sock].status = stat]

CloseSocket(socks, sock) == [socks EXCEPT ![sock] = FreeRecord]

(***************************************************************************)
(* The port table.  Every portArrayIndex entry is IP_ADDRESS_ANY and none  *)
(* is ever assigned, so a search by address finds row 0 for the wildcard   *)
(* and nothing for any other address: row 0 is the table.  An entry is the *)
(* descriptor that reserved the port, 0 for none.                          *)
(***************************************************************************)
PortTable == [1 .. NumPorts - 1 -> Sock]

FreePorts(ports, ip) ==
  {p \in 1 .. NumPorts - 1 : ip = IP_ADDRESS_ANY /\ ports[p] = 0}

FindFreePort(ports, ip) ==
  IF FreePorts(ports, ip) = {} THEN -1 ELSE Min(FreePorts(ports, ip))

AssignPort(ports, port, sock) == [ports EXCEPT ![port] = sock]

\* Fault: a port that is asked for is not checked.
ResolveSrcPortUnchecked(ports, c) ==
  IF c.srcport = PORT_NONE THEN FindFreePort(ports, c.src) ELSE c.srcport

(***************************************************************************)
(* ResolveSrcPort: the port a bind or a connect gets, -1 for none.  The    *)
(* caller then reserves it with AssignPort.                                *)
(***************************************************************************)
ResolveSrcPort(ports, c) ==
  CASE c.srcport = PORT_NONE -> FindFreePort(ports, c.src)
    [] c.srcport \in FreePorts(ports, c.src) -> c.srcport
    [] OTHER -> -1

(***************************************************************************)
(* RequestRecord: what SendTCPRequest and SendUDPRequest remember of a     *)
(* request until its STATUS arrives.                                       *)
(***************************************************************************)
RequestRecord == [type : SrrType, connection : Connection, sock : Sock]
==============================================================================

# A TLA+ model of the Minet stack

Minet is a user-level TCP/IP stack built as a set of UNIX processes. Each
process (a *module*) runs an event loop: it takes the next message from one of
its named pipes, handles it completely, sends messages, and waits again. There
is no shared memory. This directory models both halves of the stack, from the
application's socket library to the transport modules (`MinetSockets`) and from
the transports to the wire between hosts (`LinkLayer`), the bytes of the packets
that go through them (`PacketPath`), how the processes find each other and die
together (`Startup`), the older device driver with its signal handler
(`LegacyDriver`), and the state of a TCP connection (`TcpState`). It states,
checks and proves what makes each correct. Paths below are relative to
`src/src`.

## The system

```
 application + socket library      minet_socket.cc      one call outstanding
        |  ^   SockLibRequestResponse
        v  |
    sock_module                    sock_module.cc       socks, ports, tcpq, udpq
     |  ^     |  ^   SockRequestResponse
     v  |     v  |
 udp_module  tcp_module            udp_module.cc        clist
     |  ^     |  ^   Packet
     v  |     v  |
       ip_mux -- icmp_module, ipother_module
         |
     ip_module <-> arp_module      ARP cache
          \       /
        ethernet_mux
             |
       device_driver2              (or device_driver: two ring buffers,
                                    the processes reader and writer)
```

| component | state | operations | interacts by | hard part |
|---|---|---|---|---|
| socket library, `libminet/minet_socket.cc` | none of its own | one request per call | a request, then a blocking receive of the reply | one call at a time, so a missing or doubled reply is fatal |
| `core/sock_module.cc` | socket table, port table, queues of unanswered requests | 8 application requests, WRITE and STATUS of each transport | FIFOs with every neighbour | replies have no identifiers: they are matched by order and by socket state |
| `libminet/sock_mod_structs.*` | the tables | searches and updates | called by sock_module | first match wins; a closed socket's record is reused at once |
| `core/udp_module.cc` | list of forwards | FORWARD, WRITE, CLOSE, STATUS, datagram | FIFOs with sock_module and ip_mux | wildcard matching, data in flight across a close |
| `core/tcp_module.cc` | none (a skeleton) | prints what it gets | FIFOs | its contract is implied by sock_module |
| `core/icmp_module.cc`, `libminet/icmp.cc` | none that matters | errors, replies, reports to sock_module | FIFOs | an answer is built from the packet it answers, damage and all |
| `core/ip_mux.cc`, `core/ethernet_mux.cc` | none | dispatch | FIFOs | full pipes |
| `core/ip_module.cc`, `core/arp_module.cc`, `libminet/arp.cc` | ARP cache | send after a synchronous question | FIFOs, one of them used as a call | cycles of full pipes, dropped packets |
| `lowlevel/device_driver2.cc` | none | capture, check, send | FIFOs, libpcap | order of service |
| `lowlevel/device_driver.cc`, `reader.cc`, `writer.cc`, `libminet/ethernet.cc` | two rings, the packet being sent | main loop, signal handler, two child processes | sockets, a signal, two FIFOs | a handler that interrupts the main loop, lost wake-ups |
| `libminet/raw_ethernet_packet_buffer.cc` | ring buffer | push, pull, `Numitems` | called by device_driver | indices that wrap |
| `libminet/packet.cc`, `headertrailer.cc`, `buffer.cc`, `ip.cc`, `udp.cc`, `tcp.cc`, `icmp.cc`, `util.cc` | the bytes of a packet | set and get fields, checksums, push and extract headers | called by the modules | fields that share bytes, padding, odd lengths, damage |
| `libminet/tcpstate.cc` | sequence numbers, windows, buffers | arithmetic modulo 2^32 | called by a TCP module | wrap-around, unsigned underflow |
| `libminet/Minet.cc`, `config.cc` | open FIFOs | connect, accept, next event, send, receive | named pipes | opens that wait for each other, fixed priority, blocking sends |
| `libminet/Monitor.cc`, `core/monitor.cc` | FIFOs of the monitored modules | events | FIFOs | a monitor that is missing, slow or gone stops or kills the stack |
| `libminet/route.cc`, `packet_queue.cc`, `ip_module_routing.cc`, `ip_module_diffusion.cc`, `lowlevel/bridge.cc`, applications, tests, viewer | | | | not modelled; see the end of this file |

What makes the upper half correct: a call is answered exactly once and for its
own descriptor; no STATUS is taken for another request's; udp_module forwards
for the bound sockets and no others; data reaches only sockets it was sent to; a
UDP port belongs to one socket; every call that needs nothing from the network
returns. What makes the lower half correct: an answer of arp_module is the
answer to the question ip_module asked, a frame carries the Ethernet address of
the host its packet is for, packets keep their order, no module waits for ever
for room in a pipe. What makes packets correct: what a module passes up is what
the sender set, a checksum tells damage from none, replies and errors say to the
sender what they should, and no answer of a known type is answered. What makes the driver
correct: its handler and its main loop never send at once, neither repeats,
loses in passing or reorders a packet, and none is stuck while packets flow.
What makes a start correct: no opens wait in a circle, a rightly described stack
comes up, and it goes down as a whole once somebody lets it. `PROJECT.json` lists each hazard at its
line with the property that watches it.

## The modules

| module | models | notes |
|---|---|---|
| `SockInt` | `sockint.h/.cc`, the FIFOs | constants of the instance, `Connection` and its wildcard matching, message types, the six FIFOs as sequences |
| `SockTable` | `sock_mod_structs`, `ResolveSrcPort` | operators on values, no variables |
| `SockModule` | `sock_module.cc` | variables `socks`, `ports`, `tcpq`, `udpq`; one action per message, each a whole turn of the loop |
| `UdpModule` | `udp_module.cc` | variables `clist`, `datagrams` |
| `SockLib` | `minet_socket.cc` (`MINET_USER`) | variable `call`, the call in progress |
| `TcpModule` | a TCP module, as sock_module expects it | environment, external |
| `SocketService` | what the interface promises | abstract specification: one caller, its descriptors, one answer per call |
| `MinetSockets` | the composition | `Next`, `Spec`, `FairSpec`, all properties, the refinement mapping `Service` |
| `MCSockets` | instances for TLC | symmetry of remote hosts |
| `SocketProofs`, `CallProofs`, `DataProofs` | | theorems and their lemmas; each extends the one before it |
| `MinetPipes` | `Minet.cc` for the lower half | variables `pipe`, `out`; order of service, receive, a send that blocks |
| `LinkInt` | packets, frames, `ARPRequestResponse` | constants, message types |
| `ArpModule` | `arp_module.cc`, `arp.cc` | variable `cache` |
| `IpModule` | `ip_module.cc` | variable `sending`, the packet `SendPacket` is busy with |
| `EthernetMux`, `IpMux` | `ethernet_mux.cc`, `ip_mux.cc` | no state |
| `DeviceDriver` | `device_driver2.cc` | variables `wire`, `faults`: the driver, and the link behind it (external) |
| `LinkLayer` | the composition on several hosts | `Next`, `Spec`, `FairSpec`, all properties; the transports (external) |
| `MCLink` | instances for TLC | |
| `LinkProofs` | | theorems and their lemmas |
| `Buffer`, `Checksum` | `buffer.cc`, `util.cc` | byte strings that grow, byte order, `OnesComplementSum`; no variables |
| `Packet`, `Serialization` | `packet.cc`, `headertrailer.cc`, and what each `Serialize` and `Unserialize` writes and reads | a packet is a row of headers and a payload; a stream is a sequence of fields |
| `IpHeader`, `UdpHeader`, `TcpHeader`, `IcmpHeader` | `ip.cc`, `udp.cc`, `tcp.cc`, `icmp.cc` | setters, getters and checksums on bytes |
| `IcmpPacket` | the `ICMPPacket` constructors and `Respond` of `icmp.cc` | errors and replies |
| `PacketPath` | the handlers of `ip_module`, `ip_mux`, `udp_module`, `tcp_module`, `icmp_module`, on bytes | variables `at`, `host`, `packet`, `upcall`, `noise` and history `made`, `origin` |
| `MCPackets` | instance for TLC | the packets that peers send |
| `PacketBuffer` | `raw_ethernet_packet_buffer.cc` | operators on a ring |
| `LegacyDriver` | `device_driver.cc`, `ethernet.cc`, `reader.cc`, `writer.cc` | main loop, handler, two processes, two rings |
| `DriverService` | what a driver promises | abstract specification: two queues that drop and never reorder or repeat |
| `MCDriver` | instance for TLC | |
| `Startup`, `MCStartup` | `MinetInit`, `MinetConnect`, `MinetAccept` as each main calls them, `monitor.cc` | variables `todo`, `opened`, `stopped`, `dead`, `events`; the setups |
| `TcpState` | `tcpstate.cc` | operators on values |
| `PacketProofs`, `DatagramProofs`, `DriverProofs`, `StartupProofs` | | theorems and their lemmas |

`MinetSockets` extends the four process modules, `LinkLayer` the five; their
`Next` takes a step of one process and leaves the others' variables alone. A few
operators marked `\* Fault:` next to a definition are wrong versions of it;
substituted for it they show that a property notices (the `mutants` of
`PROJECT.json`).

### How state and steps correspond to the code: sockets

* `socks[i]` is `socks.sockArray[i]`. `toApp` says whether the record holds the
  application's handle; there is one application, so a non-zero handle is that
  one. `fromApp` and the notification flags are written and never read.
  `blocking` is 1 in every record because nothing calls `SetBlockingStatus`, so
  the `EWOULD_BLOCK` branches are dead and left out.
* `ports` is row 0 of `portArray`. All ten `portArrayIndex` entries are the
  wildcard address and none is assigned, so a search by address finds row 0 for
  the wildcard and fails for anything else.
* `tcpq` and `udpq` are the queues of `RequestRecord`. `HandleUDPStatus` and
  `HandleTCPStatus` require theirs to be non-empty where the code would
  dereference a null pointer; `NoStatusWithoutRecord` proves that this guard
  never excludes a step.
* A FIFO is a sequence. `MinetSend` appends, `MinetReceive` takes the head. The
  order in which `MinetGetNextEvent` serves FIFOs is kept: a request of the
  application is read only when `tcp2sock` and `udp2sock` are empty, and
  `udp2sock` only when `tcp2sock` is. In udp_module, ip_mux comes first: a
  datagram that arrives and is handled in one step stands for one that waited,
  since udp_module's two sources meet nowhere but in its own state.
* Payload bytes are records of sender, sender's port and port they were sent to,
  which is all the properties tell apart.
* Both transports are configured, as in a normal start; the `ENOT_IMPLEMENTED`
  branches for a missing one are left out.
* `TcpModule` answers each CONNECT, ACCEPT, WRITE and CLOSE with one STATUS in
  order, may refuse a CONNECT or an ACCEPT that is not open yet, reports the
  outcome of a connect or a new connection with one WRITE, and sends data only
  on a connection whose report sock_module took and has not closed. A TCP module
  that refused an ACCEPT and then completed it would make sock_module answer the
  call twice; this environment does not.

### How state and steps correspond to the code: link layer

* The upper model performs a handler in one step, its pipes being unbounded. The
  lower one asks who waits for whom, so a handler takes several: the read of a
  message, with every decision the handler makes, puts the handler's sends into
  `out[h][m]`; each send is then a step of its own, possible once the pipe has
  room. A module with sends left takes no event, as a module blocked in `write`
  does not return to `select`.
* `pipe[h][<<m, n>>]` is the FIFO from m to n. `Capacity` counts messages; the
  program's pipes hold 64 KiB, so a full pipe needs a burst, which the instances
  shorten. `MyFifos` is the order of the `MinetConnect` and `MinetAccept` calls,
  and `MinetGetNextEvent` serves the first that has something.
* `SendPacket` writes a question to arp_module and reads the answer in the
  middle of its handler. `sending` holds its packet between the two; meanwhile
  ip_module takes no event (`InLoop`), and `TakeAnswer` takes whatever
  arp_module's pipe has.
* `cache` starts with the host's own entry and never loses one. A question it
  cannot answer is returned marked `RESPONSE_UNKNOWN` and then asked of the
  link. The code accepts an answer that is OK, or has an address other than the
  blank one, or is for the broadcast address; so broadcasts go out under the
  blank address (`Resolved`).
* The driver captures in promiscuous mode with the filter `host <ip> or arp`, so
  a frame reaches hosts by its packet's addresses and not by its Ethernet
  address. It reads ethernet_mux's pipe before the link (`PcapIsNext`) and sends
  only ARP and IP of its own card.
* A packet is its addresses, the module that handles its protocol, the first
  thing a check of its header finds, and a number. A damaged header either keeps
  the sender or names another host; the ICMP error goes to the address in the
  packet.
* The link and the transports are external. The link keeps order; it may lose a
  frame for any of its hosts unless `Lossless`, damages `MaxFaults` headers, and
  may show a host its own frames. A host of an instance stands for any machine
  that answers ARP and sends IP packets.
* ethernet_mux's fourth neighbour, which takes frames of other types, is left
  out: nothing in the stack produces or understands them.

### How state and steps correspond to the code: packets

* A buffer is a sequence of bytes. `SetData` beyond the end fills the gap as
  `Buffer::SetData` does, `ExtractFront` splits. What a copied C structure has
  in bytes nobody wrote is any of `Garbage`: the first words of a new
  `IPHeader`.
* Each setter and getter of a header works on the bytes with the masks, shifts
  and byte order of the code, so that fields sharing a byte or a word (version
  and header length, flags and fragment offset, data offset and flags) can
  disturb each other. Every setter of `IPHeader` recomputes the checksum; those
  of the others take the packet for the pseudo header.
* `PacketPath` has one packet on its way at a time: `at` is who has it next. A
  step is the whole handler of that module, from reading the packet out of its
  FIFO (`Unserialize(Serialize(p))`) to what it sends. `LinkLayer` has the
  queues, the ARP questions and the interleavings that this module leaves out.
* The link pads a frame to `MinFrame` or leaves it, and may add one of `Damages`
  to one byte of the IP packet, but not to a byte that says how long something
  is (the headers themselves are cut out by those, and what is read beyond the
  end is undefined). Peers run some other stack: their packets have options,
  fragments and a time to live of 0, which Minet itself never sends.
* arp_module knows its own host from the start, so that a packet for the host
  that sends it goes out to its own Ethernet address. It comes back where the
  link shows a host its own frames, and is gone where not; both occur
  (`SendPacket`).
* `origin` and `made` are history: no guard reads them.

### How state and steps correspond to the code: the older driver

* `pc` is where the main loop is: `Prepare` is up to the select,
  `CriticalSection` from the return of select to the packet for ethernet_mux,
  `InputFromMux` and `WriteNextPacket` the rest. `masked` is the blocked
  `ETHERNET_SIGNAL`. Only reads and writes of rings, sockets and FIFOs that
  another process or the handler could see are steps of their own.
* The handler is `handler`: its own select, `MyISR` for the reader, for the
  writer, and the write that blocks. While it runs the main loop stands still. A
  select of the main loop that waits is broken off by it (`EINTR`).
* `PacketBuffer` is the ring as it is: a slot stays free, a push on a full ring
  is dropped, and `Numitems` counts one less once the indices have wrapped. So
  the main loop may find 0 items in a ring that holds one (`OutputLagsByOne`).
* The reader captures, writes to its socket, and raises the signal: three steps
  of the code, two here. The writer takes a packet, sends it or discards it, and
  writes a flag; its `kill` has its arguments swapped, so it raises nothing.
* Sockets and FIFOs hold `SocketRoom` packets and `FlagRoom` flags. With a full
  flag socket the writer and the driver can block each other; a flag is a few
  bytes, so that the instances' one or two stand for thousands.

### How state and steps correspond to the code: a start

* `MinetConnect` opens the FIFO it reads first and then the one it writes,
  `MinetAccept` the other way round; an `open` returns when the other end is
  open or being opened (`Returns`). `todo[m]` is the row of opens and events
  that m's main performs, computed from its calls and from what `MINET_MODULES`
  and `MINET_MONITOR` list. Both are searched with `strstr`, so that
  `ipother_module` lists `other_module` too (`Lists`).
* The monitor opens one FIFO for each monitored module, in its own fixed order,
  which is also the order in which it serves them. A monitored module writes an
  event for everything it does, which blocks when the FIFO holds `EventRoom`.
* An end of file makes `MinetReceive` throw, and a write to a monitor that is gone
  raises `SIGPIPE`; both end in `death` (`Minet.cc:35`), which `MinetInit`
  installs for the signals. With `MINET_DISPLAY` unset or `xterm` (`asks`) it
  waits for enter, with the FIFOs open: the process is `stopped` until `Enter`,
  and its neighbours see no end of file. Otherwise the process is `dead` at once.
  `HangUp` is the death of a module that comes to read an end of file, after the
  event that `MinetGetNextEvent` writes first; `BrokenPipe` that of a monitored
  module at the first event it has for a monitor that is gone. A setup's `dies`
  are the processes that may end of themselves.

### TCP connection state

No module of the repository uses `TCPState`; `TcpState` has each of its
operations as an operator on words of `W` values, and the first theorems of
`PacketProofs` say what they do for every value.

## The runs

The runs of the upper half are of `MCSockets`. `CHECK_DEADLOCK FALSE` in all of
them: the network's messages are bounded, and an application blocked in a read
for which no more will come waits for ever, as it does in the program. Deadlock
that is not of that kind would show in `NeverForgotten` and `CallsReturn`.

| run | question | bounds | result |
|---|---|---|---|
| `Udp` | over UDP: types, answered once, never forgotten, paired, forwards follow the table, data to its socket, ports exclusive, refinement | 2 descriptors, 2 ports, buffer of 1 byte, 2 datagrams of at most 1 byte, 2 requests outstanding | holds |
| `Tcp` | over TCP: paired, answered once, data comes from the connected peer, refinement | 2 descriptors, 1 port that they share, 2 hosts (symmetric), 3 network events, segments of at most 1 byte | holds |
| `Mixed` | both transports in one table; every call that needs nothing from the network returns | 2 descriptors, 2 ports, 1 datagram, 1 network event, 1 request outstanding | holds under `FairSpec` |
| `CloseUnbound` | forwards follow the table when unbound sockets are closed too | as `Udp`, no datagram | **violated** |
| `AcceptFullTable` | an accept is never forgotten | 2 descriptors | **violated** |
| `ReadRepeats` | a read takes its data | as `Udp` | **violated** |

**Bounds.** Two descriptors are the fewest with which one socket can take what
belongs to another, and a reopened descriptor can meet messages of its former
life; the port pool (2 or 1) runs out in the runs, since closes lose ports. A
buffer of one byte can be empty, full, and overflow with the second datagram.
`MaxOutstanding` bounds the CLOSE requests an application can pile up by closing
faster than udp_module answers: with 2, an answer can be two closes late, after
its descriptor was closed, reopened and closed again (`AnswersPair` is proved
for any number). Two datagrams can straddle a close, reopen and bind. One remote
host is enough where no property speaks of hosts; `Tcp` has two, a listener and
the socket accepted from it, on one port. The application is any sequence of
calls with any descriptor, the wrong ones included.

Those of the lower half are of `MCLink`. `CHECK_DEADLOCK FALSE` for the same
reason (traffic is bounded), and because some modules do block each other when
pipes hold one message (below).

| run | question | bounds | result |
|---|---|---|---|
| `Link` | types and pipes never overfull, answers match questions, frames carry the right address, packets arrive in order and once, the driver and ethernet_mux never block each other | 2 hosts, 2 packets from one of them to the other or to all, pipes of 1, lossy link, own frames seen, 1 damaged header | holds |
| `LinkLive` | all traffic drains; an address asked for is learnt | 2 hosts, one with ipother_module alone, 2 packets from either, pipes of 2, lossless link, 1 damaged header | holds under `FairSpec` |

Two hosts are needed for a question and its answer to cross on the link; pipes
of one message fill with the first burst: two broadcasts that a host sees
itself, with the ARP traffic and the errors they cause, fill both pipes between
the driver and ethernet_mux and the hands of both. In `LinkLive` the hosts run
different transports, so that packets for a missing one draw ICMP errors. Other
modules can block each other when pipes hold one message: ethernet_mux and
arp_module, ethernet_mux and ip_module, ip_module and ip_mux, and ip_mux and its
transport all reach a state where each waits for room in a full pipe to the
other, for ever. The program has the same cycles at 64 KiB; nothing in it but
the size of the pipes keeps them from closing, and `PROJECT.json` lists them as
a hazard.

The others:

| run | question | bounds | result |
|---|---|---|---|
| `Driver` | types, sends never overlap, one packet at most is left behind, the driver implements `DriverService`, and packets keep moving | rings of 3 slots, so 2 packets, sockets of 1 packet and 1 flag, two packets captured and one written, again and again | holds under `FairSpec` |
| `WriteDone` | a flag of the writer is read | as `Driver`, one packet captured, 2 flags | **violated** |
| `Startup` | types, no wait in a circle, somebody can go on until all are up, a stack rightly described comes up, and dies together | 7 setups: all modules but one, a monitor and an application listed as `app`, `other_module` found in `ipother_module`, a monitor that waits for an application of another name, no monitor, and two in which monitor, driver or application die and the others wait for enter, or do not; 6 events in a FIFO | holds under `FairSpec` |
| `Packets` | what is passed up was sent, checksums tell, replies and errors are right, and known ones are not answered | 2 hosts, datagrams of 0, 2 and 3 bytes from and for 2 ports, 6 kinds of IP header, segments with and without options, 5 types of ICMP message, frames padded to 60 bytes or not, one byte damaged by 1, 128 or 255 | holds |

Rings of 3 slots wrap with the third packet, and are empty, hold one, and are
full; all indices and both orders of them occur. With two packets to capture,
one that overtakes another shows; on the way down, where only one is written,
`Implements` says it. In `Startup` a monitored module writes at most 4 events
before it is up, so that a FIFO of 6, like one of 64 KiB, fills only later: with
room for 2 a module that is up and is served before it could keep another from
its last event, and `StartsUp` would not hold. The fifth setup shows that a
module waits for ever for a monitor that is not there, which `Truthful` excepts. In `Packets`, adding 1 and 255 to a byte are the smallest
changes up and down, 128 flips its highest bit, and the payload `<<235, 201>>`
makes a UDP checksum 0, which the receiver takes for none. `Driver`, `WriteDone`
and `Startup` have `CHECK_DEADLOCK FALSE`: a driver whose sockets are full, and
a stack whose processes wait for one that is not started, stand still in the
program as well. `Packets` checks for deadlock: a packet always goes somewhere.

`Fairness` of `LinkLayer`: weak fairness on the event loop of each module and on
each of its sends, which the kernel completes once there is room. Nothing makes
a transport send; transports do take what they are given.

`Fairness` of `LegacyDriver`: every process keeps running; strong fairness on
the main loop and on the handler, because a signal may interrupt the one and the
mask hold up the other again and again, but neither for ever; weak fairness on
the signal, the writer and ethernet_mux's reads. Nothing makes packets arrive:
`InputMoves` and `OutputMoves` have that as their hypothesis. `Fairness` of
`Startup`: weak fairness on all starts together, on the monitor, and on
processes that have an end of file to read; an application reads only when it
makes a call, a module whose monitor is gone may have nothing to tell it for
long, and whether someone hits enter is up to the user. `DiesTogether` therefore
has two hypotheses, `EnterIsHit` and `TrafficPauses`, and excepts the
application and the end of the monitor; it fails without any one of these. A process has few steps to its start and none is disabled by
another's once enabled, so that fairness of each follows.

**What each property says.** `NeverAnsweredTwice` and `NeverForgotten` count the
places that can produce the answer of the call in progress. `UdpAnswersPair` and
`TcpAnswersPair` say that messages under way and records of requests correspond
in order. `ForwardsAreBoundSockets` is about every moment: the entries of
udp_module's list that no request under way is about, together with what the
FORWARD requests under way ask for, are the connections of the bound sockets,
and no connection is twice in the list; whenever udp_module has no request left,
the list is therefore exactly the bound sockets. `NoCyclicWait` says that no set
of processes can have each of them wait for another of the set, at the open of a
FIFO or for room in the monitor's; `StartGoesOn`, that as long as a stack whose
environment is truthful is not all up, some process can take a step; `StartsUp`
adds that it is taken. `ImplementsService` is the
refinement: `SocketService!Spec` under the mapping in `MinetSockets`; that of
`LegacyDriver` is `DriverService!Spec`, where what is in a ring, a hand and a
socket is one queue. `SendsDoNotOverlap` is the assertion of
`EthernetInitiateSend`. `PassedUpAsSent`, `DatagramArrives` and `SegmentVerdict`
compare what a module made of a packet with `origin`; `ReplyAnswersTheRequest`
reads a reply as another stack would, by its total length.
`ErrorReachesTheSender` sums all the bytes of an error that go out, and claims no
more: the total length is 48 whatever the error quotes, an ordinary error has 56
bytes, and a peer that goes by the total length finds its ICMP checksum wrong.
`AnswersEnd` exempts the message of a type that `respond` does not know
(`Invalid`): its ends are not swapped, and if the flag that nobody set says so it
is sent to the host's own address.

**ClosesUnbound.** The passing UDP runs keep the application from closing a
socket it has not bound (`ClosesUnbound = FALSE`), because that loses another
socket's forward; `CloseUnbound` shows it. The TCP runs do not need it.

**Fairness.** `FairSpec` has weak fairness on the turn of each event loop
(sock_module, udp_module, a TCP module on requests) and on the return of a call
whose reply is there: these are operating system processes in a loop around
`select`. Nothing is assumed of the application's next call, of datagrams or of
segments. Because sock_module serves the transports first, an endless flow of
data would starve the application; the number of network messages is bounded
here, so `CallsReturn` says that calls return once the flow ceases. The calls
that wait for the network (read; over TCP, connect and accept) are excepted.

## What the runs found

1. **Closing an unbound UDP socket** sends udp_module a CLOSE of an all-wildcard
   connection, which matches the first forward of any socket and erases it
   (`udp_module.cc:180`). That socket stops receiving.
2. **An accept with no free descriptor** is dropped: the socket returns to
   LISTENING and the application is not told (`sock_module.cc:150`).
3. **A read leaves its data in the buffer** (`sock_module.cc:888`), so a loop of
   reads sees the same bytes and the buffer fills for good.
4. **The writer's signal goes nowhere**: `kill(ETHERNET_SIGNAL, getppid())` has
   its arguments in the wrong order (`writer.cc:135`, `141`), so the flag it has
   written waits until a captured packet raises the signal.

Seen in the model and not counted as contradictions: a UDP socket read before it
is connected becomes CONNECTED with an open far end (`sock_module.cc:321`);
after a UDP connect, datagrams of other hosts received earlier are still in the
buffer; `set_nonblocking`, `sendto` and `recvfrom` are answered with success and
do nothing (`sock_module.cc:980`); ports are never released; a bind to a
specific address, the host's own included, always fails (`sock_module.cc:673`);
an ICMP error of type PARAMETER_PROBLEM loses its pointer, which the next setter
overwrites (`icmp.cc:302`); port-unreachable quotes the data of the datagram
where its UDP header should be (`udp_module.cc:100`); the total length of an
error leaves its last eight bytes and more out (`icmp.cc:292`); an ICMP message of
a type that `respond` does not know may go round between a host and the link
without end (`icmp.cc:402`); the set of descriptors for
writing is serialized twice, that for exceptions not at all (`sockint.cc:296`);
a monitor that is listed and not started stops the stack, and `ipother_module`
in the environment makes ethernet_mux wait for `other_module` (`Minet.cc:471`).

## What is proved

The sockets (`SocketProofs`, `CallProofs`, `DataProofs`: every number of
descriptors, ports, hosts, messages and outstanding requests), the link layer
(`LinkProofs`: every set of hosts and transports, every capacity of the pipes),
the older driver (`DriverProofs`: rings, sockets and packets of any number), the
start of the stack (`StartupProofs`: every environment, every set of modules and
of processes that die), the packets (`PacketProofs`, `DatagramProofs`: every
host, address, payload, length of the smallest frame and damage of a byte), and
the state of a TCP connection for all the values a sequence number has
(`PacketProofs`). Where TLC checks the same property on
an instance the table of runs names it.

The theorems about sockets rest on the named assumptions `SockIntAssumption`,
`UdpAssumption`, `TcpAssumption`, `SockLibAssumption` and
`MinetSocketsAssumption`, which say that counts are naturals, that the table has
a usable descriptor and a usable port, and that the wildcard, this host and the
remote hosts are different addresses. `MinetSockets` counts what the outside may
do (datagrams, segments) up to constants that may be any number.

**Sockets.**

* `SocketProofs.TypeCorrect`: `TypeOK` is inductive as it stands. The part that
  needs an argument is that buffers never exceed `BinSize` (`FitsBounds`) and
  that a search returns -1 or an index of its table (`FindConnectionRange`,
  `FindFreeSockRange`, `ResolveSrcPortRange`).
* `SocketProofs.AnswersPair`, `TcpAnswersKeepOrder`: the pairing is inductive
  relative to `TypeOK`. All answers under way to sock_module followed by all
  requests under way from it are numbered in one sequence. When a transport
  answers a request, the request leaves the head of one FIFO and the answer
  joins the tail of the other, so it keeps its number; when sock_module takes an
  answer every number drops by one; and a STATUS that acknowledges data, or data
  itself, is not counted by `InFlight`. The increasing function `f` that
  `Paired` asks for is therefore kept, shifted or extended at its end by each
  kind of step, and there is one lemma for each.
* `SocketProofs.NoStatusWithoutRecord` follows: a STATUS at the head has number
  1, so it is some record's.
* `CallProofs.AnsweredOnce`, `UdpPortsAreExclusive`, `SocketsImplementService`:
  the three share the invariant `SocketInv`, which is `TypeOK`, the pairing,
  `CallInv` and `PortInv`. Neither of the last two is inductive without the
  other. `CallInv` says that at most one message is between library and
  sock_module, that a pending socket is the one the application waits for, and
  that a record whose STATUS is passed on to the application is of the socket in
  the state its request left it in, and is the only one. The hard case is a
  refusal by tcp_module: sock_module answers the application whatever the record
  says, so the refused socket must still be waiting. That it is, is a fact about
  ports: whatever can be refused is the first request for its port and all there
  is about it (`Undecided`), and while it is there some socket waits in
  `CONNECT_PENDING` or `ACCEPT_PENDING` (`Doubts`). To keep that, the rest of
  `PortInv` says that a port nobody reserved is nowhere in use (`Unreserved`),
  what the status of a socket says of its connection, of its reservation and of
  what tcp_module may know of its port (`Shapes`), that tcp_module offers only
  connections with both ends (`Traffic`), and that no CLOSE is for a connection
  that is still to be listened to (`Closes`). A step is about one port at most;
  `Elsewhere` says what it leaves alone, once for all ports but that one. Each
  step of `Next` is then shown to be a step of `SocketService` or a stutter.
* `DataProofs.DataFindsItsSocket`, `DataComesFromItsPeer`: `DataInv`, on top of
  `SocketInv`, says that every message passed up carries data of its own
  connection, that what a socket has received is for its connection, and that as
  long as the connection may still change nothing has been received (`StockOf`).
  A forward always names a port, so that `FindConnection`, which takes a port of
  0 for any, matches the port of a datagram exactly; and a socket changes its
  connection only while no reply with data is under way.
* `DataProofs.UdpCallsAreHeld`: where no TCP socket can be opened, a call in
  progress is in one of the FIFOs of the library, in a pending socket, or in a
  FORWARD that waits for its STATUS. Over TCP this is false, as
  `AcceptFullTable` shows, so that the theorem has `"TCP" \notin Protocols` as a
  hypothesis.
* `DataProofs.ForwardsFollowSockets`: its hypothesis is that the application
  closes only what it has bound, since otherwise `CloseUnbound` refutes the
  property. `ForwardInv`, on top of `SocketInv` and `DataInv`, says that there
  is one request about a port at most and one entry for it (`OneForEach`); that
  the FORWARD and CLOSE messages under way account for the whole difference
  between the list and the sockets (`Accounted`), which is what the property
  says of every moment: a FORWARD finds no entry for its port but the one it
  replaces, and a CLOSE finds its entry, so that
  `FindMatching`, which takes the first match of a wildcard, never takes
  another's; that udp_module hence refuses nothing (`NothingRefused`), so that
  no bound socket is opened on an error; and that the far end of a socket is
  open until it is connected (`Opens`). That no other FORWARD of the same port
  is under way when one is sent comes from the pairing with `udpq`.

**Link layer.** `LinkProofs` rests on `LinkIntAssumption`, `MinetPipesAssumption`
(a pipe holds a message at least), `IpMuxAssumption` and the others of its
modules.

* `NoDriverMuxDeadlock`: the property alone is not inductive; it must know how
  each came to hold what it is sending. The driver starts to hold a frame only
  when ethernet_mux's pipe is empty; ethernet_mux starts to hold one for the
  driver only when the driver's pipe is empty. `Ordered` says what is left of
  that later: while the driver holds a frame, has others in its pipe, and
  ethernet_mux holds one for the driver, ethernet_mux's pipe to the driver is
  empty, so that ethernet_mux can send. With `Shape` (the domains) and `OneSend`
  (neither ever has two sends to perform) this is inductive. TLC agrees in
  `Link`, where the hypothesis of `Ordered` is reached. Serving the two in the
  other order breaks it, as the mutant `LinkIsNext` shows.
* `TypeCorrect`: `HonestInv` gives for each pipe, for what each module has left
  to send, for the cache, for the packet in hand and for the link what may be in
  them. It is stronger than the types: a cache entry is the address the host
  has, a frame with a packet for a host bears that host's address, and what
  ip_module passes up has a header in order.
* `AnswersAreForTheirQuestions`: the exchange of ip_module and arp_module is in
  one of four phases whenever ip_module has a packet in hand, the question to be
  sent or sent and the answer to be sent or sent, and in none otherwise
  (`Exchange`). arp_module is the only module that ever has two sends to
  perform, and at most the first of them is an answer.
* `FramesReachTheirHost` follows from `HonestInv` and the exchange: the answer
  is about the host asked for and gives its address, and a packet leaves with
  that address.
* `PacketsComeInOrder`: the way of one transport's packets to one host is eleven
  stages (`Flow`): down through ip_mux, ip_module, ethernet_mux and the driver,
  over the link, up through the same four, and what was received. What a module holds for another counts with
  their pipe, so that a send changes no stage. Every other step moves one packet
  from the head of a stage to the end of the next, drops some, or adds packets
  without a number (`Moves`, `AllQuiet`, `Enters`), and each of these keeps the
  numbers in order along the stages together (`InOrder`). The order over the
  whole way is inductive; that of what was received alone is not.

**The older driver.** The theorems of `DriverProofs` rest on
`LegacyDriverAssumption` (a ring has two slots at least, a socket has room for
something).

* `TypeCorrect`, `SendsApart`, `LagsByOne`: the invariant says what keeps main
  loop and handler apart: the signal is blocked exactly between the return of a
  select that found a packet and the end of the send it starts, and no handler
  runs then (`Sends`); so there is a packet in `outgoing` exactly when one of
  the two is about to write it. `Rings` says that the slots from `curout` up to
  `curin`, around the end, hold packets. `OutputLagsByOne` then follows from two
  facts about the ring: a push adds one packet at most, and `Numitems` is 0 for
  a ring of one packet at most (`NumitemsIsOffByOne`); so with one left behind,
  a push is always followed by a pull.
* `Implements` shows, on the same invariant, that each step of the driver is one
  of `DriverService` or changes nothing it sees. As sequences, a push on a ring
  appends or changes nothing (`PushContents`) and a pull takes the head
  (`PullContents`), wherever the ring wraps; a packet that goes from the head of
  one queue to the end of the one before it stays where it is in both together
  (`PassedOn`). So the pushes, pulls and writes of the two loops are stutters,
  and only a full ring, the writer and ethernet_mux's side are steps.

**Starting.** `StartupProofs` rests on `StartupAssumption`: the setups are
records of processes, environments and deaths, and a FIFO has room for the
events that a module sends before it is up.

* `NoCyclicWaitHolds`: all modules open their FIFOs in one order. `Place`
  numbers the pairs of FIFOs between two modules, and `Rank` the FIFOs: a
  module's FIFO to the monitor comes first, and of a pair the one that the
  connecting module reads, an order that `MinetConnect` and `MinetAccept` keep
  from either end. That the main of every module opens its FIFOs in
  ascending rank is a lemma about each of the programs (`Part`, `ModuleStart`),
  whatever is configured and monitored. The invariant (`StartInv`, theorem
  `StartInvInvariant`) says that a process has before it all of its opens that
  it has not done, a module in this order (`OnTheWay`). A module that waits at
  an open then waits for one that has not reached that FIFO, hence stands at
  one of lower rank; and in a set of naturals that is not empty there is a least
  (`NatLeast`, from well-foundedness), so that nobody waits in a circle
  (`NoCircle`). The monitor accepts in the order of its list, not by rank, but
  whomever it waits for, if it has not died, stands at the very FIFO the monitor
  is opening, which is the first that a module opens.
* `StartGoesOnHolds` is the same argument for a stack that is truthful: where
  nobody could go on, everybody would wait for somebody who is not up.
* `TypeCorrect` is a part of `StartInv`.

**Packets.** What a packet is on its way depends on what was written into it byte
by byte, so these proofs start with bytes. They assume `PathAssumption`: the
addresses, ports, payloads and packets of peers are such as the constructors and
setters can be given, a payload fits a frame, and damage is a change of a byte.

* The sum that `OnesComplementSum` adds up is below 2^32 (`Sum32`). Folding
  twice leaves it a word with the same residue modulo 65535, which is 0 only if
  the sum is (`FoldedIsTheResidue`); so the receiver's sum over header and
  checksum comes out right (`ChecksumVerifies`), and changing one word shows,
  except from 0 to 65535 or back (`OneWordShows`). From words to bytes:
  whatever the string and wherever its two zeros, at the start of a word, the
  checksum put there makes the sum of the whole all ones (`ChecksumPut`), and
  one byte that is another than it was, in a string as short as a packet, makes
  the sum another (`DamageShows`): a byte cannot change a word from 0 to 65535.
* `WhatIsPassedUpWasSent` is `PassedUpAsSent`, under the hypothesis
  `MaxNoise <= 1`, which is what the checksum promises: two bytes can be damaged
  so that the sum stays. The inductive invariant `PathInv` says what the packet
  of a sender is in each module. In ip_module it has one IP header with a
  correct checksum and the fields that the sender meant (`Carries`); on the wire
  it is one string of bytes in which that header stands after the Ethernet
  header, with at most one byte, of these or others, changed (`OnTheWire`);
  in ip_mux it is what `PassedUpAsSent` says. The steps need that the
  constructor and the setters do not disturb each other's fields and leave a
  correct checksum, that a packet comes out of a FIFO as it went in
  (`Unserialize` of `Serialize`, for as many headers and bytes as there are),
  and that `ExtractHeaderFromPayload` cuts where `DupeRaw` pasted, which it does
  because `Damage` leaves the lengths alone.
* `DatagramsArriveAsWritten` (in `DatagramProofs`) is `DatagramArrives`, under
  the same hypothesis. udp_module's checksum covers a pseudo-header, the UDP
  header and the data, and is formed from pieces of which one can be of odd
  length; `DatagramInv` follows the datagram: a header whose checksum is correct
  over its ends and data (`Leaving`), in one string with at most one byte
  changed (`Linked`), behind the Ethernet and IP headers that were cut off it
  (`Rising`), and what sock_module is told (`Arrived`). In the last step the
  receiver reads the header and data from what may be followed by the padding of
  a short frame, and its sum is over the data that the length in the UDP header
  says. One changed byte would show in it, so that what it covers is what was
  written; a datagram with a changed byte in the IP header was not passed up.

**TCP state** (the first theorems of `PacketProofs`).

* Numbers are placed on the circle of `W` by their distance
  ahead of `last_acked`. `SetLastAcked` accepts what lies between `last_acked`
  and one past `last_sent` (`AckIsInWindow`), except that with `last_sent` the
  greatest number it accepts nothing, since one past it is 0, which the
  comparison takes for less (`NoAckAtTheWrap`), and it erases a byte even for an
  acknowledgement of nothing new (`AckedTwiceErasesAByte`). What is sent stays
  within both windows if what is in flight does (`SendsWithinTheWindow`), and
  what is received within the buffer (`ReceivesWithinTheBuffer`).

**Only model-checked.** Liveness under fairness is beyond the prover, and
`ENABLED` with it: `CallsReturn`, `TrafficDrains`, `AddressIsLearnt`,
`InputMoves`, `OutputMoves`, `StartsUp` and `DiesTogether`. Of `PacketPath`,
`SegmentVerdict`, `ReplyAnswersTheRequest`, `ErrorReachesTheSender`, `AnswersEnd`
and its types are only checked: they are about the ICMP packets that the stack
makes itself and about tcp_module's sum, for which the lemmas on bytes would
serve, with an invariant for each of the two headers. `NeverForgotten` over TCP
holds in no run, and `ForwardsAreBoundSockets` not for applications that close
unbound sockets.

Some definitions are given in the form that proofs can use. The messages that
`LinkLayer` counts as pending are a set of records, not a filtered sequence. A
wait in a circle is, in `Startup`, a set of processes each of which waits for
one of the set, not a cycle of a closure. The sum of the words of a string and
the unpacking of a FIFO's packet are recursive functions.

## Plan

1. (done) Sockets over UDP and TCP.
2. (done) Link layer, with bounded pipes.
3. (done) Packets byte by byte, with icmp_module; the older driver; starting and
   dying; the state of a TCP connection.
4. Bounded pipes between sock_module and the transports, on `MinetPipes`.
5. (done) Proofs of the safety properties of the sockets and of the link layer,
   and of both refinements.
6. (done) Proof that the processes of a stack do not wait for each other in a
   circle when they start.
7. (done) Proofs that packets and datagrams come through `PacketPath` as they
   were written.
8. Proofs left: the ICMP packets of `PacketPath`; which of the calls over TCP are
   never forgotten.

## Not modelled

* `libminet/route.cc` and `core/ip_module_routing.cc`: `match_route` frees the
  entry that it returns, so that what the module reads of it is undefined.
  `ip_module_diffusion.cc` is a course variant of ip_module too, and takes its
  place.
* `libminet/packet_queue.cc` (no module uses it), `FindEarliest` of `constate.h`
  (no module starts a timer), trailers, and the descriptor sets of
  `SockLibRequestResponse` (for select and poll, which the library does not
  implement in user mode).
* Kernel mode of the library, which passes each call to the operating system.
* `lowlevel/bridge.cc`: pcap and libnet, pure I/O. The applications are clients
  of the library, each a special case of the application of `MinetSockets`,
  which makes any call at any time. The test programs and the viewer of
  timelines are outside the stack.
* In `PacketPath`: broadcasts, damage to the Ethernet header and to bytes that
  say how long something is, packets longer than a frame. The last is a hazard
  of its own: a raw packet is copied into a fixed array
  (`raw_ethernet_packet.cc:21`).
* Printing and the contents of monitoring events.

----------------------------- MODULE LegacyDriver -----------------------------
(***************************************************************************)
(* lowlevel/device_driver.cc with the part of libminet/ethernet.cc it runs *)
(* on: the driver, its signal handler, and the processes reader and writer *)
(* that it forks. The reader captures packets, writes them to its socket   *)
(* and raises ETHERNET_SIGNAL; the writer takes packets from its socket,   *)
(* puts them on the link and writes a flag back. The driver's main loop    *)
(* moves packets between ethernet_mux and two ring buffers, and blocks the *)
(* signal while it does.                                                   *)
(***************************************************************************)
EXTENDS PacketBuffer

CONSTANTS
  Captures,           \* packets the link presents to the reader
  Writes,             \* packets ethernet_mux writes
  input_queue_size,
  output_queue_size,
  SocketRoom,         \* packets a socket or pipe holds
  FlagRoom            \* flags the writer's socket holds

ASSUME LegacyDriverAssumption ==
  /\ NoPacket \notin Captures \cup Writes
  /\ input_queue_size \in Nat \ {0, 1}
  /\ output_queue_size \in Nat \ {0, 1}
  /\ SocketRoom \in Nat \ {0}
  /\ FlagRoom \in Nat \ {0}

Packets == Captures \cup Writes

VARIABLES
  pc,          \* of the main loop: top, select, in or write
  watched,     \* muxout is among the descriptors of the select
  masked,      \* ETHERNET_SIGNAL is blocked
  input_queue,
  output_queue,
  outgoing     \* EthernetOutgoingPacket while EthernetOutgoingPacketsAvailable

mainVars == <<pc, watched, masked, outgoing>>

VARIABLES
  handler,     \* of the handler: off, select, flag or write
  pending      \* ETHERNET_SIGNAL is pending

handlerVars == <<handler, pending>>

VARIABLES
  reader,      \* of the reader: capture, or signal when it has written
  fromReader,  \* packets in the reader's socket
  toWriter,    \* packets in the writer's socket
  flags,       \* DMA_DONE and DMA_FAIL flags in it on their way back
  onLink       \* the packet last put on the link

deviceVars == <<reader, fromReader, toWriter, flags, onLink>>

VARIABLES
  muxin,       \* packets in mux2ether_fifo
  muxout       \* packets in ether2mux_fifo

vars == <<mainVars, input_queue, output_queue, handlerVars, deviceVars, muxin, muxout>>

Init ==
  /\ pc = "top" /\ watched = FALSE /\ masked = FALSE
  /\ input_queue = NewBuffer(input_queue_size)
  /\ output_queue = NewBuffer(output_queue_size)
  /\ outgoing = NoPacket
  /\ handler = "off" /\ pending = FALSE
  /\ reader = "capture" /\ fromReader = <<>>
  /\ toWriter = <<>> /\ flags = 0 /\ onLink = NoPacket
  /\ muxin = <<>> /\ muxout = <<>>

HasRoom(socket) == Len(socket) < SocketRoom

(***************************************************************************)
(* The main loop. It stands still while the handler runs.                  *)
(***************************************************************************)
Prepare ==
  /\ pc = "top" /\ handler = "off"
  /\ pc' = "select"
  /\ watched' = (Numitems(input_queue) > 0)
  /\ UNCHANGED <<masked, outgoing, input_queue, output_queue,
                 handlerVars, deviceVars, muxin, muxout>>

Ready ==
  {fd \in {"muxin", "muxout"} : \/ fd = "muxin" /\ muxin # <<>>
                                \/ fd = "muxout" /\ watched /\ HasRoom(muxout)}

\* select returns, the signal is blocked, and the oldest packet goes to
\* ethernet_mux. What nobody can see of the critical section is one step: all
\* of it when nothing is to be read from ethernet_mux.
\* Fault: the critical section does not block the signal.
CriticalSectionUnmasked ==
  /\ pc = "select" /\ handler = "off" /\ Ready # {}
  /\ watched' = FALSE
  /\ IF "muxout" \in Ready /\ ~ IsEmpty(input_queue)
       THEN /\ muxout' = Append(muxout, NextPacket(input_queue))
            /\ input_queue' = PullPacket(input_queue)
       ELSE UNCHANGED <<muxout, input_queue>>
  /\ pc' = IF "muxin" \in Ready THEN "in" ELSE "top"
  /\ UNCHANGED <<masked, outgoing, output_queue, handlerVars, deviceVars, muxin>>

CriticalSection ==
  /\ pc = "select" /\ handler = "off" /\ Ready # {}
  /\ watched' = FALSE
  /\ IF "muxout" \in Ready /\ ~ IsEmpty(input_queue)
       THEN /\ muxout' = Append(muxout, NextPacket(input_queue))
            /\ input_queue' = PullPacket(input_queue)
       ELSE UNCHANGED <<muxout, input_queue>>
  /\ pc' = IF "muxin" \in Ready THEN "in" ELSE "top"
  /\ masked' = ("muxin" \in Ready)
  /\ UNCHANGED <<outgoing, output_queue, handlerVars, deviceVars, muxin>>

StartsSend(queue) == Numitems(queue) > 0

\* A packet of ethernet_mux is queued, or dropped; SendNextPacket then takes
\* the oldest, which EthernetInitiateSend is about to write.
InputFromMux ==
  /\ pc = "in" /\ handler = "off"
  /\ LET queue == PushPacket(output_queue, Head(muxin)) IN
     IF StartsSend(queue)
       THEN /\ output_queue' = PullPacket(queue)
            /\ outgoing' = NextPacket(queue)
            /\ pc' = "write"
            /\ UNCHANGED masked
       ELSE /\ output_queue' = queue
            /\ pc' = "top" /\ masked' = FALSE
            /\ UNCHANGED outgoing
  /\ muxin' = Tail(muxin)
  /\ UNCHANGED <<watched, input_queue, handlerVars, deviceVars, muxout>>

\* EthernetWriteNextPacket; it blocks, the signal with it, while the socket is full.
WriteNextPacket ==
  /\ pc = "write" /\ handler = "off"
  /\ HasRoom(toWriter)
  /\ toWriter' = Append(toWriter, outgoing)
  /\ outgoing' = NoPacket
  /\ pc' = "top" /\ masked' = FALSE
  /\ UNCHANGED <<watched, input_queue, output_queue, handlerVars,
                 reader, fromReader, flags, onLink, muxin, muxout>>

(***************************************************************************)
(* EthernetInputHandler. A select that is not about to return is broken off*)
(* with EINTR, after which the main loop starts over.                      *)
(***************************************************************************)
\* Fault: the select goes on waiting after the handler, for what it waited for.
InterruptAndRestart ==
  /\ pending /\ ~ masked /\ handler = "off"
  /\ pending' = FALSE
  /\ handler' = "select"
  /\ UNCHANGED <<mainVars, input_queue, output_queue, deviceVars, muxin, muxout>>

Interrupt ==
  /\ pending /\ ~ masked /\ handler = "off"
  /\ pending' = FALSE
  /\ handler' = "select"
  /\ pc' = IF pc = "select" /\ Ready = {} THEN "top" ELSE pc
  /\ UNCHANGED <<watched, masked, outgoing, input_queue, output_queue,
                 deviceVars, muxin, muxout>>

\* The handler's select reports the reader, perhaps with the writer: MyISR
\* queues the packet, or drops it.
ReceiveNextPacket ==
  /\ handler = "select" /\ fromReader # <<>>
  /\ input_queue' = PushPacket(input_queue, Head(fromReader))
  /\ fromReader' = Tail(fromReader)
  /\ handler' = IF flags > 0 THEN "flag" ELSE "select"
  /\ UNCHANGED <<mainVars, output_queue, pending, reader, toWriter, flags, onLink,
                 muxin, muxout>>

\* It reports the writer: MyISR, for DMA_DONE and DMA_FAIL alike, is SendNextPacket.
DMAFinished ==
  /\ handler = "flag" \/ (handler = "select" /\ fromReader = <<>> /\ flags > 0)
  /\ flags' = flags - 1
  /\ IF IsEmpty(output_queue)
       THEN handler' = "select" /\ UNCHANGED <<output_queue, outgoing>>
       ELSE /\ handler' = "write"
            /\ outgoing' = NextPacket(output_queue)
            /\ output_queue' = PullPacket(output_queue)
  /\ UNCHANGED <<pc, watched, masked, input_queue, pending, reader, fromReader,
                 toWriter, onLink, muxin, muxout>>

HandlerWrites ==
  /\ handler = "write" /\ HasRoom(toWriter)
  /\ toWriter' = Append(toWriter, outgoing)
  /\ outgoing' = NoPacket
  /\ handler' = "select"
  /\ UNCHANGED <<pc, watched, masked, input_queue, output_queue, pending,
                 reader, fromReader, flags, onLink, muxin, muxout>>

HandlerReturns ==
  /\ handler = "select" /\ fromReader = <<>> /\ flags = 0
  /\ handler' = "off"
  /\ UNCHANGED <<mainVars, input_queue, output_queue, pending, deviceVars,
                 muxin, muxout>>

(***************************************************************************)
(* The reader: PacketHandler, called by libpcap for each packet.           *)
(***************************************************************************)
Capture(p) ==
  /\ reader = "capture" /\ HasRoom(fromReader)
  /\ fromReader' = Append(fromReader, p)
  /\ reader' = "signal"
  /\ UNCHANGED <<mainVars, input_queue, output_queue, handlerVars, toWriter, flags,
                 onLink, muxin, muxout>>

Signal ==
  /\ reader = "signal"
  /\ reader' = "capture"
  /\ pending' = TRUE
  /\ UNCHANGED <<mainVars, input_queue, output_queue, handler, fromReader,
                 toWriter, flags, onLink, muxin, muxout>>

(***************************************************************************)
(* The writer: one packet from the socket, one to the link, one flag back. *)
(* It then calls kill with its arguments in the wrong order, which raises  *)
(* no signal in the driver.                                                *)
(***************************************************************************)
Launch ==
  /\ toWriter # <<>>
  /\ flags < FlagRoom
  /\ flags' = flags + 1
  /\ onLink' \in {Head(toWriter), onLink}
  /\ toWriter' = Tail(toWriter)
  /\ UNCHANGED <<mainVars, input_queue, output_queue, handlerVars, reader, fromReader,
                 muxin, muxout>>

\* The source address is not ours, or the type neither ARP nor IP: which of
\* the two happens is in the header of the packet, which the model leaves out.
Discard ==
  /\ toWriter # <<>>
  /\ toWriter' = Tail(toWriter)
  /\ UNCHANGED <<mainVars, input_queue, output_queue, handlerVars, reader, fromReader,
                 flags, onLink, muxin, muxout>>

(***************************************************************************)
(* ethernet_mux, external: it writes packets and reads packets.            *)
(***************************************************************************)
MuxWrites(p) ==
  /\ HasRoom(muxin)
  /\ muxin' = Append(muxin, p)
  /\ UNCHANGED <<mainVars, input_queue, output_queue, handlerVars, deviceVars, muxout>>

MuxReads ==
  /\ muxout # <<>>
  /\ muxout' = Tail(muxout)
  /\ UNCHANGED <<mainVars, input_queue, output_queue, handlerVars, deviceVars, muxin>>

Main == Prepare \/ CriticalSection \/ InputFromMux \/ WriteNextPacket

Handler ==
  Interrupt \/ ReceiveNextPacket \/ DMAFinished \/ HandlerWrites \/ HandlerReturns

Reader == Signal \/ \E p \in Captures : Capture(p)

Writer == Launch \/ Discard

Mux == MuxReads \/ \E p \in Writes : MuxWrites(p)

Next == Main \/ Handler \/ Reader \/ Writer \/ Mux

Spec == Init /\ [][Next]_vars

(***************************************************************************)
(* Fairness. Every process keeps running, and what its next step waits for *)
(* being there again and again is enough: signals may interrupt the main   *)
(* loop, and the main loop may block them, but neither for ever. Nothing   *)
(* makes packets arrive from the link or from ethernet_mux.                *)
(***************************************************************************)
Fairness ==
  /\ SF_vars(Main)
  /\ SF_vars(Handler)
  /\ WF_vars(Signal)
  /\ WF_vars(Writer)
  /\ WF_vars(MuxReads)

FairSpec == Spec /\ Fairness

-----------------------------------------------------------------------------
BufferOK(b, size) ==
  /\ b.bufsize = size
  /\ b.packet \in [0 .. size - 1 -> Packets \cup {NoPacket}]
  /\ b.curin \in 0 .. size - 1
  /\ b.curout \in 0 .. size - 1

\* The variables have their types.
TypeOK ==
  /\ pc \in {"top", "select", "in", "write"}
  /\ watched \in BOOLEAN /\ masked \in BOOLEAN /\ pending \in BOOLEAN
  /\ BufferOK(input_queue, input_queue_size)
  /\ BufferOK(output_queue, output_queue_size)
  /\ outgoing \in Packets \cup {NoPacket} /\ onLink \in Packets \cup {NoPacket}
  /\ handler \in {"off", "select", "flag", "write"}
  /\ reader \in {"capture", "signal"}
  /\ \A s \in {fromReader, toWriter, muxin, muxout} : s \in Seq(Packets)
  /\ flags \in 0 .. FlagRoom

(***************************************************************************)
(* The assertion of EthernetInitiateSend (ethernet.cc:301): nobody starts a*)
(* send while another is under way, although both the main loop and the    *)
(* handler that interrupts it start sends.                                 *)
(***************************************************************************)
SendsDoNotOverlap ==
  (pc = "in" \/ handler \in {"select", "flag"}) => outgoing = NoPacket

(***************************************************************************)
(* Numitems may say 0 of a ring that holds a packet, and the main loop then*)
(* starts no send. Yet however packets and flags interleave, one packet at *)
(* most is left behind in the output queue.                                *)
(***************************************************************************)
OutputLagsByOne == Pending(output_queue) <= 1

(***************************************************************************)
(* Nothing is repeated, made up or overtaken between the link and          *)
(* ethernet_mux, either way, by two rings, four processes and a signal     *)
(* handler: the driver implements DriverService.                           *)
(***************************************************************************)
Outgoing == IF outgoing = NoPacket THEN <<>> ELSE <<outgoing>>

Service == INSTANCE DriverService WITH
  up <- Contents(input_queue) \o fromReader,
  down <- toWriter \o Outgoing \o Contents(output_queue)

ImplementsService == Service!Spec

(***************************************************************************)
(* The main loop looks at the input queue before it sleeps, and a signal in*)
(* between is not noticed. As long as packets keep coming in, though, and  *)
(* not so fast that the handler never returns, the oldest one in the queue *)
(* goes up to ethernet_mux.                                                *)
(***************************************************************************)
InputMoves ==
  []<><<ReceiveNextPacket>>_vars /\ []<>(handler = "off") =>
    \/ []<>IsEmpty(input_queue)
    \/ []<><<input_queue'.curout # input_queue.curout>>_vars

(***************************************************************************)
(* Likewise down: the oldest packet of the output queue is sent as long as *)
(* ethernet_mux keeps sending, flags of the writer or not.                 *)
(***************************************************************************)
OutputMoves ==
  []<><<InputFromMux>>_vars =>
    \/ []<>IsEmpty(output_queue)
    \/ []<><<output_queue'.curout # output_queue.curout>>_vars

\* The writer "signals back the parent that the write is done" (writer.cc:21):
\* a flag it has written is read in the end.
WriteDoneIsNoticed == flags > 0 ~> flags = 0
==============================================================================

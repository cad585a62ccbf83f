---------------------------- MODULE Serialization ----------------------------
(***************************************************************************)
(* What MinetSend writes into a FIFO and MinetReceive reads out of it:     *)
(* packets, raw packets and requests, field by field. A stream is a        *)
(* sequence of fields; a reader takes what it needs off the front and      *)
(* leaves the rest. readall and writeall go on until all of a field is     *)
(* through, so that a stream may come in pieces.                           *)
(***************************************************************************)
EXTENDS Packet

\* What a reader got, and what it left.
Got(value, rest) == [value |-> value, rest |-> rest]

SerializeBuffer(b) == <<Len(b)>> \o b

UnserializeBuffer(stream) ==
  Got(SubSeq(stream, 2, stream[1] + 1), SubSeq(stream, stream[1] + 2, Len(stream)))

SerializeHeader(h) == <<h.tag>> \o SerializeBuffer(h.data)

UnserializeHeader(stream) ==
  LET data == UnserializeBuffer(Tail(stream))
  IN  Got(Header(stream[1], data.value), data.rest)

\* The row of trailers, which are none, is written and read like that of headers.
Serialize(p) ==
  <<Len(p.headers)>>
    \o FlattenSeq([i \in DOMAIN p.headers |-> SerializeHeader(p.headers[i])])
    \o SerializeBuffer(p.payload)
    \o <<0>>

Unserialize(stream) ==
  LET read[i \in 0 .. stream[1]] ==
        IF i = 0 THEN Got(<<>>, Tail(stream))
        ELSE LET h == UnserializeHeader(read[i - 1].rest)
             IN  Got(Append(read[i - 1].value, h.value), h.rest)
      headers == read[stream[1]]
  IN  [headers |-> headers.value, payload |-> UnserializeBuffer(headers.rest).value]

SerializeConnection(c) == <<c.src, c.dest, c.srcport, c.destport, c.protocol>>

UnserializeConnection(stream) ==
  Got([src |-> stream[1], dest |-> stream[2], srcport |-> stream[3],
       destport |-> stream[4], protocol |-> stream[5]], SubSeq(stream, 6, Len(stream)))

\* A SockRequestResponse.
SerializeRequest(r) ==
  <<r.type>> \o SerializeConnection(r.connection) \o SerializeBuffer(r.data)
    \o <<r.bytes, r.error>>

UnserializeRequest(stream) ==
  LET c == UnserializeConnection(Tail(stream))
      d == UnserializeBuffer(c.rest)
  IN  [type |-> stream[1], connection |-> c.value, data |-> d.value,
       bytes |-> d.rest[1], error |-> d.rest[2]]
==============================================================================

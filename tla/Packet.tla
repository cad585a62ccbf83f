------------------------------- MODULE Packet -------------------------------
(***************************************************************************)
(* libminet/packet.cc: a packet is a row of headers and a payload. Going   *)
(* down, a module pushes its header; going up, it takes its header off the *)
(* front of the payload. What FindHeader returns is a copy, and SetHeader  *)
(* puts a copy back. No module uses the trailers.                          *)
(***************************************************************************)
EXTENDS Buffer, SequencesExt

NewPacket(payload) == [headers |-> <<>>, payload |-> payload]

Header(tag, data) == [tag |-> tag, data |-> data]

PushFrontHeader(p, tag, data) == [p EXCEPT !.headers = <<Header(tag, data)>> \o @]
PushBackHeader(p, tag, data) == [p EXCEPT !.headers = Append(@, Header(tag, data))]
\* Fault: the header stays.
PopHeaderLeavingIt(p) == p

PopHeader(p) == [p EXCEPT !.headers = Tail(@)]

FindHeader(p, tag) ==
  LET hasTag(h) == h.tag = tag IN p.headers[SelectInSeq(p.headers, hasTag)].data

SetHeader(p, tag, data) ==
  LET set(h) == IF h.tag = tag THEN Header(tag, data) ELSE h
  IN  [p EXCEPT !.headers = [i \in DOMAIN @ |-> set(@[i])]]

ExtractHeaderFromPayload(p, tag, size) ==
  [headers |-> Append(p.headers, Header(tag, ExtractFront(p.payload, size))),
   payload |-> AfterFront(p.payload, size)]

DupeRaw(p) == FlattenSeq([i \in DOMAIN p.headers |-> p.headers[i].data]) \o p.payload
==============================================================================

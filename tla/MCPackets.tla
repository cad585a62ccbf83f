------------------------------ MODULE MCPackets ------------------------------
(***************************************************************************)
(* Two hosts; datagrams with and without data, of which <<235, 201>> makes *)
(* the checksum 0, from and for a port that is bound and one that is not;  *)
(* and a peer that sends segments, echo requests, other ICMP messages and  *)
(* a protocol nobody knows, with and without IP options, as fragments, and *)
(* at the end of their life.                                               *)
(***************************************************************************)
EXTENDS PacketPath

A == <<10, 0, 0, 1>>
B == <<10, 0, 0, 2>>
MCHosts == {A, B}
MCEthernetAddr == [h \in MCHosts |-> <<2, 0, 0, 0, 0, h[4]>>]
MCPayloads == {<<>>, <<235, 201>>, <<255, 255, 1>>}

Variants ==
  {<<64, 2, 0, <<>>>>, <<64, 2, 0, <<1, 1, 1, 0>>>>, <<1, 0, 0, <<>>>>,
   <<0, 2, 0, <<>>>>, <<64, 3, 0, <<>>>>, <<64, 2, 5, <<>>>>}

Peer(proto, bodies) ==
  {[src |-> A, dst |-> B, ttl |-> v[1], flags |-> v[2], fragoff |-> v[3],
    options |-> v[4], proto |-> proto, body |-> b] : v \in Variants, b \in bodies}

Segments ==
  {[srcport |-> 7, destport |-> 80, seq |-> <<255, 255, 255, 255>>, ack |-> <<0, 0, 0, 1>>,
    flags |-> 18, win |-> 65535, options |-> o, data |-> d] :
     o \in {<<>>, <<2, 4, 5, 180>>}, d \in {<<>>, <<9>>}}

Messages ==
  {[type |-> t, identifier |-> <<1, 2>>, seqnumber |-> <<0, 3>>, data |-> d] :
     t \in {ECHO_REPLY, ECHO_REQUEST, ADDRESSMASK_REQUEST, TIMESTAMP_REQUEST, 200},
     d \in {<<7, 8, 9, 10>>, <<7, 8, 9, 10, 11>>}}

MCPeerPackets ==
  Peer(6, Segments) \cup Peer(1, Messages) \cup Peer(99, {[data |-> <<5>>]})
==============================================================================

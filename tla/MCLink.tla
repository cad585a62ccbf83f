------------------------------- MODULE MCLink -------------------------------
(***************************************************************************)
(* Instances of LinkLayer for TLC.                                         *)
(***************************************************************************)
EXTENDS LinkLayer

CONSTANTS a, b, card_a, card_b

TwoCards == [h \in {a, b} |-> IF h = a THEN card_a ELSE card_b]
UdpOnly == [h \in {a, b} |-> {"udp_module"}]
MixedTransports ==
  [h \in {a, b} |-> IF h = a THEN {"ipother_module"} ELSE {"udp_module"}]
==============================================================================

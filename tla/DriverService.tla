---------------------------- MODULE DriverService ----------------------------
(***************************************************************************)
(* What a device driver promises, without buffers, signals or processes:   *)
(* packets go up to ethernet_mux and down to the link in the order they    *)
(* came; some may be lost on the way, one at a time, none is repeated and  *)
(* none is made up.                                                        *)
(***************************************************************************)
EXTENDS Sequences, Integers, SequencesExt

CONSTANTS Packets, NoPacket

VARIABLES
  up,      \* captured, not yet delivered to ethernet_mux
  down,    \* taken from ethernet_mux, not yet on the link
  muxin,   \* what ethernet_mux has written for the driver
  muxout,  \* what the driver has delivered and ethernet_mux not read
  onLink   \* the packet last put on the link

vars == <<up, down, muxin, muxout, onLink>>

Init ==
  /\ up = <<>> /\ down = <<>> /\ muxin = <<>> /\ muxout = <<>>
  /\ onLink = NoPacket

Captured == up' \in {Append(up, p) : p \in Packets} /\ UNCHANGED <<down, muxin, muxout, onLink>>

Delivered ==
  /\ up # <<>>
  /\ muxout' = Append(muxout, Head(up))
  /\ up' = Tail(up)
  /\ UNCHANGED <<down, muxin, onLink>>

Taken ==
  /\ muxin # <<>>
  /\ muxin' = Tail(muxin)
  /\ down' \in {Append(down, Head(muxin)), down}
  /\ UNCHANGED <<up, muxout, onLink>>

Launched ==
  /\ down # <<>>
  /\ onLink' = Head(down)
  /\ down' = Tail(down)
  /\ UNCHANGED <<up, muxin, muxout>>

Lost ==
  /\ \/ up' \in {RemoveAt(up, i) : i \in DOMAIN up} /\ UNCHANGED down
     \/ down' \in {RemoveAt(down, i) : i \in DOMAIN down} /\ UNCHANGED up
  /\ UNCHANGED <<muxin, muxout, onLink>>

MuxSide ==
  /\ \/ muxin' \in {Append(muxin, p) : p \in Packets} /\ UNCHANGED muxout
     \/ muxout # <<>> /\ muxout' = Tail(muxout) /\ UNCHANGED muxin
  /\ UNCHANGED <<up, down, onLink>>

Next == Captured \/ Delivered \/ Taken \/ Launched \/ Lost \/ MuxSide

Spec == Init /\ [][Next]_vars
==============================================================================

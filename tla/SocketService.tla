---------------------------- MODULE SocketService ----------------------------
(***************************************************************************)
(* What the socket interface promises its caller, with no module, FIFO or  *)
(* network in sight: calls are served one at a time, each gets one answer, *)
(* the answer is for the descriptor the call was about, and a descriptor   *)
(* is opened or closed only by the answer that says so.                    *)
(***************************************************************************)
EXTENDS Integers

CONSTANT Descriptors   \* natural numbers; 0 is the argument of a call for none

VARIABLES
  phase,    \* of the caller: idle, asked, waiting or answered
  fd,       \* the descriptor the call in progress is about, else 0
  answer,   \* the descriptor an answer carries, -1 for an error or none
  open      \* the open descriptors, never 0

vars == <<phase, fd, answer, open>>

Init ==
  /\ phase = "idle"
  /\ fd = 0
  /\ answer = -1
  /\ open = {}

Ask ==
  /\ phase = "idle"
  /\ phase' = "asked"
  /\ fd' \in Descriptors
  /\ UNCHANGED <<answer, open>>

\* The call succeeds and gives a new descriptor: socket and accept.
Opened ==
  \E new \in Descriptors \ (open \cup {0}) :
    answer' = new /\ open' = open \cup {new}

\* Only a close, answered at once, closes by succeeding.
Serve ==
  /\ phase = "asked"
  /\ phase' = "answered"
  /\ \/ Opened
     \/ answer' = -1 /\ UNCHANGED open
     \/ answer' = fd /\ open' \in {open, open \ {fd}}
  /\ UNCHANGED fd

Block ==
  /\ phase = "asked"
  /\ phase' = "waiting"
  /\ UNCHANGED <<fd, answer, open>>

\* Only a connect, answered later, closes by failing.
Complete ==
  /\ phase = "waiting"
  /\ phase' = "answered"
  /\ \/ Opened
     \/ answer' = -1 /\ open' \in {open, open \ {fd}}
     \/ answer' = fd /\ UNCHANGED open
  /\ UNCHANGED fd

Return ==
  /\ phase = "answered"
  /\ phase' = "idle"
  /\ fd' = 0
  /\ answer' = -1
  /\ UNCHANGED open

Next == Ask \/ Serve \/ Block \/ Complete \/ Return

Spec == Init /\ [][Next]_vars
==============================================================================

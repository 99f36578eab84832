------------------------------ MODULE InputQueue ------------------------------
(***************************************************************************)
(* What the keyboard and the mouse promise the software that reads them:   *)
(* a bounded first-in first-out queue of bytes into which key events and   *)
(* command answers go as whole packets, and a receiver latch that holds    *)
(* the head of the queue until it is read.                                 *)
(***************************************************************************)
EXTENDS Naturals, Sequences

CONSTANTS
  Packet,       \* the packets: nonempty sequences of bytes
  Capacity,     \* the queue never holds more bytes than this
  NoByte        \* the contents of the latch after a reset

VARIABLES queue, rdy, data

vars == <<queue, rdy, data>>

Init == queue = <<>> /\ rdy = FALSE /\ data = NoByte

\* An event or an answer; it may also be dropped as a whole, which is a stutter.
Enqueue(p) ==
  /\ Len(queue) + Len(p) <= Capacity
  /\ queue' = queue \o p
  /\ UNCHANGED <<rdy, data>>

Latch ==
  /\ ~rdy /\ queue # <<>>
  /\ rdy' = TRUE
  /\ data' = Head(queue)
  /\ queue' = Tail(queue)

Take ==
  /\ rdy' = FALSE
  /\ UNCHANGED <<queue, data>>

\* A reset and some commands empty the queue; a reset then clears the latch.
Clear ==
  /\ queue' = <<>>
  /\ UNCHANGED <<rdy, data>>

Unlatch ==
  /\ rdy' = FALSE /\ data' = NoByte
  /\ UNCHANGED queue

Next == (\E p \in Packet : Enqueue(p)) \/ Latch \/ Take \/ Clear \/ Unlatch

Spec == Init /\ [][Next]_vars
=============================================================================

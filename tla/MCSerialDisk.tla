----------------------------- MODULE MCSerialDisk -----------------------------
(***************************************************************************)
(* An image of two sectors, a memory of two locations, requests that fit,  *)
(* that run off the end of the image and that are illegal; the server may  *)
(* be killed once.                                                         *)
(***************************************************************************)
EXTENDS SerialDisk

Requests ==
  {[cmd |-> c, sct |-> s, addr |-> 0, n |-> n] : c \in {"r", "w"}, s \in {0, 1}, n \in {1, 2}}
    \cup {[cmd |-> "x", sct |-> 0, addr |-> 0, n |-> 1]}
=============================================================================

------------------------------ MODULE MCSdDriver ------------------------------
(***************************************************************************)
(* An image of three sectors of which two are a whole unit, two locations  *)
(* in memory, requests that fit, that run off the disk and that are        *)
(* illegal; short delays.                                                  *)
(***************************************************************************)
EXTENDS SdDriver

Requests ==
  {[cmd |-> c, sct |-> s, addr |-> 0, n |-> n] : c \in {"r", "w"}, s \in {0, 1}, n \in {1, 2}}
    \cup {[cmd |-> "x", sct |-> 0, addr |-> 0, n |-> 1]}
=============================================================================

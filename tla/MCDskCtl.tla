------------------------------- MODULE MCDskCtl -------------------------------
(***************************************************************************)
(* A disk of two sectors, a memory of two locations, requests that fit,    *)
(* that run off the end of the disk and that are illegal.                  *)
(***************************************************************************)
EXTENDS DskCtl

Requests ==
  [cmd : {"r", "w"}, sct : 0 .. 2, addr : {0}, n : 0 .. 2]
    \cup [cmd : {"x"}, sct : {0}, addr : {0}, n : {1}]
=============================================================================

------------------------------ MODULE BlockDevice ------------------------------
(***************************************************************************)
(* What the ROM monitor's dskio(disk, command, sector, address, count)     *)
(* promises its callers: sectors are copied one after the other between    *)
(* disk and memory; it returns "ok" after the last one and an error as     *)
(* soon as a sector is not on the disk; nothing else is touched.           *)
(***************************************************************************)
EXTENDS Naturals

CONSTANTS Sectors, Requests, Data, Locations

VARIABLES image, mem, request, count, result

vars == <<image, mem, request, count, result>>

None == [cmd |-> "none"]

Init ==
  /\ image \in [Sectors -> Data] /\ mem \in [Locations -> Data]
  /\ request = None /\ count = 0 /\ result = "none"

Call(r) ==
  /\ request = None
  /\ request' = r
  /\ count' = 0 /\ result' = "none"
  /\ UNCHANGED <<image, mem>>

Transfer ==
  LET s == request.sct + count
      a == request.addr + count IN
  /\ request.cmd \in {"r", "w"}
  /\ count < request.n /\ s \in Sectors
  /\ image' = IF request.cmd = "w" THEN [image EXCEPT ![s] = mem[a]] ELSE image
  /\ mem' = IF request.cmd = "r" THEN [mem EXCEPT ![a] = image[s]] ELSE mem
  /\ count' = count + 1
  /\ UNCHANGED <<request, result>>

Return(r) ==
  /\ request # None
  /\ \/ r = "ok" /\ request.cmd \in {"r", "w"} /\ count = request.n
     \/ /\ r = "error"
        /\ request.cmd \in {"r", "w"} => count < request.n /\ request.sct + count \notin Sectors
  /\ result' = r
  /\ request' = None /\ count' = 0
  /\ UNCHANGED <<image, mem>>

Next ==
  \/ \E r \in Requests : Call(r)
  \/ Transfer
  \/ \E r \in {"ok", "error"} : Return(r)

Spec == Init /\ [][Next]_vars
=============================================================================

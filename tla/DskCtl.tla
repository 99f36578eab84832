-------------------------------- MODULE DskCtl --------------------------------
(***************************************************************************)
(* The ROM monitor's disk driver, monitor/monitor/common/dskctl.s, called  *)
(* the way boot.c does (first dskcap, then dskio), against the controller  *)
(* of module Disk.  Every access of a device register is a step; copying   *)
(* one sector between memory and the controller's buffer is one step.      *)
(***************************************************************************)
EXTENDS Disk

CONSTANTS
  Location,     \* sector-sized locations in memory: 0 .. n
  Request,      \* arguments of dskio: [cmd, sct, addr, n]
  RETRIES       \* polls of the ready bit before the disk is given up (1000000)

ASSUME DriverAssumption ==
  /\ RETRIES \in Nat \ {0} /\ 1 \in Cnt
  /\ \A r \in Request :
       /\ r.cmd # "none" /\ {r.n, r.addr, r.sct} \subseteq Nat
       /\ \A i \in 0 .. r.n - 1 : r.addr + i \in Location /\ r.sct + i \in Sct

VARIABLES
  pc,           \* where the driver is
  retries,      \* register 8 of dskcapctl: polls left
  capacity,     \* what dskcapctl returned
  request,      \* the arguments of the current call of dskioctl
  count,        \* sectors done: registers 17 and 18 advanced, 19 decremented
  result,       \* what dskioctl returned: "ok" stands for 0
  mem           \* memory

kvars == <<pc, retries, capacity, request, count, result, mem>>
allvars == <<dvars, kvars>>

None == [cmd |-> "none"]

KInit ==
  /\ DiskInit
  /\ pc = "start" /\ retries = 0 /\ capacity = 0
  /\ request = None /\ count = 0 /\ result = "none"
  /\ mem \in [Location -> Data]

KTypeOK ==
  /\ DiskTypeOK
  /\ pc \in {"start", "poll ready", "get capacity", "idle", "no disk", "next", "set count",
             "set sector", "start command", "poll done", "copy", "illegal"}
  /\ retries \in 0 .. RETRIES /\ capacity \in {0, TOTAL}
  /\ request \in Request \cup {None} /\ count \in Nat
  /\ result \in {"none", "ok", "error"} /\ mem \in [Location -> Data]

-------------------------------------------------------------------------------
(* dskcapctl *)

CallCap ==
  /\ pc \in {"start", "no disk"}
  /\ pc' = "poll ready"
  /\ retries' = RETRIES
  /\ UNCHANGED <<dvars, capacity, request, count, result, mem>>

LastTry == retries = 1

PollReady ==
  /\ pc = "poll ready"
  /\ IF ctrl.ready
     THEN pc' = "get capacity" /\ UNCHANGED <<retries, capacity>>
     ELSE /\ retries' = retries - 1
          /\ IF LastTry THEN pc' = "no disk" /\ capacity' = 0
                            ELSE UNCHANGED <<pc, capacity>>
  /\ UNCHANGED <<dvars, request, count, result, mem>>

\* boot returns if the capacity is 0.
GetCapacity ==
  /\ pc = "get capacity"
  /\ capacity' = cap
  /\ pc' = IF cap = 0 THEN "no disk" ELSE "idle"
  /\ UNCHANGED <<dvars, retries, request, count, result, mem>>

-------------------------------------------------------------------------------
(* dskioctl *)

CallIo(r) ==
  /\ pc = "idle"
  /\ request' = r /\ count' = 0 /\ result' = "none"
  /\ pc' = IF r.cmd \in {"r", "w"} THEN "next" ELSE "illegal"
  /\ UNCHANGED <<dvars, retries, capacity, mem>>

ReturnWith(r) ==
  /\ result' = r
  /\ request' = None /\ count' = 0
  /\ pc' = "idle"
  /\ UNCHANGED <<retries, capacity, mem>>

Illegal == pc = "illegal" /\ ReturnWith("error") /\ UNCHANGED dvars

NoMoreSectors ==
  /\ pc = "next" /\ count = request.n
  /\ ReturnWith("ok")
  /\ UNCHANGED dvars

\* dskwr1: copy a sector to the buffer before the command is set up.
NextSector ==
  /\ pc = "next" /\ count # request.n
  /\ IF request.cmd = "w"
     THEN WriteBuffer(0, mem[request.addr + count])
     ELSE UNCHANGED dvars
  /\ pc' = "set count"
  /\ UNCHANGED <<retries, capacity, request, count, result, mem>>

SetCount ==
  /\ pc = "set count" /\ WriteCnt(1) /\ pc' = "set sector"
  /\ UNCHANGED <<retries, capacity, request, count, result, mem>>

SetSector ==
  /\ pc = "set sector" /\ WriteSct(request.sct + count) /\ pc' = "start command"
  /\ UNCHANGED <<retries, capacity, request, count, result, mem>>

StartCommand ==
  /\ pc = "start command"
  /\ WriteCtrl(request.cmd = "w", FALSE, TRUE, FALSE)
  /\ pc' = "poll done"
  /\ UNCHANGED <<retries, capacity, request, count, result, mem>>

PollDone ==
  /\ pc = "poll done" /\ ~ctrl.done
  /\ UNCHANGED allvars

DoneWithError ==
  /\ pc = "poll done" /\ ctrl.done /\ ctrl.err
  /\ ReturnWith("error")
  /\ UNCHANGED dvars

DoneWell ==
  /\ pc = "poll done" /\ ctrl.done /\ ~ctrl.err
  /\ IF request.cmd = "w"
     THEN count' = count + 1 /\ pc' = "next"
     ELSE pc' = "copy" /\ UNCHANGED count
  /\ UNCHANGED <<dvars, retries, capacity, request, result, mem>>

\* dskrd2: copy the sector from the buffer.
Copy ==
  /\ pc = "copy"
  /\ mem' = [mem EXCEPT ![request.addr + count] = buffer[0]]
  /\ count' = count + 1
  /\ pc' = "next"
  /\ UNCHANGED <<dvars, retries, capacity, request, result>>

-------------------------------------------------------------------------------
Cap == PollReady \/ GetCapacity
Io ==
  \/ Illegal \/ NoMoreSectors \/ NextSector \/ SetCount \/ SetSector \/ StartCommand
  \/ PollDone \/ DoneWithError \/ DoneWell \/ Copy

Callback == (StartupCallback \/ OperationCallback) /\ UNCHANGED kvars

KNext ==
  \/ Callback
  \/ CallCap \/ Cap
  \/ (\E r \in Request : CallIo(r)) \/ Io

\* The CPU executes the driver, and timers expire as it does.
KSpec ==
  /\ KInit /\ [][KNext]_allvars
  /\ WF_allvars(Cap) /\ WF_allvars(Io) /\ WF_allvars(Callback)

-------------------------------------------------------------------------------
\* A written sector is on the disk when the callback has run, not only when the
\* driver has seen it.
Transferred ==
  count + (IF pc = "poll done" /\ request.cmd = "w" /\ ctrl.done /\ ~ctrl.err THEN 1 ELSE 0)

Block == INSTANCE BlockDevice WITH
  Sectors <- 0 .. TOTAL - 1, Requests <- Request, Locations <- Location,
  count <- Transferred

\* Refinement: polling driver and controller together copy exactly the sectors
\* asked for, in order, and report success and failure truthfully, although
\* the controller reads its registers and buffer only when its timer expires
\* (dskctl.s:53-127, disk.c:69-94).
ImplementsBlockDevice == Block!Spec

\* Safety: whenever the driver touches the registers or the buffer, no operation
\* is in progress that could use them (dskctl.s:82, 119).
NeverDisturbed == pc # "poll done" \/ ctrl.done => ops = 0

\* Liveness: dskcap returns and, once a disk was found, so does dskio.
DriverReturns ==
  /\ (pc = "poll ready") ~> pc \in {"idle", "no disk"}
  /\ (pc = "next") ~> (pc = "idle")
=============================================================================

------------------------------- MODULE SdDriver -------------------------------
(***************************************************************************)
(* The ROM monitor's SD card driver, monitor/monitor/common/dsksdc.c, on   *)
(* the card of module SdCard, called the way boot.c does.  Every sndRcv is *)
(* one step.  The monitor may be restarted between two commands, which     *)
(* initializes its variables but not the card's; so may the whole machine. *)
(***************************************************************************)
EXTENDS SdCard

CONSTANTS
  Location,     \* sector-sized locations in memory
  Request,      \* arguments of dskiosdc: [cmd, sct, addr, n]
  ANSWER_POLLS, \* bytes until the answer is given up (8)
  TOKEN_POLLS,  \* bytes until a data block is given up (2048)
  TRIES         \* ACMD41s before the card is given up (1000)

ASSUME SdDriverAssumption ==
  /\ {ANSWER_POLLS, TOKEN_POLLS, TRIES} \subseteq Nat \ {0}
  /\ \A r \in Request :
       /\ r.cmd # "none" /\ {r.n, r.addr, r.sct} \subseteq Nat
       /\ \A k \in 0 .. r.n - 1 : r.addr + k \in Location

\* The driver waits long enough: the card answers with the second byte, or with the
\* sixth when it is two bytes ahead (dsksdc.c:122 waits for 8 bytes, 164 for 2048 and
\* 348 tries 1000 times; sdcard.c:189 is ready after 10 or 5 tries and delays data by
\* 2 or 5 bytes).
ASSUME DelaysFit ==
  /\ ANSWER_POLLS >= 6
  /\ CSD_DELAY_COUNT <= TOKEN_POLLS /\ RD_DELAY_COUNT <= TOKEN_POLLS
  /\ PRM_INIT_COUNT <= TRIES /\ SEC_INIT_COUNT <= TRIES

VARIABLES
  pc,           \* where the driver is
  op,           \* the command it sends to the card
  i,            \* index or count of its current loop
  rcv,          \* rcv[0]: the answer's first byte
  tries,        \* of activateCard
  sdcInitialized,
  numSectors,   \* what dskcapsdc found
  request, count, result, mem   \* of dskiosdc, as in DskCtl

callVars == <<request, count, result>>
kvars == <<pc, op, i, rcv, tries, sdcInitialized, numSectors, callVars, mem>>
allvars == <<cvars, kvars>>

None == [cmd |-> "none"]
CurrentSector == request.sct + count
CurrentLocation == request.addr + count

SDTypeOK ==
  /\ CardTypeOK
  /\ pc \in {"start", "clocks", "select", "send", "answer", "more", "token", "data", "crc",
             "out token", "out data", "out crc", "response", "busy", "deselect", "done",
             "idle", "no disk", "next", "illegal"}
  /\ op \in {CMD0, CMD8, CMD9, CMD17, CMD24, CMD55, CMD58, CMD59, ACMD41}
  /\ i \in Nat /\ tries \in 0 .. TRIES /\ sdcInitialized \in BOOLEAN
  /\ request \in Request \cup {None} /\ count \in Nat
  /\ result \in {"none", "ok", "error"} /\ mem \in [Location -> Block]

DriverStart ==
  /\ pc = "start" /\ op = CMD0 /\ i = 0 /\ rcv = FILL /\ tries = 0
  /\ sdcInitialized = FALSE /\ numSectors = 0
  /\ request = None /\ count = 0 /\ result = "none"

SDInit ==
  /\ CardStart /\ image \in [Sector -> Block]
  /\ DriverStart /\ mem \in [Location -> Block]

-------------------------------------------------------------------------------
(* sndCmd, sndCmdRcvData, sndCmdSndData *)

Begin(o) == op' = o /\ pc' = "select" /\ i' = 0 /\ rcv' = FILL

Select ==
  /\ pc = "select"
  /\ select' = TRUE /\ pc' = "send" /\ i' = 1
  /\ UNCHANGED <<dataReg, state, cmd, left, block, crcRight, mode, sctno, image>>
  /\ UNCHANGED <<op, rcv, tries, sdcInitialized, numSectors, callVars, mem>>

Frame ==
  <<op, 0, 0, 0,
    IF op = CMD59 THEN 1 ELSE IF op \in {CMD17, CMD24} THEN CurrentSector ELSE 0, CRC7>>

SendFrame ==
  /\ pc = "send" /\ Exchange(Frame[i])
  /\ IF i = 6 THEN pc' = "answer" /\ i' = ANSWER_POLLS ELSE i' = i + 1 /\ UNCHANGED pc
  /\ UNCHANGED <<select, op, rcv, tries, sdcInitialized, numSectors, callVars, mem>>

AfterAnswer ==
  CASE op \in {CMD8, CMD58} -> [pc |-> "more", i |-> 4]
    [] op \in {CMD9, CMD17} -> [pc |-> "token", i |-> TOKEN_POLLS]
    [] op = CMD24           -> [pc |-> "out token", i |-> 0]
    [] OTHER                -> [pc |-> "deselect", i |-> 0]

\* Poll for a byte that satisfies Found; the last failure ends the operation,
\* with the card still selected.
NoSuccess == IF i = 1 THEN pc' = "done" /\ i' = 0 /\ rcv' = FILL
                      ELSE i' = i - 1 /\ UNCHANGED <<pc, rcv>>

PollAnswer ==
  /\ pc = "answer" /\ Exchange(FILL)
  /\ IF dataReg' = FILL
     THEN NoSuccess
     ELSE rcv' = dataReg' /\ pc' = AfterAnswer.pc /\ i' = AfterAnswer.i
  /\ UNCHANGED <<select, op, tries, sdcInitialized, numSectors, callVars, mem>>

MoreAnswer ==
  /\ pc = "more" /\ Exchange(FILL)
  /\ i' = i - 1
  /\ pc' = IF i = 1 THEN "deselect" ELSE pc
  /\ UNCHANGED <<select, op, rcv, tries, sdcInitialized, numSectors, callVars, mem>>

PollToken ==
  /\ pc = "token" /\ Exchange(FILL)
  /\ IF dataReg' = START_BLOCK THEN pc' = "data" /\ i' = 0 /\ UNCHANGED rcv ELSE NoSuccess
  /\ UNCHANGED <<select, op, tries, sdcInitialized, numSectors, callVars, mem>>

\* The size field of the CSD is kept in i.
ReceiveData ==
  /\ pc = "data" /\ Exchange(FILL) /\ pc' = "crc"
  /\ IF op = CMD9
     THEN i' = dataReg' /\ UNCHANGED mem
     ELSE mem' = [mem EXCEPT ![CurrentLocation] = dataReg'] /\ UNCHANGED i
  /\ UNCHANGED <<select, op, rcv, tries, sdcInitialized, numSectors, callVars>>

\* The controller computes what the card sends: the checksum is always right.
ReceiveCrc ==
  /\ pc = "crc" /\ Exchange(FILL) /\ pc' = "deselect"
  /\ UNCHANGED <<select, op, i, rcv, tries, sdcInitialized, numSectors, callVars, mem>>

\* The answer is not looked at: data follows even if the card refused.
SendData ==
  /\ \/ pc = "out token" /\ Exchange(START_BLOCK) /\ pc' = "out data"
     \/ pc = "out data" /\ Exchange(mem[CurrentLocation]) /\ pc' = "out crc"
     \/ pc = "out crc" /\ Exchange(CRC16) /\ pc' = "response"
  /\ UNCHANGED <<select, op, i, rcv, tries, sdcInitialized, numSectors, callVars, mem>>

\* (mutant) The driver does not wait while the card is busy.
AfterResponse == "deselect"

AfterAccepted == "busy"

PollResponse ==
  /\ pc = "response" /\ Exchange(FILL)
  /\ CASE dataReg' = FILL -> UNCHANGED <<pc, rcv>>
       [] dataReg' # FILL /\ dataReg' % 32 = 5 -> pc' = AfterAccepted /\ UNCHANGED rcv
       [] OTHER -> pc' = "done" /\ rcv' = FILL
  /\ UNCHANGED <<select, op, i, tries, sdcInitialized, numSectors, callVars, mem>>

PollBusy ==
  /\ pc = "busy" /\ Exchange(FILL)
  /\ pc' = IF dataReg' = 0 THEN pc ELSE "deselect"
  /\ UNCHANGED <<select, op, i, rcv, tries, sdcInitialized, numSectors, callVars, mem>>

\* A deselected card sees nothing of the last byte.
Deselect ==
  /\ pc = "deselect"
  /\ select' = FALSE /\ dataReg' = FILL /\ pc' = "done"
  /\ UNCHANGED <<state, cmd, left, block, crcRight, mode, sctno, image>>
  /\ UNCHANGED <<op, i, rcv, tries, sdcInitialized, numSectors, callVars, mem>>

-------------------------------------------------------------------------------
(* initSDC, dskcapsdc *)

CallCap ==
  /\ pc \in {"start", "no disk", "idle"}
  /\ IF sdcInitialized THEN Begin(CMD9) ELSE pc' = "clocks" /\ UNCHANGED <<op, i, rcv>>
  /\ tries' = 0
  /\ UNCHANGED <<cvars, sdcInitialized, numSectors, callVars, mem>>

\* initCard
Clocks ==
  /\ pc = "clocks"
  /\ select' = FALSE /\ dataReg' = FILL
  /\ Begin(CMD0)
  /\ UNCHANGED <<state, cmd, left, block, crcRight, mode, sctno, image>>
  /\ UNCHANGED <<tries, sdcInitialized, numSectors, callVars, mem>>

\* (mutant) Any answer will do.
Answered == rcv # FILL

Activated == rcv = 0

\* The next command of initSDC and activateCard.
NextInitCmd ==
  /\ pc = "done" /\ op \notin {CMD9, CMD17, CMD24}
  /\ Begin(CASE op = CMD0   -> CMD8
             [] op = CMD8   -> CMD59
             [] op = CMD59  -> CMD55
             [] op = CMD55  -> ACMD41
             [] op = ACMD41 -> IF Activated \/ tries = TRIES - 1 THEN CMD58 ELSE CMD55
             [] op = CMD58  -> CMD9)
  /\ tries' = IF op = ACMD41 /\ ~Activated /\ tries < TRIES - 1 THEN tries + 1 ELSE tries
  /\ sdcInitialized' = (sdcInitialized \/ op = CMD58)
  /\ UNCHANGED <<cvars, numSectors, callVars, mem>>

\* The size of the disk, in 32 bits; without an answer the buffer that it is
\* computed from is not initialized, and may even have a wrong version (-1).
CapDone ==
  /\ pc = "done" /\ op = CMD9
  /\ \E csize \in IF rcv = FILL THEN -1 .. CSIZES - 1 ELSE {i} :
       /\ numSectors' = IF csize = -1 THEN numSectors ELSE ((csize + 1) * UNIT) % (CSIZES * UNIT)
       /\ pc' = IF csize = -1 \/ numSectors' = 0 THEN "no disk" ELSE "idle"
  /\ i' = 0
  /\ UNCHANGED <<cvars, op, rcv, tries, sdcInitialized, callVars, mem>>

-------------------------------------------------------------------------------
(* dskiosdc *)

CallIo(r) ==
  /\ pc = "idle"
  /\ request' = r /\ count' = 0 /\ result' = "none"
  /\ pc' = IF r.cmd \in {"r", "w"} THEN "next" ELSE "illegal"
  /\ UNCHANGED <<cvars, op, i, rcv, tries, sdcInitialized, numSectors, mem>>

Return(r) ==
  /\ result' = r /\ request' = None /\ count' = 0 /\ pc' = "idle"
  /\ UNCHANGED <<cvars, op, i, rcv, tries, sdcInitialized, numSectors, mem>>

Illegal == pc = "illegal" /\ Return("error")

NoMoreSectors == pc = "next" /\ count = request.n /\ Return("ok")

OffDisk == pc = "next" /\ count # request.n /\ CurrentSector >= numSectors /\ Return("error")

NextSector ==
  /\ pc = "next" /\ count # request.n /\ CurrentSector < numSectors
  /\ Begin(IF request.cmd = "r" THEN CMD17 ELSE CMD24)
  /\ UNCHANGED <<cvars, tries, sdcInitialized, numSectors, callVars, mem>>

\* Whether the command succeeded is not looked at.
SectorDone ==
  /\ pc = "done" /\ op \in {CMD17, CMD24}
  /\ count' = count + 1 /\ pc' = "next"
  /\ UNCHANGED <<cvars, op, i, rcv, tries, sdcInitialized, numSectors, request, result, mem>>

\* The monitor starts again between two commands, perhaps with the machine.
Restart ==
  /\ pc \in {"select", "idle", "no disk"} /\ request = None
  /\ pc' = "start" /\ i' = 0 /\ rcv' = FILL /\ tries' = 0
  /\ sdcInitialized' = FALSE /\ numSectors' = 0
  /\ UNCHANGED cvars \/ CardReset
  /\ UNCHANGED <<op, callVars, mem>>

-------------------------------------------------------------------------------
SndCmd ==
  \/ Select \/ SendFrame \/ PollAnswer \/ MoreAnswer
  \/ PollToken \/ ReceiveData \/ ReceiveCrc
  \/ SendData \/ PollResponse \/ PollBusy \/ Deselect

Driver ==
  \/ SndCmd \/ Clocks \/ NextInitCmd \/ CapDone
  \/ Illegal \/ NoMoreSectors \/ OffDisk \/ NextSector \/ SectorDone

SDNext == CallCap \/ (\E r \in Request : CallIo(r)) \/ Driver \/ Restart

\* The CPU executes the driver; nobody has to call it or to restart.
SDSpec == SDInit /\ [][SDNext]_allvars /\ WF_allvars(Driver)

-------------------------------------------------------------------------------
\* Whole units of the image, as far as the size field goes
Disk == 0 .. (((Csize + 1) * UNIT) % (CSIZES * UNIT)) - 1

\* A sector is transferred when it is in memory or on the card.
Transferred ==
  count + (IF \/ op = CMD17 /\ pc \in {"crc", "deselect", "done"}
              \/ op = CMD24 /\ pc \in {"busy", "deselect", "done"} THEN 1 ELSE 0)

Blocks == INSTANCE BlockDevice WITH
  Sectors <- Disk, Data <- Block, Requests <- Request, Locations <- Location,
  image <- [s \in Disk |-> image[s]], count <- Transferred

\* Refinement: although the driver looks at no answer, token or response when it
\* counts a sector as done, sectors are copied as dskio promises, as the card
\* refuses nothing it is asked (dsksdc.c:109-242, 498-528, sdcard.c:209-468).
ImplementsBlockDevice == Blocks!Spec

\* Safety: the card expects the first byte of a command whenever the driver sends
\* the first byte of one that transfers data, although neither side counts the
\* other's bytes, and a monitor that was restarted between CMD55 and ACMD41 gets
\* out of step while it initializes the card (dsksdc.c:126, sdcard.c:233, 277).
InStep ==
  pc = "select" /\ op \in {CMD9, CMD17, CMD24} => state = "ACCUM_CMD" /\ cmd = <<>>

\* Safety: a disk is found only if the card left its idle state, whatever an
\* earlier start of the monitor had left half done (dsksdc.c:344, sdcard.c:264).
FoundIsActive == pc \in {"next", "illegal"} => ~idle

\* Liveness: dskcap returns unless the monitor is restarted, and dskio returns.
DriverReturns ==
  /\ pc = "clocks" ~> (pc \in {"start", "idle", "no disk"})
  /\ pc = "next" ~> (pc = "idle")
=============================================================================

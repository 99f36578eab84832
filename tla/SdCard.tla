-------------------------------- MODULE SdCard --------------------------------
(***************************************************************************)
(* The SD card, sim/sdcard.c: a state machine that is advanced by every    *)
(* byte exchanged over the SPI bus.  The one microsecond between writing   *)
(* the transmit data register and the callback is abstracted: an exchange  *)
(* is one step, and dataReg' is what the software reads afterwards.        *)
(*                                                                         *)
(* A block of data and a checksum are one byte each.                       *)
(***************************************************************************)
EXTENDS Integers, Sequences

CONSTANTS
  Block,        \* contents of a sector
  TOTAL,        \* totalSectors
  UNIT,         \* sectors per unit of the capacity (1024)
  CSIZES,       \* number of values of the size field (2^22)
  PRM_INIT_COUNT, SEC_INIT_COUNT,       \* ACMD41s until the card is ready
  CSD_DELAY_COUNT, RD_DELAY_COUNT,      \* bytes before a data block
  WR_BUSY_COUNT                         \* bytes until a block is programmed

ASSUME SdCardAssumption ==
  /\ TOTAL \in Nat /\ UNIT \in Nat \ {0} /\ CSIZES \in Nat \ {0}
  /\ {PRM_INIT_COUNT, SEC_INIT_COUNT, CSD_DELAY_COUNT, RD_DELAY_COUNT, WR_BUSY_COUNT}
       \subseteq Nat \ {0}

VARIABLES
  select,       \* the select bit of the control register
  dataReg,      \* what the card sent in the last exchange
  state,        \* one of States
  cmd,          \* cmd[0] .. cmd[currCnt - 1]: the bytes of a command so far
  left,         \* xpctCnt - currCnt: bytes left of the current phase
  block,        \* dataBuf
  crcRight,     \* the checksum of the received block is right
  idle, crcChecked, appCmdSeen, initCnt,
  sctno,        \* sector of the current transfer
  image         \* the card's contents

mode == <<idle, crcChecked, appCmdSeen, initCnt>>
cvars == <<select, dataReg, state, cmd, left, block, crcRight, mode, sctno, image>>

States == {"ACCUM_CMD", "INTERP_CMD", "ANSWER", "RD_DELAY", "RD_DATA", "RD_CRC",
           "WR_WAIT", "WR_DATA", "WR_CRC", "WR_RSP", "WR_BUSY"}

\* Bytes on the bus; a checksum that fits is told from every other byte.
FILL == 255     START_BLOCK == 254
CRC7 == 300     CRC16 == 301
CMD0 == 64      CMD8 == 72      CMD9 == 73      CMD10 == 74     CMD17 == 81
CMD24 == 88     CMD55 == 119    CMD58 == 122    CMD59 == 123    ACMD41 == 105
IDLE_STATE == 1     ILLEGAL_CMD == 4     COM_CRC_ERR == 8     PARAM_ERR == 64
ACCEPTED == 229     REJECTED == 235

Sector == 0 .. TOTAL - 1

\* csd[7 .. 9], computed from the size of the image in sdcardInit
Csize == ((TOTAL \div UNIT) - 1) % CSIZES

\* sdcardReset
CardStart ==
  /\ select = FALSE /\ dataReg = 0
  /\ state = "ACCUM_CMD" /\ cmd = <<>> /\ left = 0 /\ block = 0 /\ crcRight = TRUE
  /\ idle = TRUE /\ crcChecked = FALSE /\ appCmdSeen = FALSE /\ initCnt = PRM_INIT_COUNT
  /\ sctno = 0

CardReset ==
  /\ select' = FALSE /\ dataReg' = 0
  /\ state' = "ACCUM_CMD" /\ cmd' = <<>> /\ left' = 0 /\ block' = 0 /\ crcRight' = TRUE
  /\ idle' = TRUE /\ crcChecked' = FALSE /\ appCmdSeen' = FALSE /\ initCnt' = PRM_INIT_COUNT
  /\ sctno' = 0
  /\ UNCHANGED image

CardTypeOK ==
  /\ select \in BOOLEAN /\ state \in States
  /\ cmd \in Seq(Nat) /\ Len(cmd) \in 0 .. 6 /\ left \in Nat
  /\ {idle, crcChecked, appCmdSeen, crcRight} \subseteq BOOLEAN
  /\ initCnt \in 1 .. PRM_INIT_COUNT \cup 1 .. SEC_INIT_COUNT
  /\ image \in [Sector -> Block]

-------------------------------------------------------------------------------
(* Commands *)

AccumCmd(b) ==
  /\ state = "ACCUM_CMD"
  /\ IF Len(cmd) < 6
     THEN cmd' = Append(cmd, b) /\ UNCHANGED state
     ELSE state' = "INTERP_CMD" /\ UNCHANGED cmd
  /\ dataReg' = FILL
  /\ UNCHANGED <<left, block, crcRight, mode, sctno, image>>

Normal(code) == ~appCmdSeen /\ cmd[1] = code
Argument == cmd[5]

\* The card goes on to send n bytes of something, or waits for the next command.
Send(s, n) == state' = s /\ left' = n
NextCmd == Send("ACCUM_CMD", 0)

\* The answer R1, in which idle' is part of.
R1(errors) == dataReg' = errors + (IF idle' THEN IDLE_STATE ELSE 0)

LastInit == initCnt = 1

\* Commands that only change the card's mode.
ModeCmd ==
  /\ \/ /\ Normal(CMD0)
        /\ idle' = TRUE /\ crcChecked' = FALSE /\ UNCHANGED <<appCmdSeen, initCnt>>
     \/ /\ Normal(CMD59)
        /\ crcChecked' = (Argument = 1) /\ UNCHANGED <<idle, appCmdSeen, initCnt>>
     \/ /\ Normal(CMD55)
        /\ appCmdSeen' = TRUE /\ UNCHANGED <<idle, crcChecked, initCnt>>
     \/ /\ appCmdSeen /\ cmd[1] = ACMD41
        /\ appCmdSeen' = FALSE
        /\ idle' = (idle /\ ~LastInit)
        /\ initCnt' = IF LastInit THEN SEC_INIT_COUNT ELSE initCnt - 1
        /\ UNCHANGED crcChecked
  /\ R1(0) /\ NextCmd
  /\ UNCHANGED <<block, sctno>>

\* (mutant) The count of further bytes includes the first byte of the answer.
AllAnswerBytes == 5

AnswerBytes == 4

\* CMD8 and CMD58 are answered with R7 and R3.
LongAnswer ==
  /\ Normal(CMD8) \/ Normal(CMD58)
  /\ UNCHANGED <<block, sctno, mode>>
  /\ R1(0) /\ Send("ANSWER", AnswerBytes)

SendRegister ==
  /\ Normal(CMD9) \/ Normal(CMD10)
  /\ block' = IF Normal(CMD9) THEN Csize ELSE 0
  /\ UNCHANGED <<sctno, mode>>
  /\ R1(0) /\ Send("RD_DELAY", CSD_DELAY_COUNT)

SectorCmd ==
  /\ Normal(CMD17) \/ Normal(CMD24)
  /\ sctno' = Argument /\ UNCHANGED mode
  /\ IF Argument \notin Sector
     THEN R1(PARAM_ERR) /\ NextCmd /\ UNCHANGED block
     ELSE /\ R1(0)
          /\ \/ Normal(CMD17) /\ block' = image[Argument] /\ Send("RD_DELAY", RD_DELAY_COUNT)
             \/ Normal(CMD24) /\ Send("WR_WAIT", 0) /\ UNCHANGED block

Legal ==
  \/ appCmdSeen /\ cmd[1] = ACMD41
  \/ ~appCmdSeen /\ cmd[1] \in {CMD0, CMD8, CMD9, CMD10, CMD17, CMD24, CMD55, CMD58, CMD59}

CrcFits == crcChecked => cmd[6] = CRC7

InterpCmd ==
  /\ state = "INTERP_CMD"
  /\ \/ CrcFits /\ (ModeCmd \/ LongAnswer \/ SendRegister \/ SectorCmd)
     \/ /\ ~(CrcFits /\ Legal)
        /\ UNCHANGED <<block, sctno, mode>>
        /\ R1(IF CrcFits THEN ILLEGAL_CMD ELSE COM_CRC_ERR) /\ NextCmd
  /\ cmd' = <<>>
  /\ UNCHANGED <<crcRight, image>>

-------------------------------------------------------------------------------
(* Answers and data *)

\* One more byte of the current phase; after the last, the next phase begins.
Count(next, n) == IF left = 1 THEN Send(next, n) ELSE Send(state, left - 1)

Answer ==
  /\ state = "ANSWER" /\ Count("ACCUM_CMD", 0) /\ dataReg' = 0
  /\ UNCHANGED <<cmd, block, crcRight, mode, sctno, image>>

RdDelay ==
  /\ state = "RD_DELAY" /\ Count("RD_DATA", 1)
  /\ dataReg' = IF left = 1 THEN START_BLOCK ELSE FILL
  /\ UNCHANGED <<cmd, block, crcRight, mode, sctno, image>>

RdData ==
  /\ state = "RD_DATA" /\ Count("RD_CRC", 1) /\ dataReg' = block
  /\ UNCHANGED <<cmd, block, crcRight, mode, sctno, image>>

RdCrc ==
  /\ state = "RD_CRC" /\ Count("ACCUM_CMD", 0) /\ dataReg' = CRC16
  /\ UNCHANGED <<cmd, block, crcRight, mode, sctno, image>>

WrWait(b) ==
  /\ state = "WR_WAIT" /\ dataReg' = FILL
  /\ IF b = START_BLOCK THEN Send("WR_DATA", 1) ELSE UNCHANGED <<state, left>>
  /\ UNCHANGED <<cmd, block, crcRight, mode, sctno, image>>

WrData(b) ==
  /\ state = "WR_DATA" /\ Count("WR_CRC", 1) /\ dataReg' = FILL
  /\ block' = b
  /\ UNCHANGED <<cmd, crcRight, mode, sctno, image>>

WrCrc(b) ==
  /\ state = "WR_CRC" /\ Count("WR_RSP", 0) /\ dataReg' = FILL
  /\ crcRight' = (b = CRC16)
  /\ UNCHANGED <<cmd, block, mode, sctno, image>>

WrRsp ==
  /\ state = "WR_RSP" /\ Send("WR_BUSY", WR_BUSY_COUNT)
  /\ IF crcRight
     THEN image' = [image EXCEPT ![sctno] = block] /\ dataReg' = ACCEPTED
     ELSE UNCHANGED image /\ dataReg' = REJECTED
  /\ UNCHANGED <<cmd, block, crcRight, mode, sctno>>

\* (mutant) The count is not advanced.
StillBusy == left

BusyLeft == left - 1

WrBusy ==
  /\ state = "WR_BUSY"
  /\ IF BusyLeft = 0
     THEN NextCmd /\ dataReg' = FILL
     ELSE Send("WR_BUSY", BusyLeft) /\ dataReg' = 0
  /\ UNCHANGED <<cmd, block, crcRight, mode, sctno, image>>

\* sdcardCallback: the card sees the byte b and answers with dataReg'.
Exchange(b) ==
  IF select
  THEN \/ AccumCmd(b) \/ InterpCmd \/ Answer
       \/ RdDelay \/ RdData \/ RdCrc
       \/ WrWait(b) \/ WrData(b) \/ WrCrc(b) \/ WrRsp \/ WrBusy
  ELSE dataReg' = FILL /\ UNCHANGED <<state, cmd, left, block, crcRight, mode, sctno, image>>
=============================================================================

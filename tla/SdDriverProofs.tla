----------------------------- MODULE SdDriverProofs -----------------------------
(***************************************************************************)
(* Theorems about the SD card driver: the card expects a command whenever  *)
(* one that transfers data begins, a disk is found only on an active card, *)
(* and sectors are copied as BlockDevice promises, for images, requests    *)
(* and delays of any size, as long as the driver waits for what the card   *)
(* needs at most.                                                          *)
(***************************************************************************)
EXTENDS SdDriver, TLAPS

-------------------------------------------------------------------------------
(* The inductive invariant *)

\* The card expects the first byte of a command.
AtCommand == state = "ACCUM_CMD" /\ cmd = <<>>

\* The card, which expected ACMD41, has taken the four bytes in which the driver
\* waited for a long answer for the first of a command.
FourBehind ==
  state = "ACCUM_CMD" /\ appCmdSeen /\ Len(cmd) = 4 /\ cmd[1] = FILL

\* The card has the first n bytes of the driver's frame.
Has(n) == Len(cmd) = n /\ \A k \in 1 .. n : cmd[k] = Frame[k]

\* The card takes op for what the driver means.
ModeFits ==
  /\ op = ACMD41 => appCmdSeen
  /\ op \in {CMD58, CMD59, CMD9, CMD17, CMD24} => ~appCmdSeen

BeforeCommand == (AtCommand /\ ModeFits) \/ (op \in {CMD0, CMD59} /\ FourBehind)

\* Four bytes of this command complete what the card took for one, the other
\* two begin another that the wait for the answer completes.
SendingLate ==
  /\ op \in {CMD0, CMD59} /\ appCmdSeen
  /\ \/ i \in 1 .. 3 /\ state = "ACCUM_CMD" /\ Len(cmd) = i + 3 /\ cmd[1] = FILL
     \/ i = 4 /\ state = "INTERP_CMD" /\ cmd[1] = FILL
     \/ i = 5 /\ AtCommand
     \/ i = 6 /\ state = "ACCUM_CMD" /\ Len(cmd) = 1 /\ cmd[1] \in {0, 1}

AnswerLate ==
  /\ op \in {CMD0, CMD59} /\ appCmdSeen /\ Len(cmd) > 0 /\ cmd[1] \in {0, 1}
  /\ \/ i \in ANSWER_POLLS - 4 .. ANSWER_POLLS /\ state = "ACCUM_CMD"
        /\ Len(cmd) = 2 + ANSWER_POLLS - i
     \/ i = ANSWER_POLLS - 5 /\ state = "INTERP_CMD"

MoreLate ==
  /\ op = CMD8 /\ appCmdSeen /\ state = "ACCUM_CMD"
  /\ Len(cmd) = 4 - i /\ (i < 4 => cmd[1] = FILL)

AfterCommand ==
  \/ /\ AtCommand
     /\ op = CMD55 => appCmdSeen
     /\ op \notin {CMD0, CMD55, CMD59} => ~appCmdSeen
  \/ op = CMD8 /\ FourBehind

Waiting == pc \in {"idle", "no disk", "next", "illegal"}
InData == pc \in {"token", "data", "crc"}
OutData == pc \in {"out token", "out data", "out crc", "response", "busy"}

\* What the card expects when the driver is at pc
CardInv ==
  /\ pc \in {"start", "clocks"} => AtCommand \/ FourBehind
  /\ pc = "select" => BeforeCommand
  /\ pc = "send" =>
       \/ i \in 1 .. 6 /\ state = "ACCUM_CMD" /\ Has(i - 1) /\ ModeFits
       \/ SendingLate
  /\ pc = "answer" =>
       \/ /\ ModeFits /\ Has(6)
          /\ \/ i = ANSWER_POLLS /\ state = "ACCUM_CMD"
             \/ i = ANSWER_POLLS - 1 /\ state = "INTERP_CMD"
       \/ AnswerLate
  /\ pc = "more" =>
       /\ i \in 1 .. 4
       /\ (state = "ANSWER" /\ left = i /\ cmd = <<>> /\ ~appCmdSeen) \/ MoreLate
  /\ InData \/ OutData => cmd = <<>> /\ ~appCmdSeen
  /\ pc = "token" => state = "RD_DELAY" /\ left \in 1 .. i
  /\ pc = "data" => state = "RD_DATA" /\ left = 1
  /\ pc = "crc" => state = "RD_CRC" /\ left = 1
  /\ pc = "out token" => state = "WR_WAIT"
  /\ pc = "out data" => state = "WR_DATA" /\ left = 1
  /\ pc = "out crc" => state = "WR_CRC" /\ left = 1
  /\ pc = "response" => state = "WR_RSP" /\ crcRight
  /\ pc = "busy" => state = "WR_BUSY" /\ left > 0
  /\ pc \in {"deselect", "done"} => AfterCommand
  /\ Waiting => AtCommand /\ ~appCmdSeen

HasAnswer == pc \in {"more", "deselect", "done"} \/ InData \/ OutData
InCommand == pc \in {"send", "answer", "more", "deselect"} \/ InData \/ OutData

\* Each phase belongs to its command, and no command ends without an answer.
PhaseInv ==
  /\ InCommand => select
  /\ pc = "more" => op \in {CMD8, CMD58}
  /\ InData => op \in {CMD9, CMD17}
  /\ OutData => op = CMD24
  /\ HasAnswer => rcv # FILL

\* The card leaves its idle state before the driver gives up.
ActInv ==
  /\ initCnt \in 1 .. TRIES /\ tries < TRIES
  /\ pc = "clocks" => tries = 0
  /\ pc = "select" \/ InCommand \/ pc = "done" =>
       /\ op = CMD55 \/ (op = ACMD41 /\ ~HasAnswer) => (idle => initCnt <= TRIES - tries)
       /\ op = ACMD41 /\ HasAnswer =>
            IF idle THEN initCnt < TRIES - tries /\ rcv = 1 ELSE rcv = 0
       /\ op \in {CMD0, CMD8, CMD59} => tries = 0
       /\ op = CMD58 => ~idle
       /\ sdcInitialized <=> op \in {CMD9, CMD17, CMD24}
  /\ sdcInitialized => ~idle
  /\ pc \in {"start", "clocks"} => ~sdcInitialized
  /\ Waiting => sdcInitialized

Size == ((Csize + 1) * UNIT) % (CSIZES * UNIT)

Moving == op \in {CMD17, CMD24} /\ (pc = "select" \/ InCommand \/ pc = "done")

\* What is where while a sector is transferred
CopyInv ==
  /\ pc \in {"next", "illegal"} \/ Moving <=> request # None
  /\ request = None => count = 0
  /\ pc \in {"idle", "next", "illegal"} \/ Moving => numSectors = Size
  /\ pc = "next" => request.cmd \in {"r", "w"} /\ count <= request.n
  /\ pc = "illegal" => request.cmd \notin {"r", "w"}
  /\ Moving => /\ count < request.n /\ CurrentSector < numSectors
               /\ request.cmd = IF op = CMD17 THEN "r" ELSE "w"
  /\ Moving /\ HasAnswer => sctno = CurrentSector
  /\ pc \in {"token", "data"} => block = IF op = CMD17 THEN image[CurrentSector] ELSE Csize
  /\ pc \in {"out crc", "response"} => block = mem[CurrentLocation]
  /\ op = CMD9 /\ pc \in {"crc", "deselect", "done"} => i = Csize

IInv == SDTypeOK /\ CardInv /\ PhaseInv /\ ActInv /\ CopyInv

-------------------------------------------------------------------------------
(* The card, one byte at a time *)

\* The card's state selects what a byte does to it.
LEMMA StateSelects ==
  ASSUME NEW b, select, Exchange(b)
  PROVE  /\ state = "ACCUM_CMD" => AccumCmd(b)
         /\ state = "INTERP_CMD" => InterpCmd
         /\ state = "ANSWER" => Answer
         /\ state = "RD_DELAY" => RdDelay
         /\ state = "RD_DATA" => RdData
         /\ state = "RD_CRC" => RdCrc
         /\ state = "WR_WAIT" => WrWait(b)
         /\ state = "WR_DATA" => WrData(b)
         /\ state = "WR_CRC" => WrCrc(b)
         /\ state = "WR_RSP" => WrRsp
         /\ state = "WR_BUSY" => WrBusy
  BY DEF Exchange, AccumCmd, InterpCmd, Answer, RdDelay, RdData, RdCrc, WrWait, WrData,
         WrCrc, WrRsp, WrBusy

\* The types that steps of the card rely on
LEMMA CardTypes ==
  ASSUME SDTypeOK
  PROVE  /\ cmd \in Seq(Nat) /\ Len(cmd) \in 0 .. 6 /\ left \in Nat /\ initCnt \in Nat \ {0}
         /\ idle \in BOOLEAN /\ crcChecked \in BOOLEAN /\ appCmdSeen \in BOOLEAN
         /\ crcRight \in BOOLEAN /\ image \in [Sector -> Block]
  <1>1. /\ cmd \in Seq(Nat) /\ Len(cmd) \in 0 .. 6 /\ left \in Nat
        /\ {idle, crcChecked, appCmdSeen, crcRight} \subseteq BOOLEAN
        /\ initCnt \in 1 .. PRM_INIT_COUNT \cup 1 .. SEC_INIT_COUNT
        /\ image \in [Sector -> Block]
    BY DEF SDTypeOK, CardTypeOK
  <1>2. initCnt \in Nat \ {0}
    BY <1>1, SdCardAssumption
  <1>3. idle \in BOOLEAN /\ crcChecked \in BOOLEAN /\ appCmdSeen \in BOOLEAN
        /\ crcRight \in BOOLEAN
    BY <1>1
  <1>4. QED
    BY <1>1, <1>2, <1>3

Codes == {CMD0, CMD8, CMD9, CMD17, CMD24, CMD55, CMD58, CMD59, ACMD41}

LEMMA DriverTypes ==
  ASSUME SDTypeOK
  PROVE  /\ op \in Codes /\ op \in Nat /\ i \in Nat /\ tries \in 0 .. TRIES /\ count \in Nat
         /\ sdcInitialized \in BOOLEAN /\ request \in Request \cup {None}
         /\ mem \in [Location -> Block]
  <1>1. /\ op \in Codes /\ i \in Nat /\ tries \in 0 .. TRIES /\ count \in Nat
        /\ sdcInitialized \in BOOLEAN /\ request \in Request \cup {None}
        /\ mem \in [Location -> Block]
    BY DEF SDTypeOK, Codes
  <1>2. op \in Nat
    BY <1>1 DEF Codes, CMD0, CMD8, CMD9, CMD17, CMD24, CMD55, CMD58, CMD59, ACMD41
  <1>3. QED
    BY <1>1, <1>2

LEMMA NoTries == TRIES \in Nat \ {0} /\ 0 \in 0 .. TRIES /\ 0 < TRIES
  <1>1. TRIES \in Nat \ {0}
    BY SdDriverAssumption
  <1>2. QED
    BY <1>1

\* A byte on the way to a whole command
LEMMA ByteTaken ==
  ASSUME SDTypeOK, NEW b \in Nat, AccumCmd(b), state = "ACCUM_CMD", Len(cmd) < 6
  PROVE  /\ state' = "ACCUM_CMD" /\ dataReg' = FILL
         /\ cmd' \in Seq(Nat) /\ Len(cmd') = Len(cmd) + 1 /\ cmd'[Len(cmd) + 1] = b
         /\ \A k \in 1 .. Len(cmd) : cmd'[k] = cmd[k]
         /\ UNCHANGED <<left, block, crcRight, mode, sctno, image>>
  <1>1. state' = "ACCUM_CMD" /\ dataReg' = FILL /\ cmd' = Append(cmd, b)
        /\ UNCHANGED <<left, block, crcRight, mode, sctno, image>>
    BY DEF AccumCmd
  <1>2. cmd \in Seq(Nat)
    BY CardTypes
  <1>3. /\ cmd' \in Seq(Nat) /\ Len(cmd') = Len(cmd) + 1 /\ cmd'[Len(cmd) + 1] = b
        /\ \A k \in 1 .. Len(cmd) : cmd'[k] = cmd[k]
    BY <1>1, <1>2
  <1>4. QED
    BY <1>1, <1>3

LEMMA CommandFull ==
  ASSUME NEW b, AccumCmd(b), Len(cmd) = 6
  PROVE  /\ state' = "INTERP_CMD" /\ dataReg' = FILL
         /\ UNCHANGED <<cmd, left, block, crcRight, mode, sctno, image>>
  BY DEF AccumCmd

\* A command that the card did not expect
LEMMA NotLegal ==
  ASSUME SDTypeOK, InterpCmd, appCmdSeen, cmd[1] # ACMD41
  PROVE  /\ state' = "ACCUM_CMD" /\ cmd' = <<>> /\ left' = 0
         /\ dataReg' \in Nat /\ dataReg' < FILL
         /\ UNCHANGED <<block, crcRight, mode, sctno, image>>
  <1>1. ~Legal
    BY DEF Legal
  <1>2. ~(ModeCmd \/ LongAnswer \/ SendRegister \/ SectorCmd)
    BY DEF ModeCmd, LongAnswer, SendRegister, SectorCmd, Normal
  <1>3. /\ UNCHANGED <<block, sctno, mode>>
        /\ R1(IF CrcFits THEN ILLEGAL_CMD ELSE COM_CRC_ERR) /\ NextCmd
        /\ cmd' = <<>> /\ UNCHANGED <<crcRight, image>>
    BY <1>1, <1>2 DEF InterpCmd
  <1>4. dataReg' \in Nat /\ dataReg' < FILL
    BY <1>3 DEF R1, ILLEGAL_CMD, COM_CRC_ERR, IDLE_STATE, FILL
  <1>5. QED
    BY <1>3, <1>4 DEF NextCmd, Send

\* The frame of a command
LEMMA FrameBytes ==
  ASSUME SDTypeOK, request.sct \in Nat \/ op \notin {CMD17, CMD24}
  PROVE  /\ \A k \in 1 .. 6 : Frame[k] \in Nat
         /\ Frame[1] = op /\ Frame[6] = CRC7
         /\ op \in {CMD0, CMD59} => Frame[5] \in {0, 1}
         /\ op \in {CMD17, CMD24} => Frame[5] = CurrentSector
  <1>1. op \in Nat
    BY DriverTypes
  <1>2. op \in {CMD17, CMD24} => CurrentSector \in Nat /\ op # CMD59
    BY DriverTypes DEF CurrentSector, CMD17, CMD24, CMD59
  <1>3. op \in {CMD0, CMD59} => op \notin {CMD17, CMD24}
    BY DEF CMD0, CMD17, CMD24, CMD59
  <1>4. Frame[5] = IF op = CMD59 THEN 1 ELSE IF op \in {CMD17, CMD24} THEN CurrentSector ELSE 0
    BY DEF Frame
  <1>5. Frame[5] \in Nat
    BY <1>2, <1>4
  <1>6. Frame[1] = op /\ Frame[2] = 0 /\ Frame[3] = 0 /\ Frame[4] = 0 /\ Frame[6] = CRC7
    BY DEF Frame
  <1>7. \A k \in 1 .. 6 : k = 1 \/ k = 2 \/ k = 3 \/ k = 4 \/ k = 5 \/ k = 6
    OBVIOUS
  <1>8. \A k \in 1 .. 6 : Frame[k] \in Nat
    BY <1>1, <1>5, <1>6, <1>7 DEF CRC7
  <1>9. QED
    BY <1>2, <1>3, <1>4, <1>6, <1>8

LEMMA FrameStays ==
  ASSUME UNCHANGED <<op, callVars>>
  PROVE  Frame' = Frame /\ CurrentSector' = CurrentSector
  BY DEF Frame, CurrentSector, callVars

\* What the card does with a command of the driver's that it takes for one
LEMMA Understood ==
  ASSUME SDTypeOK, InterpCmd, Has(6), ModeFits,
         request.sct \in Nat \/ op \notin {CMD17, CMD24},
         op \in {CMD17, CMD24} => CurrentSector \in Sector
  PROVE  /\ cmd' = <<>> /\ dataReg' \in Nat /\ dataReg' < FILL
         /\ UNCHANGED <<crcRight, image>>
         /\ idle' \in BOOLEAN /\ crcChecked' \in BOOLEAN /\ appCmdSeen' \in BOOLEAN
         /\ op \in {CMD0, CMD55, CMD59, ACMD41} =>
              state' = "ACCUM_CMD" /\ left' = 0 /\ UNCHANGED <<block, sctno>>
         /\ op = CMD55 => appCmdSeen'
         /\ op \in {CMD59, ACMD41} => ~appCmdSeen'
         /\ op \in {CMD55, CMD59} => UNCHANGED <<idle, initCnt>>
         /\ op = CMD0 => UNCHANGED initCnt
         /\ op = ACMD41 =>
              /\ idle' = (idle /\ initCnt # 1)
              /\ initCnt' = IF initCnt = 1 THEN SEC_INIT_COUNT ELSE initCnt - 1
              /\ dataReg' = IF idle' THEN 1 ELSE 0
         /\ op \in {CMD8, CMD58, CMD9, CMD17, CMD24} => UNCHANGED mode
         /\ op \in {CMD8, CMD58} => UNCHANGED <<block, sctno>>
         /\ op = CMD58 \/ (op = CMD8 /\ ~appCmdSeen) => state' = "ANSWER" /\ left' = 4
         /\ op = CMD8 /\ appCmdSeen => state' = "ACCUM_CMD" /\ left' = 0
         /\ op = CMD9 =>
              state' = "RD_DELAY" /\ left' = CSD_DELAY_COUNT /\ block' = Csize /\ UNCHANGED sctno
         /\ op = CMD17 =>
              /\ state' = "RD_DELAY" /\ left' = RD_DELAY_COUNT
              /\ block' = image[CurrentSector] /\ sctno' = CurrentSector
         /\ op = CMD24 =>
              state' = "WR_WAIT" /\ left' = 0 /\ sctno' = CurrentSector /\ UNCHANGED block
  <1>1. cmd[1] = op /\ cmd[5] = Frame[5] /\ cmd[6] = CRC7
    BY FrameBytes DEF Has
  <1>2. CrcFits
    BY <1>1 DEF CrcFits
  <1>3. CASE appCmdSeen /\ op # ACMD41
    <2>1. op \in {CMD0, CMD8, CMD55}
      BY <1>3, DriverTypes DEF ModeFits, Codes
    <2>2. op \notin {CMD58, CMD59, CMD9, CMD17, CMD24, ACMD41}
      BY <2>1 DEF CMD0, CMD8, CMD9, CMD17, CMD24, CMD55, CMD58, CMD59, ACMD41
    <2>3. QED
      BY <1>1, <1>3, <2>1, <2>2, NotLegal, CardTypes DEF mode
  <1>4. CASE op = ACMD41
    <2>1. appCmdSeen /\ cmd[1] = ACMD41 /\ op \notin Codes \ {ACMD41}
      BY <1>1, <1>4 DEF ModeFits, Codes
    <2>2. Legal
      BY <2>1 DEF Legal
    <2>3. ModeCmd
      BY <1>2, <2>1, <2>2 DEF InterpCmd, LongAnswer, SendRegister, SectorCmd, Normal
    <2>4. /\ appCmdSeen' = FALSE /\ idle' = (idle /\ ~LastInit) /\ UNCHANGED crcChecked
          /\ initCnt' = IF LastInit THEN SEC_INIT_COUNT ELSE initCnt - 1
          /\ R1(0) /\ NextCmd /\ UNCHANGED <<block, sctno>>
      BY <2>1, <2>3 DEF ModeCmd, Normal
    <2>5. cmd' = <<>> /\ UNCHANGED <<crcRight, image>>
      BY DEF InterpCmd
    <2>6. /\ idle' = (idle /\ initCnt # 1)
          /\ initCnt' = IF initCnt = 1 THEN SEC_INIT_COUNT ELSE initCnt - 1
          /\ state' = "ACCUM_CMD" /\ left' = 0
      BY <2>4 DEF LastInit, NextCmd, Send
    <2>7. dataReg' = (IF idle' THEN 1 ELSE 0) /\ dataReg' \in Nat /\ dataReg' < FILL
      BY <2>4 DEF R1, IDLE_STATE, FILL
    <2>8. idle' \in BOOLEAN /\ crcChecked' \in BOOLEAN /\ appCmdSeen' \in BOOLEAN
      BY <2>4, CardTypes
    <2>9. op \notin {CMD0, CMD8, CMD9, CMD17, CMD24, CMD55, CMD58, CMD59}
      BY <1>4 DEF CMD0, CMD8, CMD9, CMD17, CMD24, CMD55, CMD58, CMD59, ACMD41
    <2>10. QED
      BY <1>4, <2>4, <2>5, <2>6, <2>7, <2>8, <2>9
  <1>5. CASE ~appCmdSeen /\ op # ACMD41
    <2>1. Normal(op) /\ op \in Codes \ {ACMD41}
      BY <1>1, <1>5, DriverTypes DEF Normal, Codes
    <2>2. \A c : c # op => ~Normal(c)
      BY <1>1 DEF Normal
    <2>3. Legal
      BY <1>1, <1>5, <2>1 DEF Legal, Codes
    <2>4. CrcFits /\ (ModeCmd \/ LongAnswer \/ SendRegister \/ SectorCmd)
      BY <1>2, <2>3 DEF InterpCmd
    <2>5. cmd' = <<>> /\ UNCHANGED <<crcRight, image>>
      BY DEF InterpCmd
    <2>6. CASE op \in {CMD0, CMD55, CMD59}
      <3>1. ModeCmd
        BY <2>2, <2>4, <2>6
        DEF LongAnswer, SendRegister, SectorCmd,
            CMD0, CMD8, CMD9, CMD10, CMD17, CMD24, CMD55, CMD58, CMD59
      <3>2. /\ R1(0) /\ NextCmd /\ UNCHANGED <<block, sctno>>
            /\ \/ /\ op = CMD0
                  /\ idle' = TRUE /\ crcChecked' = FALSE /\ UNCHANGED <<appCmdSeen, initCnt>>
               \/ op = CMD59 /\ crcChecked' \in BOOLEAN /\ UNCHANGED <<idle, appCmdSeen, initCnt>>
               \/ op = CMD55 /\ appCmdSeen' = TRUE /\ UNCHANGED <<idle, crcChecked, initCnt>>
        BY <1>5, <2>2, <3>1 DEF ModeCmd
      <3>3. dataReg' \in Nat /\ dataReg' < FILL
        BY <3>2 DEF R1, IDLE_STATE, FILL
      <3>4. state' = "ACCUM_CMD" /\ left' = 0
        BY <3>2 DEF NextCmd, Send
      <3>5. op \notin {CMD8, CMD9, CMD17, CMD24, CMD58, ACMD41}
        BY <2>6 DEF CMD0, CMD8, CMD9, CMD17, CMD24, CMD55, CMD58, CMD59, ACMD41
      <3>6. CMD0 # CMD55 /\ CMD0 # CMD59 /\ CMD55 # CMD59
        BY DEF CMD0, CMD55, CMD59
      <3>7. idle' \in BOOLEAN /\ crcChecked' \in BOOLEAN /\ appCmdSeen' \in BOOLEAN
        BY <3>2, CardTypes
      <3>8. /\ op = CMD55 => appCmdSeen'
            /\ op = CMD59 => ~appCmdSeen'
            /\ op \in {CMD55, CMD59} => UNCHANGED <<idle, initCnt>>
            /\ op = CMD0 => UNCHANGED initCnt
        BY <1>5, <3>2, <3>6
      <3>9. QED
        BY <2>5, <3>2, <3>3, <3>4, <3>5, <3>7, <3>8
    <2>7. CASE op \in {CMD8, CMD58}
      <3>1. LongAnswer
        BY <1>5, <2>2, <2>4, <2>7
        DEF ModeCmd, SendRegister, SectorCmd,
            CMD0, CMD8, CMD9, CMD10, CMD17, CMD24, CMD55, CMD58, CMD59
      <3>2. QED
        BY <1>5, <2>5, <2>7, <3>1, CardTypes
        DEF LongAnswer, R1, Send, AnswerBytes,  mode,
            CMD0, CMD8, CMD9, CMD17, CMD24, CMD55, CMD58, CMD59, ACMD41, IDLE_STATE, FILL
    <2>8. CASE op = CMD9
      <3>1. SendRegister
        BY <1>5, <2>2, <2>4, <2>8
        DEF ModeCmd, LongAnswer, SectorCmd,
            CMD0, CMD8, CMD9, CMD10, CMD17, CMD24, CMD55, CMD58, CMD59
      <3>2. QED
        BY <1>5, <2>1, <2>5, <2>8, <3>1, CardTypes
        DEF SendRegister, R1, Send,  mode,
            CMD0, CMD8, CMD9, CMD17, CMD24, CMD55, CMD58, CMD59, ACMD41, IDLE_STATE, FILL
    <2>9. CASE op \in {CMD17, CMD24}
      <3>1. SectorCmd
        BY <1>5, <2>2, <2>4, <2>9
        DEF ModeCmd, LongAnswer, SendRegister,
            CMD0, CMD8, CMD9, CMD10, CMD17, CMD24, CMD55, CMD58, CMD59
      <3>2. Argument = CurrentSector
        BY <1>1, <2>9, FrameBytes DEF Argument
      <3>3. sctno' = CurrentSector /\ UNCHANGED mode /\ R1(0)
            /\ \/ op = CMD17 /\ block' = image[CurrentSector] /\ Send("RD_DELAY", RD_DELAY_COUNT)
               \/ op = CMD24 /\ Send("WR_WAIT", 0) /\ UNCHANGED block
        BY <2>2, <2>9, <3>1, <3>2 DEF SectorCmd
      <3>4. QED
        BY <1>5, <2>5, <2>9, <3>3, CardTypes
        DEF R1, Send,  mode,
            CMD0, CMD8, CMD9, CMD17, CMD24, CMD55, CMD58, CMD59, ACMD41, IDLE_STATE, FILL
    <2>10. QED
      BY <2>1, <2>6, <2>7, <2>8, <2>9 DEF Codes
  <1>6. QED
    BY <1>3, <1>4, <1>5

-------------------------------------------------------------------------------
(* The size of the disk fits the image *)

Rest(a, N) == a % N

LEMMA Remainder ==
  ASSUME NEW a \in Int, NEW N \in Nat \ {0}
  PROVE  Rest(a, N) \in 0 .. N - 1 /\ \E q \in Int : a = N * q + Rest(a, N)
  <1>. DEFINE q == a \div N
              r == Rest(a, N)
  <1>1. q \in Int
    OBVIOUS
  <1>2. r \in 0 .. N - 1
    BY DEF Rest
  <1>3. r = a - N * q
    BY DEF Rest
  <1>. HIDE DEF q, r
  <1>4. r \in 0 .. N - 1 /\ \E x \in Int : a = N * x + r
    BY <1>1, <1>2, <1>3
  <1>. QED
    BY <1>4 DEF r

\* A number smaller than the divisor, and the divisor itself
LEMMA SmallRest ==
  ASSUME NEW N \in Nat \ {0}, NEW a \in Int, 0 <= a, a <= N
  PROVE  Rest(a, N) = IF a = N THEN 0 ELSE a
  <1>. DEFINE r == Rest(a, N)
  <1>1. r \in 0 .. N - 1 /\ \E q \in Int : a = N * q + r
    BY Remainder
  <1>. HIDE DEF r
  <1>2. PICK q \in Int : a = N * q + r
    BY <1>1
  <1>3. q >= 2 => N * q >= 2 * N
    OBVIOUS
  <1>4. q <= -1 => N * q <= -N
    OBVIOUS
  <1>5. q \in {0, 1}
    BY <1>1, <1>2, <1>3, <1>4
  <1>6. r = IF a = N THEN 0 ELSE a
    BY <1>1, <1>2, <1>5
  <1>. QED
    BY <1>6 DEF r

\* The size field is at most one less than the number of whole units.
LEMMA CsizeFits ==
  ASSUME NEW C \in Nat \ {0}, NEW k \in Nat
  PROVE  LET c == Rest(k - 1, C) IN c \in 0 .. C - 1 /\ (c + 1 <= k \/ c + 1 = C)
  <1>. DEFINE a == k - 1   c == Rest(a, C)
  <1>1. a \in Int /\ a >= -1 /\ k = a + 1
    OBVIOUS
  <1>. HIDE DEF a
  <1>2. c \in 0 .. C - 1 /\ \E q \in Int : a = C * q + c
    BY <1>1, Remainder
  <1>. HIDE DEF c
  <1>3. PICK q \in Int : a = C * q + c
    BY <1>2
  <1>4. q >= 0 => C * q >= 0
    OBVIOUS
  <1>5. q <= -1 => C * q <= -C
    OBVIOUS
  <1>6. c + 1 <= k \/ c + 1 = C
    BY <1>1, <1>2, <1>3, <1>4, <1>5
  <1>. QED
    BY <1>2, <1>6 DEF a, c

LEMMA Products ==
  ASSUME NEW U \in Nat \ {0}, NEW m \in Nat, NEW k \in Nat, m <= k
  PROVE  /\ m * U \in Nat /\ k * U \in Nat /\ m * U <= k * U
         /\ m < k => m * U < k * U
         /\ k # 0 => k * U # 0
  OBVIOUS

LEMMA Quotient ==
  ASSUME NEW T \in Nat, NEW U \in Nat \ {0}
  PROVE  T \div U \in Nat /\ (T \div U) * U <= T
  OBVIOUS

LEMMA SizeFits == Size \in 0 .. TOTAL
  <1>. DEFINE k == TOTAL \div UNIT   c == Rest(k - 1, CSIZES)   m == c + 1
              a == m * UNIT   N == CSIZES * UNIT
  <1>1. TOTAL \in Nat /\ UNIT \in Nat \ {0} /\ CSIZES \in Nat \ {0}
    BY SdCardAssumption
  <1>2. k \in Nat /\ k * UNIT <= TOTAL
    BY <1>1, Quotient
  <1>3. Size = Rest(a, N)
    BY DEF Size, Csize, Rest
  <1>. HIDE DEF k
  <1>4. c \in 0 .. CSIZES - 1 /\ (c + 1 <= k \/ c + 1 = CSIZES)
    BY <1>1, <1>2, CsizeFits
  <1>. HIDE DEF c
  <1>5. m \in 1 .. CSIZES /\ (m <= k \/ m = CSIZES)
    BY <1>1, <1>2, <1>4
  <1>. HIDE DEF m
  <1>6. a \in Nat /\ N \in Nat \ {0} /\ a <= N /\ (m < CSIZES => a < N)
    BY <1>1, <1>5, Products
  <1>7. m < CSIZES => a <= k * UNIT
    BY <1>1, <1>2, <1>5, Products
  <1>8. m < CSIZES => a <= TOTAL
    <2>. DEFINE b == k * UNIT
    <2>1. b \in Nat
      BY <1>1, <1>2, Products
    <2>. HIDE DEF b
    <2>. QED
      BY <1>1, <1>2, <1>6, <1>7, <2>1 DEF b
  <1>9. m = CSIZES => a = N
    OBVIOUS
  <1>. HIDE DEF a, N
  <1>10. Rest(a, N) = IF a = N THEN 0 ELSE a
    BY <1>6, SmallRest
  <1>. QED
    BY <1>1, <1>3, <1>5, <1>6, <1>8, <1>9, <1>10

-------------------------------------------------------------------------------
(* The steps of a call *)

USE DEF mode, callVars, InData, OutData, Waiting, HasAnswer, InCommand

\* A request that is being served
LEMMA Requested ==
  ASSUME SDTypeOK, CopyInv, Moving
  PROVE  /\ request \in Request
         /\ request.sct \in Nat /\ request.n \in Nat /\ request.addr \in Nat
         /\ CurrentSector \in Nat /\ CurrentSector \in Sector /\ CurrentSector \in 0 .. Size - 1
         /\ CurrentLocation \in Location /\ numSectors = Size
  <1>1. request \in Request
    BY DriverTypes DEF CopyInv
  <1>2. request.sct \in Nat /\ request.n \in Nat /\ request.addr \in Nat
    BY <1>1, SdDriverAssumption
  <1>3. /\ count \in Nat /\ count < request.n /\ CurrentSector < numSectors /\ numSectors = Size
    BY DriverTypes DEF CopyInv
  <1>4. CurrentLocation \in Location
    BY <1>1, <1>2, <1>3, SdDriverAssumption DEF CurrentLocation
  <1>5. CurrentSector \in Nat
    BY <1>2, <1>3 DEF CurrentSector
  <1>6. CurrentSector \in 0 .. Size - 1 /\ CurrentSector \in Sector
    BY <1>3, <1>5, SizeFits, SdCardAssumption DEF Sector
  <1>7. QED
    BY <1>1, <1>2, <1>3, <1>4, <1>5, <1>6

\* What does not change while the driver moves from byte to byte
LEMMA CallStays ==
  ASSUME UNCHANGED <<op, callVars>>
  PROVE  Frame' = Frame /\ CurrentSector' = CurrentSector /\ CurrentLocation' = CurrentLocation
  BY DEF Frame, CurrentSector, CurrentLocation

LEMMA SelectStep ==
  ASSUME IInv, Select
  PROVE  IInv'
  <1>1. SDTypeOK'
    BY DEF IInv, SDTypeOK, CardTypeOK, Select, States
  <1>2. CardInv'
    BY DEF IInv, CardInv, Select, BeforeCommand, AtCommand, FourBehind, ModeFits, SendingLate, Has
  <1>3. PhaseInv'
    BY DEF IInv, PhaseInv, Select
  <1>4. ActInv'
    BY DEF IInv, ActInv, Select
  <1>5. CopyInv'
    BY DEF IInv, CopyInv, Select, Moving, Size, Csize, CurrentSector, CurrentLocation
  <1>6. QED
    BY <1>1, <1>2, <1>3, <1>4, <1>5 DEF IInv

LEMMA SendFrameStep ==
  ASSUME IInv, SendFrame
  PROVE  IInv'
  <1>1. /\ pc = "send" /\ select /\ Exchange(Frame[i])
        /\ UNCHANGED <<select, op, rcv, tries, sdcInitialized, numSectors, callVars, mem>>
        /\ IF i = 6 THEN pc' = "answer" /\ i' = ANSWER_POLLS ELSE i' = i + 1 /\ UNCHANGED pc
    BY DEF IInv, PhaseInv, SendFrame
  <1>2. request.sct \in Nat \/ op \notin {CMD17, CMD24}
    BY <1>1, Requested DEF IInv, Moving
  <1>3. /\ \A k \in 1 .. 6 : Frame[k] \in Nat
        /\ op \in {CMD0, CMD59} => Frame[5] \in {0, 1}
    BY <1>2, FrameBytes DEF IInv
  <1>4. i \in Nat /\ cmd \in Seq(Nat) /\ Len(cmd) \in 0 .. 6 /\ ANSWER_POLLS \in Nat
    BY CardTypes, DriverTypes, SdDriverAssumption DEF IInv
  <1>. DEFINE Kept == UNCHANGED <<block, crcRight, mode, sctno, image>>
              Typed == state' \in States /\ cmd' \in Seq(Nat) /\ Len(cmd') \in 0 .. 6 /\ left' \in Nat
              Sending == pc' = "send" /\ i' = i + 1
              Sent == pc' = "answer" /\ i' = ANSWER_POLLS
  <1>5. SUFFICES CardInv' /\ Kept /\ Typed /\ (Sending \/ Sent)
    <2>1. SDTypeOK'
      <3>1. CardTypeOK'
        BY <1>1 DEF IInv, SDTypeOK, CardTypeOK
      <3>2. i' \in Nat
        BY <1>1, <1>4
      <3>3. QED
        BY <1>1, <3>1, <3>2 DEF IInv, SDTypeOK
    <2>2. PhaseInv'
      BY <1>1 DEF IInv, PhaseInv
    <2>3. ActInv'
      BY <1>1 DEF IInv, ActInv
    <2>4. CopyInv'
      BY <1>1 DEF IInv, CopyInv, Moving, Size, Csize, CurrentSector, CurrentLocation
    <2>5. QED
      BY <2>1, <2>2, <2>3, <2>4 DEF IInv
  <1>6. CASE i \in 1 .. 6 /\ state = "ACCUM_CMD" /\ Has(i - 1) /\ ModeFits
    <2>1. AccumCmd(Frame[i]) /\ Frame[i] \in Nat /\ Len(cmd) = i - 1 /\ Len(cmd) < 6
      BY <1>1, <1>3, <1>6, StateSelects DEF Has
    <2>2. /\ state' = "ACCUM_CMD" /\ cmd' \in Seq(Nat) /\ Len(cmd') = i /\ cmd'[i] = Frame[i]
          /\ \A k \in 1 .. i - 1 : cmd'[k] = cmd[k]
          /\ Kept /\ UNCHANGED left
      BY <1>4, <1>6, <2>1, ByteTaken DEF IInv
    <2>3. \A k \in 1 .. i : cmd'[k] = Frame'[k]
      <3>1. \A k \in 1 .. i - 1 : cmd'[k] = Frame[k]
        BY <1>6, <2>2 DEF Has
      <3>2. \A k \in 1 .. i : k \in 1 .. i - 1 \/ k = i
        BY <1>4
      <3>3. \A k \in 1 .. i : cmd'[k] = Frame[k]
        BY <2>2, <3>1, <3>2
      <3>4. QED
        BY <1>1, <3>3, CallStays
    <2>4. ModeFits'
      BY <1>1, <1>6, <2>2 DEF ModeFits
    <2>5. Typed
      BY <1>4, <1>6, <2>2, CardTypes DEF States, IInv
    <2>6. CASE i = 6
      <3>1. Has(6)' /\ Sent
        BY <1>1, <2>2, <2>3, <2>6 DEF Has
      <3>2. CardInv'
        BY <2>2, <2>4, <3>1 DEF CardInv
      <3>3. QED
        BY <2>2, <2>5, <3>1, <3>2
    <2>7. CASE i # 6
      <3>1. Sending /\ i' \in 1 .. 6 /\ i' - 1 = i
        BY <1>1, <1>4, <1>6, <2>7
      <3>2. Has(i - 1)'
        BY <2>2, <2>3, <3>1 DEF Has
      <3>3. CardInv'
        BY <2>2, <2>4, <3>1, <3>2 DEF CardInv
      <3>4. QED
        BY <2>2, <2>5, <3>1, <3>3
    <2>8. QED
      BY <2>6, <2>7
  <1>7. CASE SendingLate
    <2>1. CASE i \in 1 .. 3 /\ state = "ACCUM_CMD" /\ Len(cmd) = i + 3 /\ cmd[1] = FILL
      <3>1. AccumCmd(Frame[i]) /\ Frame[i] \in Nat /\ Sending
        BY <1>1, <1>3, <2>1, StateSelects
      <3>2. CASE i = 3
        <4>1. state' = "INTERP_CMD" /\ Kept /\ UNCHANGED <<cmd, left>>
          BY <2>1, <3>1, <3>2, CommandFull
        <4>2. QED
          BY <1>1, <1>4, <1>7, <2>1, <3>1, <3>2, <4>1, CardTypes
          DEF CardInv, SendingLate, States, IInv
      <3>3. CASE i # 3
        <4>1. /\ state' = "ACCUM_CMD" /\ cmd' \in Seq(Nat) /\ Len(cmd') = i + 4 /\ cmd'[1] = FILL
              /\ Kept /\ UNCHANGED left
          BY <1>4, <2>1, <3>1, <3>3, ByteTaken DEF IInv
        <4>2. i' \in 1 .. 3 /\ Len(cmd') = i' + 3
          BY <2>1, <3>1, <3>3, <4>1
        <4>3. QED
          BY <1>1, <1>4, <1>7, <2>1, <3>1, <4>1, <4>2, CardTypes
          DEF CardInv, SendingLate, States, IInv
      <3>4. QED
        BY <3>2, <3>3
    <2>2. CASE i = 4 /\ state = "INTERP_CMD" /\ cmd[1] = FILL
      <3>1. InterpCmd /\ Sending /\ i' = 5 /\ cmd[1] # ACMD41
        BY <1>1, <2>2, StateSelects DEF FILL, ACMD41
      <3>2. state' = "ACCUM_CMD" /\ cmd' = <<>> /\ left' = 0 /\ Kept
        BY <1>7, <3>1, NotLegal DEF IInv, SendingLate
      <3>3. QED
        BY <1>1, <1>7, <3>1, <3>2 DEF CardInv, SendingLate, AtCommand, States
    <2>3. CASE i = 5 /\ AtCommand
      <3>1. AccumCmd(Frame[i]) /\ Frame[i] \in {0, 1} /\ Sending /\ i' = 6 /\ Len(cmd) = 0
        BY <1>1, <1>3, <1>7, <2>3, StateSelects DEF SendingLate, AtCommand
      <3>2. /\ state' = "ACCUM_CMD" /\ cmd' \in Seq(Nat) /\ Len(cmd') = 1 /\ cmd'[1] \in {0, 1}
            /\ Kept /\ UNCHANGED left
        BY <1>4, <2>3, <3>1, ByteTaken DEF IInv, AtCommand
      <3>3. QED
        BY <1>1, <1>4, <1>7, <3>1, <3>2, CardTypes DEF CardInv, SendingLate, States, IInv
    <2>4. CASE i = 6 /\ state = "ACCUM_CMD" /\ Len(cmd) = 1 /\ cmd[1] \in {0, 1}
      <3>1. AccumCmd(Frame[i]) /\ Frame[i] \in Nat /\ Sent
        BY <1>1, <1>3, <2>4, StateSelects
      <3>2. /\ state' = "ACCUM_CMD" /\ cmd' \in Seq(Nat) /\ Len(cmd') = 2 /\ cmd'[1] \in {0, 1}
            /\ Kept /\ UNCHANGED left
        BY <1>4, <2>4, <3>1, ByteTaken DEF IInv
      <3>3. AnswerLate'
        BY <1>1, <1>4, <1>7, <3>1, <3>2 DEF AnswerLate, SendingLate
      <3>4. QED
        BY <1>1, <1>4, <3>1, <3>2, <3>3, CardTypes DEF CardInv, States, IInv
    <2>5. QED
      BY <1>7, <2>1, <2>2, <2>3, <2>4 DEF SendingLate
  <1>8. QED
    BY <1>1, <1>6, <1>7 DEF IInv, CardInv

\* Where the answer leads
LEMMA Phases ==
  ASSUME op \in Codes
  PROVE  /\ op \in {CMD8, CMD58} => AfterAnswer.pc = "more" /\ AfterAnswer.i = 4
         /\ op \in {CMD9, CMD17} => AfterAnswer.pc = "token" /\ AfterAnswer.i = TOKEN_POLLS
         /\ op = CMD24 => AfterAnswer.pc = "out token" /\ AfterAnswer.i = 0
         /\ op \in {CMD0, CMD55, CMD59, ACMD41} => AfterAnswer.pc = "deselect" /\ AfterAnswer.i = 0
  BY DEF AfterAnswer, Codes, CMD0, CMD8, CMD9, CMD17, CMD24, CMD55, CMD58, CMD59, ACMD41

LEMMA PollAnswerStep ==
  ASSUME IInv, PollAnswer
  PROVE  IInv'
  <1>1. /\ pc = "answer" /\ select /\ Exchange(FILL)
        /\ UNCHANGED <<select, op, tries, sdcInitialized, numSectors, callVars, mem>>
        /\ dataReg' = FILL => NoSuccess
        /\ dataReg' # FILL => rcv' = dataReg' /\ pc' = AfterAnswer.pc /\ i' = AfterAnswer.i
    BY DEF IInv, PhaseInv, PollAnswer
  <1>2. /\ i \in Nat /\ cmd \in Seq(Nat) /\ Len(cmd) \in 0 .. 6 /\ left \in Nat
        /\ ANSWER_POLLS \in Nat /\ ANSWER_POLLS >= 6
    BY CardTypes, DriverTypes, SdDriverAssumption, DelaysFit DEF IInv
  <1>. DEFINE Kept == UNCHANGED <<block, crcRight, mode, sctno, image>>
              Typed == state' \in States /\ cmd' \in Seq(Nat) /\ Len(cmd') \in 0 .. 6 /\ left' \in Nat
  <1>3. ASSUME CardInv', Kept, Typed, pc' = "answer", i' = i - 1, i' \in Nat, UNCHANGED rcv
        PROVE  IInv'
    <2>1. SDTypeOK'
      <3>1. CardTypeOK'
        BY <1>1, <1>3 DEF IInv, SDTypeOK, CardTypeOK
      <3>2. QED
        BY <1>1, <1>3, <3>1 DEF IInv, SDTypeOK
    <2>2. PhaseInv'
      BY <1>1, <1>3 DEF IInv, PhaseInv
    <2>3. ActInv'
      BY <1>1, <1>3 DEF IInv, ActInv
    <2>4. CopyInv'
      BY <1>1, <1>3 DEF IInv, CopyInv, Moving, Size, Csize, CurrentSector, CurrentLocation
    <2>5. QED
      BY <1>3, <2>1, <2>2, <2>3, <2>4 DEF IInv
  <1>4. dataReg' = FILL /\ i > 1 => pc' = "answer" /\ i' = i - 1 /\ i' \in Nat /\ UNCHANGED rcv
    BY <1>1, <1>2 DEF NoSuccess
  <1>5. CASE ModeFits /\ Has(6) /\ i = ANSWER_POLLS /\ state = "ACCUM_CMD"
    <2>1. AccumCmd(FILL) /\ Len(cmd) = 6
      BY <1>1, <1>5, StateSelects DEF Has
    <2>2. state' = "INTERP_CMD" /\ dataReg' = FILL /\ Kept /\ UNCHANGED <<cmd, left>>
      BY <2>1, CommandFull
    <2>3. pc' = "answer" /\ i' = i - 1 /\ i' \in Nat /\ UNCHANGED rcv
      BY <1>2, <1>4, <1>5, <2>2
    <2>4. Has(6)' /\ ModeFits'
      BY <1>1, <1>5, <2>2, CallStays DEF Has, ModeFits
    <2>5. CardInv'
      BY <1>5, <2>2, <2>3, <2>4 DEF CardInv
    <2>6. QED
      BY <1>2, <1>3, <2>2, <2>3, <2>5 DEF States
  <1>6. CASE AnswerLate /\ state = "ACCUM_CMD"
    <2>1. /\ AccumCmd(FILL) /\ i \in ANSWER_POLLS - 4 .. ANSWER_POLLS
          /\ Len(cmd) = 2 + ANSWER_POLLS - i /\ cmd[1] \in {0, 1} /\ appCmdSeen /\ op \in {CMD0, CMD59}
      BY <1>1, <1>6, StateSelects DEF AnswerLate
    <2>2. i > 1 /\ FILL \in Nat
      BY <1>2, <2>1 DEF FILL
    <2>3. CASE i = ANSWER_POLLS - 4
      <3>1. Len(cmd) = 6
        BY <1>2, <2>1, <2>3
      <3>2. state' = "INTERP_CMD" /\ dataReg' = FILL /\ Kept /\ UNCHANGED <<cmd, left>>
        BY <2>1, <3>1, CommandFull
      <3>3. pc' = "answer" /\ i' = i - 1 /\ i' = ANSWER_POLLS - 5 /\ i' \in Nat /\ UNCHANGED rcv
        BY <1>2, <1>4, <2>2, <2>3, <3>2
      <3>4. AnswerLate'
        <4>1. op' \in {CMD0, CMD59} /\ appCmdSeen' /\ cmd'[1] \in {0, 1}
          BY <1>1, <2>1, <3>2
        <4>2. Len(cmd') > 0
          BY <3>1, <3>2
        <4>3. QED
          BY <1>1, <3>2, <3>3, <4>1, <4>2 DEF AnswerLate
      <3>5. CardInv'
        BY <3>3, <3>4 DEF CardInv
      <3>6. Typed
        BY <1>2, <3>2 DEF States
      <3>7. QED
        BY <1>3, <3>2, <3>3, <3>5, <3>6
    <2>4. CASE i # ANSWER_POLLS - 4
      <3>1. PICK n \in 2 .. 5 : Len(cmd) = n /\ n = 2 + ANSWER_POLLS - i
        BY <1>2, <2>1, <2>4
      <3>2. /\ state' = "ACCUM_CMD" /\ dataReg' = FILL /\ Kept /\ UNCHANGED left
            /\ cmd' \in Seq(Nat) /\ Len(cmd') = n + 1 /\ cmd'[1] \in {0, 1}
        <4>1. Len(cmd) < 6 /\ 1 \in 1 .. Len(cmd)
          BY <3>1
        <4>2. /\ state' = "ACCUM_CMD" /\ dataReg' = FILL /\ Kept /\ UNCHANGED left
              /\ cmd' \in Seq(Nat) /\ Len(cmd') = Len(cmd) + 1
              /\ \A k \in 1 .. Len(cmd) : cmd'[k] = cmd[k]
          BY <1>6, <2>1, <2>2, <4>1, ByteTaken DEF IInv
        <4>3. cmd'[1] = cmd[1]
          BY <4>1, <4>2
        <4>4. QED
          BY <2>1, <3>1, <4>2, <4>3
      <3>3. pc' = "answer" /\ i' = i - 1 /\ i' \in Nat /\ UNCHANGED rcv
        BY <1>4, <2>2, <3>2
      <3>4. AnswerLate'
        <4>1. i' \in ANSWER_POLLS - 4 .. ANSWER_POLLS /\ Len(cmd') = 2 + ANSWER_POLLS - i'
          BY <1>2, <2>1, <2>4, <3>1, <3>2, <3>3
        <4>2. Len(cmd') > 0
          BY <3>1, <3>2
        <4>3. QED
          BY <1>1, <2>1, <3>2, <4>1, <4>2 DEF AnswerLate
      <3>5. CardInv'
        BY <3>3, <3>4 DEF CardInv
      <3>6. Typed
        BY <1>2, <3>1, <3>2 DEF States
      <3>7. QED
        BY <1>3, <3>2, <3>3, <3>5, <3>6
    <2>5. QED
      BY <2>3, <2>4
  <1>7. CASE AnswerLate /\ state # "ACCUM_CMD"
    <2>1. InterpCmd /\ appCmdSeen /\ cmd[1] # ACMD41 /\ op \in {CMD0, CMD59}
      BY <1>1, <1>7, StateSelects DEF AnswerLate, ACMD41
    <2>2. /\ state' = "ACCUM_CMD" /\ cmd' = <<>> /\ left' = 0 /\ Kept
          /\ dataReg' \in Nat /\ dataReg' < FILL
      BY <2>1, NotLegal DEF IInv
    <2>3. pc' = "deselect" /\ i' = 0 /\ rcv' = dataReg' /\ dataReg' # FILL
      <3>1. op \in Codes
        BY DriverTypes DEF IInv
      <3>2. AfterAnswer.pc = "deselect" /\ AfterAnswer.i = 0
        BY <2>1, <3>1, Phases
      <3>3. dataReg' # FILL
        BY <2>2 DEF FILL
      <3>4. QED
        BY <1>1, <3>2, <3>3
    <2>4. op \notin {CMD8, CMD9, CMD17, CMD24, CMD55, CMD58, ACMD41}
      BY <2>1 DEF CMD0, CMD8, CMD9, CMD17, CMD24, CMD55, CMD58, CMD59, ACMD41
    <2>5. SDTypeOK'
      <3>1. CardTypeOK'
        BY <1>1, <2>2 DEF IInv, SDTypeOK, CardTypeOK, States
      <3>2. QED
        BY <1>1, <2>3, <3>1 DEF IInv, SDTypeOK
    <2>6. CardInv'
      BY <1>1, <2>1, <2>2, <2>3, <2>4 DEF CardInv, AfterCommand, AtCommand
    <2>7. PhaseInv'
      BY <1>1, <2>3 DEF IInv, PhaseInv
    <2>8. ActInv'
      BY <1>1, <2>2, <2>3, <2>4 DEF IInv, ActInv
    <2>9. CopyInv'
      BY <1>1, <2>2, <2>3, <2>4
      DEF IInv, CopyInv, Moving, Size, Csize, CurrentSector, CurrentLocation
    <2>10. QED
      BY <2>5, <2>6, <2>7, <2>8, <2>9 DEF IInv
  <1>8. CASE ModeFits /\ Has(6) /\ i = ANSWER_POLLS - 1 /\ state = "INTERP_CMD"
    <2>1. InterpCmd /\ op \in Codes
      BY <1>1, <1>8, StateSelects, DriverTypes DEF IInv
    <2>2. /\ request.sct \in Nat \/ op \notin {CMD17, CMD24}
          /\ op \in {CMD17, CMD24} => Moving /\ CurrentSector \in Sector
      BY <1>1, Requested DEF IInv, Moving
    <2>. DEFINE Modes == idle' \in BOOLEAN /\ crcChecked' \in BOOLEAN /\ appCmdSeen' \in BOOLEAN
    <2>3. /\ cmd' = <<>> /\ dataReg' \in Nat /\ dataReg' < FILL
          /\ UNCHANGED <<crcRight, image>> /\ Modes
      BY <1>8, <2>1, <2>2, Understood DEF IInv
    <2>4. rcv' = dataReg' /\ rcv' # FILL /\ pc' = AfterAnswer.pc /\ i' = AfterAnswer.i
      BY <1>1, <2>3 DEF FILL
    <2>5. ASSUME state' \in States, left' \in Nat, initCnt' \in 1 .. PRM_INIT_COUNT \cup 1 .. SEC_INIT_COUNT,
                 pc' \in {"more", "token", "out token", "deselect"}, i' \in Nat
          PROVE  SDTypeOK'
      <3>1. cmd' \in Seq(Nat) /\ Len(cmd') \in 0 .. 6
        BY <2>3
      <3>2. crcRight' \in BOOLEAN /\ select' \in BOOLEAN /\ image' \in [Sector -> Block]
        BY <1>1, <2>3 DEF IInv, SDTypeOK, CardTypeOK
      <3>3. CardTypeOK'
        BY <2>3, <2>5, <3>1, <3>2 DEF CardTypeOK
      <3>4. QED
        BY <1>1, <2>5, <3>3 DEF IInv, SDTypeOK
    <2>6. CASE op \in {CMD0, CMD55, CMD59, ACMD41}
      <3>1. /\ state' = "ACCUM_CMD" /\ left' = 0 /\ UNCHANGED <<block, sctno>>
            /\ op = CMD55 => appCmdSeen'
            /\ op \in {CMD59, ACMD41} => ~appCmdSeen'
            /\ op \in {CMD55, CMD59} => UNCHANGED <<idle, initCnt>>
            /\ op = CMD0 => UNCHANGED initCnt
            /\ op = ACMD41 =>
              /\ idle' = (idle /\ initCnt # 1)
              /\ initCnt' = IF initCnt = 1 THEN SEC_INIT_COUNT ELSE initCnt - 1
              /\ dataReg' = IF idle' THEN 1 ELSE 0
        BY <1>8, <2>1, <2>2, <2>6, Understood DEF IInv
      <3>2. pc' = "deselect" /\ i' = 0
        BY <2>1, <2>4, <2>6, Phases
      <3>3. op \notin {CMD8, CMD9, CMD17, CMD24, CMD58} /\ CMD55 \notin {CMD0, CMD59, ACMD41}
            /\ ACMD41 \notin {CMD0, CMD59}
        BY <2>6 DEF CMD0, CMD8, CMD9, CMD17, CMD24, CMD55, CMD58, CMD59, ACMD41
      <3>4. /\ initCnt' \in 1 .. PRM_INIT_COUNT \cup 1 .. SEC_INIT_COUNT
            /\ initCnt' \in 1 .. TRIES
        <4>1. initCnt' = initCnt \/ initCnt' = SEC_INIT_COUNT \/ (initCnt # 1 /\ initCnt' = initCnt - 1)
          BY <2>6, <3>1
        <4>2. /\ initCnt \in 1 .. PRM_INIT_COUNT \cup 1 .. SEC_INIT_COUNT /\ initCnt \in 1 .. TRIES
              /\ PRM_INIT_COUNT \in Nat /\ SEC_INIT_COUNT \in Nat \ {0} /\ TRIES \in Nat
              /\ SEC_INIT_COUNT <= TRIES
          BY SdCardAssumption, SdDriverAssumption, DelaysFit DEF IInv, ActInv, SDTypeOK, CardTypeOK
        <4>3. QED
          BY <4>1, <4>2
      <3>5. SDTypeOK'
        BY <2>5, <3>1, <3>2, <3>4 DEF States
      <3>6. CardInv'
        <4>1. AfterCommand'
          BY <1>1, <2>3, <2>6, <3>1, <3>3 DEF AfterCommand, AtCommand
        <4>2. QED
          BY <3>2, <4>1 DEF CardInv
      <3>7. PhaseInv'
        BY <1>1, <2>4, <3>2 DEF IInv, PhaseInv
      <3>8. ActInv'
        <4>1. op = ACMD41 => IF idle' THEN initCnt' < TRIES - tries /\ rcv' = 1 ELSE rcv' = 0
          BY <1>1, <1>2, <2>4, <3>1, DriverTypes, CardTypes, SdDriverAssumption DEF IInv, ActInv
        <4>2. tries' < TRIES /\ ~sdcInitialized'
          BY <1>1, <3>3 DEF IInv, ActInv
        <4>3. op = CMD55 => (idle' => initCnt' <= TRIES - tries)
          BY <1>1, <3>1 DEF IInv, ActInv
        <4>4. op \in {CMD0, CMD8, CMD59} => tries' = 0
          BY <1>1 DEF IInv, ActInv
        <4>5. QED
          BY <1>1, <3>2, <3>3, <3>4, <4>1, <4>2, <4>3, <4>4 DEF ActInv
      <3>9. CopyInv'
        BY <1>1, <2>3, <3>1, <3>2, <3>3
        DEF IInv, CopyInv, Moving, Size, Csize, CurrentSector, CurrentLocation
      <3>10. QED
        BY <3>5, <3>6, <3>7, <3>8, <3>9 DEF IInv
    <2>7. CASE op \in {CMD8, CMD58, CMD9, CMD17, CMD24}
      <3>1. /\ UNCHANGED mode
            /\ op \in {CMD8, CMD58} => UNCHANGED <<block, sctno>>
            /\ op = CMD58 \/ (op = CMD8 /\ ~appCmdSeen) => state' = "ANSWER" /\ left' = 4
            /\ op = CMD8 /\ appCmdSeen => state' = "ACCUM_CMD" /\ left' = 0
            /\ op = CMD9 =>
              state' = "RD_DELAY" /\ left' = CSD_DELAY_COUNT /\ block' = Csize /\ UNCHANGED sctno
            /\ op = CMD17 =>
              /\ state' = "RD_DELAY" /\ left' = RD_DELAY_COUNT
              /\ block' = image[CurrentSector] /\ sctno' = CurrentSector
            /\ op = CMD24 =>
              state' = "WR_WAIT" /\ left' = 0 /\ sctno' = CurrentSector /\ UNCHANGED block
        BY <1>8, <2>1, <2>2, <2>7, Understood DEF IInv
      <3>2. /\ op \in {CMD8, CMD58} => pc' = "more" /\ i' = 4
            /\ op \in {CMD9, CMD17} => pc' = "token" /\ i' = TOKEN_POLLS
            /\ op = CMD24 => pc' = "out token" /\ i' = 0
        BY <2>1, <2>4, Phases
      <3>3. /\ op \notin {CMD0, CMD55, CMD59, ACMD41}
            /\ CMD8 \notin {CMD58, CMD9, CMD17, CMD24} /\ CMD58 \notin {CMD9, CMD17, CMD24}
            /\ CMD9 \notin {CMD17, CMD24} /\ CMD17 # CMD24
        BY <2>7 DEF CMD0, CMD8, CMD9, CMD17, CMD24, CMD55, CMD58, CMD59, ACMD41
      <3>4. op # CMD8 => ~appCmdSeen
        BY <1>8, <2>7 DEF ModeFits
      <3>5. SDTypeOK'
        <4>1. state' \in States /\ pc' \in {"more", "token", "out token", "deselect"}
          BY <2>7, <3>1, <3>2 DEF States
        <4>2. left' \in Nat /\ i' \in Nat
          <5>1. TOKEN_POLLS \in Nat /\ CSD_DELAY_COUNT \in Nat /\ RD_DELAY_COUNT \in Nat
            BY SdCardAssumption, SdDriverAssumption
          <5>2. CASE op \in {CMD8, CMD58}
            <6>1. left' \in {0, 4} /\ i' = 4
              BY <3>1, <3>2, <3>4, <5>2
            <6>2. QED
              BY <6>1
          <5>3. CASE op = CMD9
            BY <3>1, <3>2, <5>1, <5>3
          <5>4. CASE op = CMD17
            BY <3>1, <3>2, <5>1, <5>4
          <5>5. CASE op = CMD24
            <6>1. left' = 0 /\ i' = 0
              BY <3>1, <3>2, <5>5
            <6>2. QED
              BY <6>1
          <5>6. QED
            BY <2>7, <5>2, <5>3, <5>4, <5>5
        <4>3. initCnt' \in 1 .. PRM_INIT_COUNT \cup 1 .. SEC_INIT_COUNT
          BY <3>1 DEF IInv, SDTypeOK, CardTypeOK
        <4>4. QED
          BY <2>5, <4>1, <4>2, <4>3
      <3>6. CardInv'
        <4>1. CASE op \in {CMD8, CMD58}
          <5>1. pc' = "more" /\ i' = 4 /\ cmd' = <<>> /\ Len(cmd') = 0
            BY <2>3, <3>2, <4>1
          <5>2. \/ state' = "ANSWER" /\ left' = 4 /\ ~appCmdSeen'
                \/ op = CMD8 /\ appCmdSeen' /\ state' = "ACCUM_CMD"
            BY <3>1, <3>4, <4>1
          <5>3. MoreLate' \/ (state' = "ANSWER" /\ left' = i' /\ cmd' = <<>> /\ ~appCmdSeen')
            BY <1>1, <5>1, <5>2 DEF MoreLate
          <5>4. QED
            BY <5>1, <5>3 DEF CardInv
        <4>2. CASE op \in {CMD9, CMD17}
          <5>1. left' \in 1 .. i'
            <6>1. /\ TOKEN_POLLS \in Nat /\ CSD_DELAY_COUNT \in 1 .. TOKEN_POLLS
                  /\ RD_DELAY_COUNT \in 1 .. TOKEN_POLLS
              BY SdCardAssumption, SdDriverAssumption, DelaysFit
            <6>2. QED
              BY <3>1, <3>2, <4>2, <6>1
          <5>2. cmd' = <<>> /\ ~appCmdSeen' /\ state' = "RD_DELAY" /\ pc' = "token"
            BY <2>3, <3>1, <3>2, <3>3, <3>4, <4>2
          <5>3. QED
            BY <5>1, <5>2 DEF CardInv
        <4>3. CASE op = CMD24
          BY <2>3, <3>1, <3>2, <3>3, <3>4, <4>3 DEF CardInv
        <4>4. QED
          BY <2>7, <4>1, <4>2, <4>3
      <3>7. PhaseInv'
        BY <1>1, <2>4, <2>7, <3>2 DEF IInv, PhaseInv
      <3>8. ActInv'
        BY <1>1, <2>7, <3>1, <3>2, <3>3 DEF IInv, ActInv
      <3>9. CopyInv'
        BY <1>1, <2>2, <2>3, <2>7, <3>1, <3>2, <3>3
        DEF IInv, CopyInv, Moving, Size, Csize, CurrentSector, CurrentLocation
      <3>10. QED
        BY <3>5, <3>6, <3>7, <3>8, <3>9 DEF IInv
    <2>8. QED
      BY <2>1, <2>6, <2>7 DEF Codes
  <1>9. QED
    BY <1>1, <1>5, <1>6, <1>7, <1>8 DEF IInv, CardInv

LEMMA MoreAnswerStep ==
  ASSUME IInv, MoreAnswer
  PROVE  IInv'
  <1>1. /\ pc = "more" /\ select /\ Exchange(FILL) /\ op \in {CMD8, CMD58}
        /\ UNCHANGED <<select, op, rcv, tries, sdcInitialized, numSectors, callVars, mem>>
        /\ i' = i - 1 /\ pc' = IF i = 1 THEN "deselect" ELSE "more"
    BY DEF IInv, PhaseInv, MoreAnswer
  <1>2. i \in 1 .. 4 /\ FILL \in Nat
    BY <1>1 DEF IInv, CardInv, FILL
  <1>3. op \notin {CMD0, CMD9, CMD17, CMD24, CMD55, CMD59, ACMD41}
    BY <1>1 DEF CMD0, CMD8, CMD9, CMD17, CMD24, CMD55, CMD58, CMD59, ACMD41
  <1>. DEFINE Kept == UNCHANGED <<block, crcRight, mode, sctno, image>>
              Typed == state' \in States /\ cmd' \in Seq(Nat) /\ Len(cmd') \in 0 .. 6 /\ left' \in Nat
  <1>4. SUFFICES CardInv' /\ Kept /\ Typed
    <2>1. SDTypeOK'
      <3>1. CardTypeOK'
        BY <1>1, <1>4 DEF IInv, SDTypeOK, CardTypeOK
      <3>2. i' \in Nat /\ pc' \in {"deselect", "more"}
        BY <1>1, <1>2
      <3>3. QED
        BY <1>1, <3>1, <3>2 DEF IInv, SDTypeOK
    <2>2. PhaseInv'
      BY <1>1 DEF IInv, PhaseInv
    <2>3. ActInv'
      BY <1>1, <1>3, <1>4 DEF IInv, ActInv
    <2>4. CopyInv'
      BY <1>1, <1>3, <1>4 DEF IInv, CopyInv, Moving, Size, Csize, CurrentSector, CurrentLocation
    <2>5. QED
      BY <1>4, <2>1, <2>2, <2>3, <2>4 DEF IInv
  <1>5. CASE state = "ANSWER" /\ left = i /\ cmd = <<>> /\ ~appCmdSeen
    <2>1. /\ Kept /\ UNCHANGED cmd
          /\ left = 1 => state' = "ACCUM_CMD" /\ left' = 0
          /\ left # 1 => state' = "ANSWER" /\ left' = left - 1
      BY <1>1, <1>5, StateSelects DEF Answer, Count, Send
    <2>2. CASE i = 1
      <3>1. AfterCommand'
        BY <1>1, <1>3, <1>5, <2>1, <2>2 DEF AfterCommand, AtCommand
      <3>2. CardInv'
        BY <1>1, <2>2, <3>1 DEF CardInv
      <3>3. QED
        BY <1>5, <2>1, <2>2, <3>2, CardTypes DEF States, IInv
    <2>3. CASE i # 1
      <3>1. i' \in 1 .. 4 /\ left' = i' /\ left' \in Nat /\ pc' = "more"
        BY <1>1, <1>2, <1>5, <2>1, <2>3
      <3>2. CardInv'
        BY <1>5, <2>1, <2>3, <3>1 DEF CardInv
      <3>3. QED
        BY <1>5, <2>1, <2>3, <3>1, <3>2, CardTypes DEF States, IInv
    <2>4. QED
      BY <2>2, <2>3
  <1>6. CASE MoreLate
    <2>1. PICK n \in 0 .. 3 : Len(cmd) = n /\ n = 4 - i /\ (n > 0 => cmd[1] = FILL)
      BY <1>2, <1>6 DEF MoreLate
    <2>2. AccumCmd(FILL) /\ op = CMD8 /\ appCmdSeen /\ state = "ACCUM_CMD"
      BY <1>1, <1>6, StateSelects DEF MoreLate
    <2>3. /\ state' = "ACCUM_CMD" /\ Kept /\ UNCHANGED left
          /\ cmd' \in Seq(Nat) /\ Len(cmd') = n + 1 /\ cmd'[1] = FILL
      <3>1. Len(cmd) < 6
        BY <2>1
      <3>2. /\ state' = "ACCUM_CMD" /\ Kept /\ UNCHANGED left
            /\ cmd' \in Seq(Nat) /\ Len(cmd') = Len(cmd) + 1 /\ cmd'[Len(cmd) + 1] = FILL
            /\ \A k \in 1 .. Len(cmd) : cmd'[k] = cmd[k]
        BY <1>2, <2>2, <3>1, ByteTaken DEF IInv
      <3>3. /\ Len(cmd') = n + 1 /\ cmd'[n + 1] = FILL
            /\ \A k \in 1 .. n : cmd'[k] = cmd[k]
        BY <2>1, <3>2
      <3>4. cmd'[1] = FILL
        <4>1. CASE n = 0
          BY <3>3, <4>1
        <4>2. CASE n > 0
          BY <2>1, <3>3, <4>2
        <4>3. QED
          BY <2>1, <4>1, <4>2
      <3>5. QED
        BY <3>2, <3>3, <3>4
    <2>4. Typed
      <3>1. Len(cmd') \in 0 .. 6
        BY <2>1, <2>3
      <3>2. left' \in Nat /\ state' \in States
        BY <2>3, CardTypes DEF IInv, States
      <3>3. QED
        BY <2>3, <3>1, <3>2
    <2>5. CASE i = 1
      <3>1. FourBehind'
        BY <2>1, <2>2, <2>3, <2>5 DEF FourBehind
      <3>2. AfterCommand'
        BY <1>1, <2>2, <3>1 DEF AfterCommand
      <3>3. CardInv'
        BY <1>1, <2>5, <3>2 DEF CardInv
      <3>4. QED
        BY <2>3, <2>4, <3>3
    <2>6. CASE i # 1
      <3>1. i' \in 1 .. 4 /\ pc' = "more" /\ Len(cmd') = 4 - i'
        BY <1>1, <1>2, <2>1, <2>3, <2>6
      <3>2. MoreLate'
        BY <1>1, <2>2, <2>3, <3>1 DEF MoreLate
      <3>3. CardInv'
        BY <3>1, <3>2 DEF CardInv
      <3>4. QED
        BY <2>3, <2>4, <3>3
    <2>7. QED
      BY <2>5, <2>6
  <1>7. QED
    BY <1>1, <1>5, <1>6 DEF IInv, CardInv

LEMMA CodesDiffer ==
  /\ CMD9 # CMD24 /\ CMD17 # CMD24 /\ CMD9 # CMD17
  /\ {CMD9, CMD17, CMD24} \cap {CMD0, CMD8, CMD55, CMD58, CMD59, ACMD41} = {}
  BY DEF CMD0, CMD8, CMD9, CMD17, CMD24, CMD55, CMD58, CMD59, ACMD41

\* What a byte of data leaves alone
LEMMA DataStays ==
  ASSUME IInv, InData \/ OutData,
         UNCHANGED <<select, op, rcv, tries, sdcInitialized, numSectors, callVars>>,
         UNCHANGED <<cmd, mode, sctno>>,
         state' \in States, left' \in Nat, crcRight' \in BOOLEAN, i' \in Nat,
         image' \in [Sector -> Block], mem' \in [Location -> Block],
         (InData /\ InData') \/ (OutData /\ OutData') \/ pc' = "deselect"
  PROVE  SDTypeOK' /\ PhaseInv' /\ ActInv' /\ cmd = <<>> /\ ~appCmdSeen
         /\ op \in {CMD9, CMD17, CMD24} /\ (OutData <=> op = CMD24)
         /\ op \notin {CMD0, CMD8, CMD55, CMD58, CMD59, ACMD41}
  <1>1. op \in {CMD9, CMD17, CMD24} /\ (OutData <=> op = CMD24)
    <2>1. (OutData => op = CMD24) /\ (InData => op \in {CMD9, CMD17})
      BY DEF IInv, PhaseInv
    <2>2. CMD9 # CMD24 /\ CMD17 # CMD24
      BY CodesDiffer
    <2>3. QED
      BY <2>1, <2>2
  <1>2. op \notin {CMD0, CMD8, CMD55, CMD58, CMD59, ACMD41}
    <2>1. op \in {CMD9, CMD17, CMD24}
      BY <1>1
    <2>2. QED
      BY <2>1, CodesDiffer
  <1>3. SDTypeOK'
    <2>1. CardTypeOK'
      BY DEF IInv, SDTypeOK, CardTypeOK
    <2>2. pc' \in {"token", "data", "crc", "out token", "out data", "out crc", "response", "busy",
                   "deselect"}
      OBVIOUS
    <2>3. QED
      BY <2>1, <2>2 DEF IInv, SDTypeOK
  <1>4. PhaseInv'
    BY DEF IInv, PhaseInv
  <1>5. ActInv'
    BY <1>2 DEF IInv, ActInv
  <1>6. QED
    BY <1>1, <1>2, <1>3, <1>4, <1>5 DEF IInv, CardInv

LEMMA PollTokenStep ==
  ASSUME IInv, PollToken
  PROVE  IInv'
  <1>1. /\ pc = "token" /\ select /\ Exchange(FILL)
        /\ UNCHANGED <<select, op, tries, sdcInitialized, numSectors, callVars, mem>>
        /\ dataReg' = START_BLOCK => pc' = "data" /\ i' = 0 /\ UNCHANGED rcv
        /\ dataReg' # START_BLOCK => NoSuccess
    BY DEF IInv, PhaseInv, PollToken
  <1>2. state = "RD_DELAY" /\ left \in 1 .. i /\ i \in Nat
    BY <1>1, DriverTypes DEF IInv, CardInv
  <1>3. /\ UNCHANGED <<cmd, block, crcRight, mode, sctno, image>>
        /\ left = 1 => state' = "RD_DATA" /\ left' = 1 /\ dataReg' = START_BLOCK
        /\ left # 1 => state' = "RD_DELAY" /\ left' = left - 1 /\ dataReg' = FILL
    BY <1>1, <1>2, StateSelects DEF RdDelay, Count, Send
  <1>4. left = 1 => pc' = "data" /\ i' = 0 /\ UNCHANGED rcv
    BY <1>1, <1>3
  <1>5. left # 1 => pc' = "token" /\ i' = i - 1 /\ UNCHANGED rcv
    BY <1>1, <1>2, <1>3 DEF NoSuccess, FILL, START_BLOCK
  <1>6. state' \in States /\ left' \in Nat /\ i' \in Nat /\ InData /\ InData'
    BY <1>1, <1>2, <1>3, <1>4, <1>5 DEF States
  <1>7. crcRight' \in BOOLEAN /\ image' \in [Sector -> Block] /\ mem' \in [Location -> Block]
    BY <1>1, <1>3, CardTypes, DriverTypes DEF IInv
  <1>8. SDTypeOK' /\ PhaseInv' /\ ActInv' /\ cmd = <<>> /\ ~appCmdSeen
    BY <1>1, <1>3, <1>4, <1>5, <1>6, <1>7, DataStays
  <1>9. CardInv'
    <2>1. CASE left = 1
      BY <1>3, <1>4, <1>8, <2>1 DEF CardInv
    <2>2. CASE left # 1
      <3>1. left' \in 1 .. i'
        BY <1>2, <1>3, <1>5, <2>2
      <3>2. QED
        BY <1>3, <1>5, <1>8, <2>2, <3>1 DEF CardInv
    <2>3. QED
      BY <2>1, <2>2
  <1>10. CopyInv'
    BY <1>1, <1>3, <1>4, <1>5 DEF IInv, CopyInv, Moving, Size, Csize, CurrentSector, CurrentLocation
  <1>11. QED
    BY <1>8, <1>9, <1>10 DEF IInv

LEMMA ReceiveDataStep ==
  ASSUME IInv, ReceiveData
  PROVE  IInv' /\ UNCHANGED <<image, block>> /\ dataReg' = block /\ request' = request
  <1>1. /\ pc = "data" /\ select /\ Exchange(FILL) /\ pc' = "crc" /\ op \in {CMD9, CMD17}
        /\ UNCHANGED <<select, op, rcv, tries, sdcInitialized, numSectors, callVars>>
        /\ op = CMD9 => i' = dataReg' /\ UNCHANGED mem
        /\ op # CMD9 => mem' = [mem EXCEPT ![CurrentLocation] = dataReg'] /\ UNCHANGED i
    BY DEF IInv, PhaseInv, ReceiveData
  <1>2. state = "RD_DATA" /\ left = 1 /\ block = IF op = CMD17 THEN image[CurrentSector] ELSE Csize
    BY <1>1 DEF IInv, CardInv, CopyInv
  <1>3. /\ UNCHANGED <<cmd, block, crcRight, mode, sctno, image>>
        /\ state' = "RD_CRC" /\ left' = 1 /\ dataReg' = block
    BY <1>1, <1>2, StateSelects DEF RdData, Count, Send
  <1>4. op = CMD9 => op # CMD17
    BY DEF CMD9, CMD17
  <1>5. op = CMD17 => Moving
    BY <1>1 DEF Moving
  <1>6. op = CMD17 => block \in Block /\ CurrentLocation \in Location
    BY <1>2, <1>5, Requested, CardTypes DEF IInv
  <1>7. Csize \in Nat
    BY SdCardAssumption DEF Csize
  <1>8. mem' \in [Location -> Block] /\ i' \in Nat
    BY <1>1, <1>2, <1>3, <1>4, <1>6, <1>7, DriverTypes DEF IInv
  <1>9. crcRight' \in BOOLEAN /\ image' \in [Sector -> Block] /\ left' \in Nat /\ state' \in States
    BY <1>3, CardTypes DEF IInv, States
  <1>10. SDTypeOK' /\ PhaseInv' /\ ActInv' /\ cmd = <<>> /\ ~appCmdSeen
    BY <1>1, <1>3, <1>8, <1>9, DataStays
  <1>11. CardInv'
    BY <1>1, <1>3, <1>10 DEF CardInv
  <1>12. CopyInv'
    BY <1>1, <1>2, <1>3, <1>4 DEF IInv, CopyInv, Moving, Size, Csize, CurrentSector, CurrentLocation
  <1>13. QED
    BY <1>1, <1>3, <1>10, <1>11, <1>12 DEF IInv

LEMMA ReceiveCrcStep ==
  ASSUME IInv, ReceiveCrc
  PROVE  IInv' /\ UNCHANGED image
  <1>1. /\ pc = "crc" /\ select /\ Exchange(FILL) /\ pc' = "deselect" /\ op \in {CMD9, CMD17}
        /\ UNCHANGED <<select, op, i, rcv, tries, sdcInitialized, numSectors, callVars, mem>>
    BY DEF IInv, PhaseInv, ReceiveCrc
  <1>2. state = "RD_CRC" /\ left = 1
    BY <1>1 DEF IInv, CardInv
  <1>3. /\ UNCHANGED <<cmd, block, crcRight, mode, sctno, image>>
        /\ state' = "ACCUM_CMD" /\ left' = 0
    BY <1>1, <1>2, StateSelects DEF RdCrc, Count, Send
  <1>4. /\ crcRight' \in BOOLEAN /\ image' \in [Sector -> Block] /\ left' \in Nat /\ state' \in States
        /\ mem' \in [Location -> Block] /\ i' \in Nat
    BY <1>1, <1>3, CardTypes, DriverTypes DEF IInv, States
  <1>5. /\ SDTypeOK' /\ PhaseInv' /\ ActInv' /\ cmd = <<>> /\ ~appCmdSeen
        /\ op \notin {CMD0, CMD8, CMD55, CMD58, CMD59, ACMD41}
    BY <1>1, <1>3, <1>4, DataStays
  <1>6. AfterCommand'
    BY <1>1, <1>3, <1>5 DEF AfterCommand, AtCommand
  <1>7. CardInv'
    BY <1>1, <1>6 DEF CardInv
  <1>8. CopyInv'
    BY <1>1, <1>3 DEF IInv, CopyInv, Moving, Size, Csize, CurrentSector, CurrentLocation
  <1>9. QED
    BY <1>3, <1>5, <1>7, <1>8 DEF IInv

LEMMA SendDataStep ==
  ASSUME IInv, SendData
  PROVE  IInv' /\ UNCHANGED image
  <1>1. /\ pc \in {"out token", "out data", "out crc"} /\ select /\ op = CMD24
        /\ UNCHANGED <<select, op, i, rcv, tries, sdcInitialized, numSectors, callVars, mem>>
    BY DEF IInv, PhaseInv, SendData
  <1>2. crcRight \in BOOLEAN /\ image \in [Sector -> Block] /\ mem' \in [Location -> Block] /\ i' \in Nat
    BY <1>1, CardTypes, DriverTypes DEF IInv
  <1>3. CASE pc = "out token"
    <2>1. pc' = "out data" /\ WrWait(START_BLOCK)
      BY <1>1, <1>3, StateSelects DEF IInv, CardInv, SendData
    <2>2. state' = "WR_DATA" /\ left' = 1 /\ UNCHANGED <<cmd, block, crcRight, mode, sctno, image>>
      BY <2>1 DEF WrWait, Send
    <2>3. SDTypeOK' /\ PhaseInv' /\ ActInv' /\ cmd = <<>> /\ ~appCmdSeen
      BY <1>1, <1>2, <1>3, <2>1, <2>2, DataStays DEF States
    <2>4. CardInv'
      BY <2>1, <2>2, <2>3 DEF CardInv
    <2>5. CopyInv'
      BY <1>1, <1>3, <2>1, <2>2
      DEF IInv, CopyInv, Moving, Size, Csize, CurrentSector, CurrentLocation
    <2>6. QED
      BY <2>2, <2>3, <2>4, <2>5 DEF IInv
  <1>4. CASE pc = "out data"
    <2>1. pc' = "out crc" /\ WrData(mem[CurrentLocation]) /\ left = 1
      BY <1>1, <1>4, StateSelects DEF IInv, CardInv, SendData
    <2>2. /\ state' = "WR_CRC" /\ left' = 1 /\ block' = mem[CurrentLocation]
          /\ UNCHANGED <<cmd, crcRight, mode, sctno, image>>
      BY <2>1 DEF WrData, Count, Send
    <2>3. SDTypeOK' /\ PhaseInv' /\ ActInv' /\ cmd = <<>> /\ ~appCmdSeen
      BY <1>1, <1>2, <1>4, <2>1, <2>2, DataStays DEF States
    <2>4. CardInv'
      BY <2>1, <2>2, <2>3 DEF CardInv
    <2>5. CopyInv'
      BY <1>1, <1>4, <2>1, <2>2
      DEF IInv, CopyInv, Moving, Size, Csize, CurrentSector, CurrentLocation
    <2>6. QED
      BY <2>2, <2>3, <2>4, <2>5 DEF IInv
  <1>5. CASE pc = "out crc"
    <2>1. pc' = "response" /\ WrCrc(CRC16) /\ left = 1
      BY <1>1, <1>5, StateSelects DEF IInv, CardInv, SendData
    <2>2. /\ state' = "WR_RSP" /\ left' = 0 /\ crcRight' = TRUE
          /\ UNCHANGED <<cmd, block, mode, sctno, image>>
      BY <2>1 DEF WrCrc, Count, Send
    <2>3. SDTypeOK' /\ PhaseInv' /\ ActInv' /\ cmd = <<>> /\ ~appCmdSeen
      BY <1>1, <1>2, <1>5, <2>1, <2>2, DataStays DEF States
    <2>4. CardInv'
      BY <2>1, <2>2, <2>3 DEF CardInv
    <2>5. CopyInv'
      BY <1>1, <1>5, <2>1, <2>2
      DEF IInv, CopyInv, Moving, Size, Csize, CurrentSector, CurrentLocation
    <2>6. QED
      BY <2>2, <2>3, <2>4, <2>5 DEF IInv
  <1>6. QED
    BY <1>1, <1>3, <1>4, <1>5

\* The card accepts the block that it has received: it is on the card now.
LEMMA PollResponseStep ==
  ASSUME IInv, PollResponse
  PROVE  /\ IInv' /\ pc = "response" /\ pc' = "busy" /\ op = CMD24 /\ UNCHANGED <<op, callVars, mem>>
         /\ image' = [image EXCEPT ![CurrentSector] = mem[CurrentLocation]]
  <1>1. /\ pc = "response" /\ select /\ Exchange(FILL) /\ op = CMD24
        /\ UNCHANGED <<select, op, i, tries, sdcInitialized, numSectors, callVars, mem>>
    BY DEF IInv, PhaseInv, PollResponse
  <1>2. Moving /\ state = "WR_RSP" /\ crcRight /\ block = mem[CurrentLocation] /\ sctno = CurrentSector
    BY <1>1 DEF IInv, CardInv, CopyInv, Moving
  <1>3. /\ state' = "WR_BUSY" /\ left' = WR_BUSY_COUNT /\ UNCHANGED <<cmd, block, crcRight, mode, sctno>>
        /\ image' = [image EXCEPT ![CurrentSector] = mem[CurrentLocation]] /\ dataReg' = ACCEPTED
    BY <1>1, <1>2, StateSelects DEF WrRsp, Send
  <1>4. dataReg' # FILL /\ dataReg' % 32 = 5
    BY <1>3 DEF ACCEPTED, FILL
  <1>5. pc' = "busy" /\ UNCHANGED rcv
    BY <1>4 DEF PollResponse, AfterAccepted
  <1>6. /\ image \in [Sector -> Block] /\ mem \in [Location -> Block] /\ i \in Nat
        /\ CurrentLocation \in Location /\ CurrentSector \in Sector
    BY <1>2, Requested, CardTypes, DriverTypes DEF IInv
  <1>7. WR_BUSY_COUNT \in Nat \ {0}
    BY SdCardAssumption
  <1>8. image' \in [Sector -> Block] /\ mem' \in [Location -> Block] /\ i' \in Nat
    BY <1>1, <1>3, <1>6
  <1>9. crcRight' \in BOOLEAN /\ left' \in Nat /\ state' \in States
    BY <1>3, <1>7, CardTypes DEF IInv, States
  <1>10. SDTypeOK' /\ PhaseInv' /\ ActInv' /\ cmd = <<>> /\ ~appCmdSeen
    BY <1>1, <1>3, <1>5, <1>8, <1>9, DataStays
  <1>11. CardInv'
    BY <1>3, <1>5, <1>7, <1>10 DEF CardInv
  <1>12. CopyInv'
    BY <1>1, <1>3, <1>5 DEF IInv, CopyInv, Moving, Size, Csize, CurrentSector, CurrentLocation
  <1>13. QED
    BY <1>1, <1>3, <1>5, <1>10, <1>11, <1>12 DEF IInv

LEMMA PollBusyStep ==
  ASSUME IInv, PollBusy
  PROVE  IInv' /\ UNCHANGED image
  <1>1. /\ pc = "busy" /\ select /\ Exchange(FILL) /\ op = CMD24
        /\ UNCHANGED <<select, op, i, rcv, tries, sdcInitialized, numSectors, callVars, mem>>
        /\ pc' = IF dataReg' = 0 THEN "busy" ELSE "deselect"
    BY DEF IInv, PhaseInv, PollBusy
  <1>2. state = "WR_BUSY" /\ left > 0 /\ left \in Nat
    BY <1>1, CardTypes DEF IInv, CardInv
  <1>3. /\ UNCHANGED <<cmd, block, crcRight, mode, sctno, image>>
        /\ left = 1 => state' = "ACCUM_CMD" /\ left' = 0 /\ dataReg' = FILL
        /\ left # 1 => state' = "WR_BUSY" /\ left' = left - 1 /\ dataReg' = 0
    BY <1>1, <1>2, StateSelects DEF WrBusy, BusyLeft, NextCmd, Send
  <1>4. /\ left = 1 => pc' = "deselect"
        /\ left # 1 => pc' = "busy" /\ left' > 0
    BY <1>1, <1>2, <1>3 DEF FILL
  <1>5. /\ crcRight' \in BOOLEAN /\ image' \in [Sector -> Block]
        /\ mem' \in [Location -> Block] /\ i' \in Nat
    BY <1>1, <1>3, CardTypes, DriverTypes DEF IInv
  <1>6. left' \in Nat /\ state' \in States
    BY <1>2, <1>3 DEF States
  <1>7. /\ SDTypeOK' /\ PhaseInv' /\ ActInv' /\ cmd = <<>> /\ ~appCmdSeen
        /\ op \notin {CMD0, CMD8, CMD55, CMD58, CMD59, ACMD41}
    BY <1>1, <1>3, <1>4, <1>5, <1>6, DataStays
  <1>8. left = 1 => AfterCommand'
    BY <1>1, <1>3, <1>7 DEF AfterCommand, AtCommand
  <1>9. CardInv'
    BY <1>3, <1>4, <1>7, <1>8 DEF CardInv
  <1>10. CopyInv'
    <2>1. CASE left = 1
      <3>1. pc' = "deselect" /\ UNCHANGED <<block, sctno, image>>
        BY <1>3, <1>4, <2>1
      <3>2. QED
        BY <1>1, <3>1, CodesDiffer
        DEF IInv, CopyInv, Moving, Size, Csize, CurrentSector, CurrentLocation
    <2>2. CASE left # 1
      BY <1>1, <1>3, <1>4, <2>2
      DEF IInv, CopyInv, Moving, Size, Csize, CurrentSector, CurrentLocation
    <2>3. QED
      BY <2>1, <2>2
  <1>11. QED
    BY <1>3, <1>7, <1>9, <1>10 DEF IInv

LEMMA DeselectStep ==
  ASSUME IInv, Deselect
  PROVE  IInv'
  <1>1. SDTypeOK'
    BY DEF IInv, SDTypeOK, CardTypeOK, Deselect
  <1>2. CardInv'
    BY DEF IInv, CardInv, Deselect, AfterCommand, AtCommand, FourBehind
  <1>3. PhaseInv'
    BY DEF IInv, PhaseInv, Deselect
  <1>4. ActInv'
    BY DEF IInv, ActInv, Deselect
  <1>5. CopyInv'
    BY DEF IInv, CopyInv, Deselect, Moving, Size, Csize, CurrentSector, CurrentLocation
  <1>6. QED
    BY <1>1, <1>2, <1>3, <1>4, <1>5 DEF IInv

-------------------------------------------------------------------------------
(* The steps between the commands *)

LEMMA CallCapStep ==
  ASSUME IInv, CallCap
  PROVE  IInv'
  <1>1. /\ UNCHANGED <<cvars, sdcInitialized, numSectors, callVars, mem>> /\ tries' = 0
        /\ pc \in {"start", "no disk", "idle"} /\ request = None /\ TRIES \in Nat \ {0}
    BY SdDriverAssumption DEF CallCap, IInv, CopyInv, Moving
  <1>2. CASE sdcInitialized
    <2>1. op' = CMD9 /\ pc' = "select" /\ i' = 0 /\ rcv' = FILL /\ pc # "start"
      BY <1>1, <1>2 DEF CallCap, Begin, IInv, ActInv
    <2>2. CMD9 \notin {CMD0, CMD8, CMD55, CMD58, CMD59, ACMD41, CMD17, CMD24}
      BY DEF CMD0, CMD8, CMD9, CMD17, CMD24, CMD55, CMD58, CMD59, ACMD41
    <2>3. SDTypeOK'
      <3>1. CardTypeOK'
        BY <1>1 DEF IInv, SDTypeOK, CardTypeOK, cvars
      <3>2. tries' \in 0 .. TRIES /\ i' \in Nat
        BY <1>1, <2>1, NoTries
      <3>3. QED
        BY <1>1, <2>1, <3>1, <3>2 DEF IInv, SDTypeOK
    <2>4. BeforeCommand'
      BY <1>1, <2>1, <2>2 DEF IInv, CardInv, BeforeCommand, AtCommand, ModeFits, cvars
    <2>5. CardInv'
      BY <2>1, <2>4 DEF CardInv
    <2>6. PhaseInv'
      BY <2>1 DEF PhaseInv
    <2>7. ActInv'
      <3>1. ~idle' /\ initCnt' \in 1 .. TRIES /\ tries' < TRIES /\ sdcInitialized'
        BY <1>1, <1>2, NoTries DEF IInv, ActInv, cvars
      <3>2. QED
        BY <2>1, <2>2, <3>1 DEF ActInv
    <2>8. CopyInv'
      BY <1>1, <2>1, <2>2 DEF IInv, CopyInv, Moving
    <2>9. QED
      BY <2>3, <2>5, <2>6, <2>7, <2>8 DEF IInv
  <1>3. CASE ~sdcInitialized
    <2>1. pc = "start" /\ pc' = "clocks" /\ UNCHANGED <<op, i, rcv>>
      BY <1>1, <1>3 DEF CallCap, IInv, ActInv
    <2>2. SDTypeOK'
      <3>1. CardTypeOK'
        BY <1>1 DEF IInv, SDTypeOK, CardTypeOK, cvars
      <3>2. QED
        BY <1>1, <2>1, <3>1 DEF IInv, SDTypeOK
    <2>3. CardInv'
      BY <1>1, <2>1 DEF IInv, CardInv, AtCommand, FourBehind, cvars
    <2>4. PhaseInv'
      BY <2>1 DEF PhaseInv
    <2>5. ActInv'
      BY <1>1, <1>3, <2>1 DEF IInv, ActInv, cvars
    <2>6. CopyInv'
      BY <1>1, <2>1 DEF IInv, CopyInv, Moving
    <2>7. QED
      BY <2>2, <2>3, <2>4, <2>5, <2>6 DEF IInv
  <1>4. QED
    BY <1>2, <1>3, DriverTypes DEF IInv

LEMMA ClocksStep ==
  ASSUME IInv, Clocks
  PROVE  IInv'
  <1>1. /\ pc = "clocks" /\ pc' = "select" /\ op' = CMD0 /\ i' = 0 /\ rcv' = FILL /\ select' = FALSE
        /\ UNCHANGED <<state, cmd, left, block, crcRight, mode, sctno, image>>
        /\ UNCHANGED <<tries, sdcInitialized, numSectors, callVars, mem>>
    BY DEF Clocks, Begin
  <1>2. CMD0 \notin {CMD8, CMD55, CMD58, CMD59, ACMD41, CMD9, CMD17, CMD24}
    BY DEF CMD0, CMD8, CMD9, CMD17, CMD24, CMD55, CMD58, CMD59, ACMD41
  <1>3. SDTypeOK'
    <2>1. CardTypeOK'
      BY <1>1 DEF IInv, SDTypeOK, CardTypeOK
    <2>2. QED
      BY <1>1, <2>1 DEF IInv, SDTypeOK
  <1>4. BeforeCommand'
    BY <1>1, <1>2 DEF IInv, CardInv, BeforeCommand, AtCommand, FourBehind, ModeFits
  <1>5. CardInv'
    BY <1>1, <1>4 DEF CardInv
  <1>6. PhaseInv'
    BY <1>1 DEF PhaseInv
  <1>7. ActInv'
    BY <1>1, <1>2 DEF IInv, ActInv
  <1>8. CopyInv'
    BY <1>1, <1>2 DEF IInv, CopyInv, Moving
  <1>9. QED
    BY <1>3, <1>5, <1>6, <1>7, <1>8 DEF IInv

LEMMA NextInitCmdStep ==
  ASSUME IInv, NextInitCmd
  PROVE  IInv'
  <1>1. /\ pc = "done" /\ op \in {CMD0, CMD8, CMD55, CMD58, CMD59, ACMD41}
        /\ pc' = "select" /\ i' = 0 /\ rcv' = FILL
        /\ UNCHANGED <<cvars, numSectors, callVars, mem>>
    BY DriverTypes DEF NextInitCmd, Begin, IInv, Codes
  <1>2. /\ op' = CASE op = CMD0   -> CMD8
                   [] op = CMD8   -> CMD59
                   [] op = CMD59  -> CMD55
                   [] op = CMD55  -> ACMD41
                   [] op = ACMD41 -> IF Activated \/ tries = TRIES - 1 THEN CMD58 ELSE CMD55
                   [] op = CMD58  -> CMD9
        /\ tries' = IF op = ACMD41 /\ ~Activated /\ tries < TRIES - 1 THEN tries + 1 ELSE tries
        /\ sdcInitialized' = (sdcInitialized \/ op = CMD58)
    BY DEF NextInitCmd, Begin
  <1>3. /\ tries \in Nat /\ tries < TRIES /\ TRIES \in Nat /\ initCnt \in 1 .. TRIES
        /\ ~sdcInitialized
    <2>1. op \notin {CMD9, CMD17, CMD24}
      BY DEF NextInitCmd
    <2>2. QED
      BY <1>1, <2>1, DriverTypes, SdDriverAssumption DEF IInv, ActInv
  <1>4. /\ op = CMD0 => op' = CMD8 /\ tries' = tries /\ ~sdcInitialized'
        /\ op = CMD8 => op' = CMD59 /\ tries' = tries /\ ~sdcInitialized'
        /\ op = CMD59 => op' = CMD55 /\ tries' = tries /\ ~sdcInitialized'
        /\ op = CMD55 => op' = ACMD41 /\ tries' = tries /\ ~sdcInitialized'
        /\ op = CMD58 => op' = CMD9 /\ tries' = tries /\ sdcInitialized'
        /\ op = ACMD41 =>
             /\ ~sdcInitialized'
             /\ IF Activated \/ tries = TRIES - 1 THEN op' = CMD58 /\ tries' = tries
                                                  ELSE op' = CMD55 /\ tries' = tries + 1
    <2>1. tries # TRIES - 1 => tries < TRIES - 1
      BY <1>3
    <2>2. op = ACMD41 => ~sdcInitialized' /\ op' = (IF Activated \/ tries = TRIES - 1 THEN CMD58 ELSE CMD55)
      <3>1. op = ACMD41 => op # CMD0 /\ op # CMD8 /\ op # CMD55 /\ op # CMD58 /\ op # CMD59
        BY DEF CMD0, CMD8, CMD55, CMD58, CMD59, ACMD41
      <3>2. QED
        BY <1>2, <1>3, <3>1
    <2>3. op = ACMD41 => tries' = IF Activated \/ tries = TRIES - 1 THEN tries ELSE tries + 1
      BY <1>2, <1>3, <2>1
    <2>4. op # ACMD41 => tries' = tries
      BY <1>2
    <2>5. op = CMD0 => op' = CMD8 /\ op # ACMD41 /\ op # CMD58
      BY <1>2 DEF CMD0, CMD8, CMD55, CMD58, CMD59, ACMD41
    <2>6. op = CMD8 => op' = CMD59 /\ op # ACMD41 /\ op # CMD58
      BY <1>2 DEF CMD0, CMD8, CMD55, CMD58, CMD59, ACMD41
    <2>7. op = CMD59 => op' = CMD55 /\ op # ACMD41 /\ op # CMD58
      BY <1>2 DEF CMD0, CMD8, CMD55, CMD58, CMD59, ACMD41
    <2>8. op = CMD55 => op' = ACMD41 /\ op # ACMD41 /\ op # CMD58
      BY <1>2 DEF CMD0, CMD8, CMD55, CMD58, CMD59, ACMD41
    <2>9. op = CMD58 => op' = CMD9 /\ op # ACMD41
      BY <1>2 DEF CMD0, CMD8, CMD55, CMD58, CMD59, ACMD41
    <2>10. QED
      BY <1>2, <1>3, <2>2, <2>3, <2>4, <2>5, <2>6, <2>7, <2>8, <2>9
  <1>. DEFINE Inits == {CMD0, CMD8, CMD55, CMD58, CMD59, ACMD41}
  <1>5. /\ op' \in Inits \cup {CMD9} /\ op' \in Codes /\ op' \notin {CMD17, CMD24}
        /\ op' # CMD0
    <2>1. op' \in {CMD8, CMD55, CMD58, CMD59, ACMD41, CMD9}
      BY <1>1, <1>4
    <2>2. QED
      BY <2>1 DEF Codes, CMD0, CMD8, CMD9, CMD17, CMD24, CMD55, CMD58, CMD59, ACMD41
  <1>6. tries' \in 0 .. TRIES /\ tries' < TRIES
    BY <1>1, <1>3, <1>4
  <1>7. SDTypeOK'
    <2>1. CardTypeOK'
      BY <1>1 DEF IInv, SDTypeOK, CardTypeOK, cvars
    <2>2. sdcInitialized' \in BOOLEAN
      BY <1>2
    <2>3. QED
      BY <1>1, <1>5, <1>6, <2>1, <2>2 DEF IInv, SDTypeOK, Codes
  <1>8. BeforeCommand'
    <2>1. AfterCommand
      BY <1>1 DEF IInv, CardInv
    <2>2. UNCHANGED <<state, cmd, appCmdSeen>>
      BY <1>1 DEF cvars
    <2>3. CASE op = CMD8
      <3>1. op' = CMD59 /\ CMD59 # ACMD41 /\ op \notin {CMD0, CMD55, CMD59}
        BY <1>4, <2>3 DEF CMD0, CMD8, CMD55, CMD59, ACMD41
      <3>2. QED
        BY <2>1, <2>2, <3>1 DEF AfterCommand, BeforeCommand, AtCommand, FourBehind, ModeFits
    <2>4. CASE op = CMD55
      <3>1. op' = ACMD41 /\ ACMD41 \notin {CMD58, CMD59, CMD9, CMD17, CMD24} /\ op # CMD8
        BY <1>4, <2>4 DEF CMD8, CMD9, CMD17, CMD24, CMD55, CMD58, CMD59, ACMD41
      <3>2. QED
        BY <2>1, <2>2, <2>4, <3>1 DEF AfterCommand, BeforeCommand, AtCommand, FourBehind, ModeFits
    <2>5. CASE op \in {CMD0, CMD59}
      <3>1. op' \notin {ACMD41, CMD58, CMD59, CMD9, CMD17, CMD24} /\ op # CMD8
        BY <1>4, <2>5 DEF CMD0, CMD8, CMD9, CMD17, CMD24, CMD55, CMD58, CMD59, ACMD41
      <3>2. QED
        BY <2>1, <2>2, <3>1 DEF AfterCommand, BeforeCommand, AtCommand, FourBehind, ModeFits
    <2>6. CASE op \in {CMD58, ACMD41}
      <3>1. op' # ACMD41 /\ op \notin {CMD0, CMD8, CMD55, CMD59}
        BY <1>4, <2>6 DEF CMD0, CMD8, CMD9, CMD55, CMD58, CMD59, ACMD41
      <3>2. QED
        BY <2>1, <2>2, <3>1 DEF AfterCommand, BeforeCommand, AtCommand, FourBehind, ModeFits
    <2>7. QED
      BY <1>1, <2>3, <2>4, <2>5, <2>6
  <1>9. CardInv'
    BY <1>1, <1>8 DEF CardInv
  <1>10. PhaseInv'
    BY <1>1 DEF PhaseInv
  <1>11. ActInv'
    <2>1. UNCHANGED <<idle, initCnt>>
      BY <1>1 DEF cvars
    <2>2. op' \in {CMD55, ACMD41} => (idle => initCnt <= TRIES - tries')
      <3>1. op' \in {CMD55, ACMD41} => op \in {CMD55, CMD59, ACMD41}
        BY <1>1, <1>4 DEF CMD0, CMD8, CMD9, CMD55, CMD58, CMD59, ACMD41
      <3>2. CASE op = CMD59
        BY <1>1, <1>3, <1>4, <3>2 DEF IInv, ActInv
      <3>3. CASE op = CMD55
        BY <1>1, <1>4, <3>3 DEF IInv, ActInv
      <3>4. CASE op = ACMD41 /\ op' \in {CMD55, ACMD41}
        <4>1. ~Activated /\ tries' = tries + 1
          BY <1>4, <3>4 DEF CMD55, CMD58, ACMD41
        <4>2. idle => initCnt < TRIES - tries
          BY <1>1, <3>4, <4>1 DEF IInv, ActInv, Activated
        <4>3. QED
          BY <1>3, <4>1, <4>2
      <3>5. QED
        BY <3>1, <3>2, <3>3, <3>4
    <2>3. op' \in {CMD8, CMD59} => tries' = 0
      <3>1. op' \in {CMD8, CMD59} => op \in {CMD0, CMD8}
        BY <1>1, <1>4 DEF CMD0, CMD8, CMD9, CMD55, CMD58, CMD59, ACMD41
      <3>2. QED
        BY <1>1, <1>4, <3>1 DEF IInv, ActInv
    <2>4. op' \in {CMD58, CMD9} => ~idle
      <3>1. op' \in {CMD58, CMD9} => op \in {CMD58, ACMD41}
        BY <1>1, <1>4 DEF CMD0, CMD8, CMD9, CMD55, CMD58, CMD59, ACMD41
      <3>2. CASE op = CMD58
        BY <1>1, <3>2 DEF IInv, ActInv
      <3>3. CASE op = ACMD41 /\ op' \in {CMD58, CMD9}
        <4>1. Activated \/ tries = TRIES - 1
          BY <1>4, <3>3 DEF CMD9, CMD55, CMD58
        <4>2. IF idle THEN initCnt < TRIES - tries /\ rcv = 1 ELSE rcv = 0
          BY <1>1, <3>3 DEF IInv, ActInv
        <4>3. QED
          BY <1>3, <4>1, <4>2 DEF Activated
      <3>4. QED
        BY <3>1, <3>2, <3>3
    <2>5. sdcInitialized' <=> op' = CMD9
      BY <1>1, <1>3, <1>4 DEF CMD0, CMD8, CMD9, CMD55, CMD58, CMD59, ACMD41
    <2>6. QED
      BY <1>1, <1>3, <1>5, <1>6, <2>1, <2>2, <2>3, <2>4, <2>5 DEF ActInv
  <1>12. CopyInv'
    <2>1. ~Moving
      BY DEF NextInitCmd, Moving
    <2>2. request = None /\ count = 0
      BY <1>1, <2>1 DEF IInv, CopyInv
    <2>3. QED
      BY <1>1, <1>5, <2>2 DEF CopyInv, Moving
  <1>13. QED
    BY <1>7, <1>9, <1>10, <1>11, <1>12 DEF IInv

LEMMA CapDoneStep ==
  ASSUME IInv, CapDone
  PROVE  IInv'
  <1>1. /\ pc = "done" /\ op = CMD9 /\ i' = 0 /\ rcv # FILL /\ i = Csize
        /\ UNCHANGED <<cvars, op, rcv, tries, sdcInitialized, callVars, mem>>
    BY DEF IInv, PhaseInv, CopyInv, CapDone
  <1>2. Csize \in Nat
    BY SdCardAssumption DEF Csize
  <1>3. /\ numSectors' = IF Csize = -1 THEN numSectors ELSE Size
        /\ pc' = IF Csize = -1 \/ numSectors' = 0 THEN "no disk" ELSE "idle"
    BY <1>1 DEF CapDone, Size
  <1>4. numSectors' = Size /\ pc' \in {"no disk", "idle"} /\ Size' = Size
    <2>1. Csize # -1
      BY <1>2
    <2>2. Size' = Size
      BY DEF Size, Csize
    <2>3. QED
      BY <1>3, <2>1, <2>2
  <1>5. CMD9 \notin {CMD0, CMD8, CMD55, CMD58, CMD59, ACMD41, CMD17, CMD24}
    BY DEF CMD0, CMD8, CMD9, CMD17, CMD24, CMD55, CMD58, CMD59, ACMD41
  <1>6. SDTypeOK'
    <2>1. CardTypeOK'
      BY <1>1 DEF IInv, SDTypeOK, CardTypeOK, cvars
    <2>2. QED
      BY <1>1, <1>4, <2>1 DEF IInv, SDTypeOK
  <1>7. CardInv'
    BY <1>1, <1>4, <1>5 DEF IInv, CardInv, AfterCommand, AtCommand, cvars
  <1>8. PhaseInv'
    BY <1>4 DEF PhaseInv
  <1>9. ActInv'
    BY <1>1, <1>4, <1>5 DEF IInv, ActInv, cvars
  <1>10. CopyInv'
    BY <1>1, <1>4, <1>5 DEF IInv, CopyInv, Moving
  <1>11. QED
    BY <1>6, <1>7, <1>8, <1>9, <1>10 DEF IInv

LEMMA RestartStep ==
  ASSUME IInv, Restart
  PROVE  IInv'
  <1>1. /\ pc \in {"select", "idle", "no disk"} /\ request = None /\ count = 0
        /\ pc' = "start" /\ i' = 0 /\ rcv' = FILL /\ tries' = 0
        /\ sdcInitialized' = FALSE /\ UNCHANGED <<op, callVars, mem>>
        /\ UNCHANGED cvars \/ CardReset
    BY DEF Restart, IInv, CopyInv
  <1>2. initCnt' \in 1 .. TRIES /\ initCnt' \in 1 .. PRM_INIT_COUNT \cup 1 .. SEC_INIT_COUNT
    <2>1. initCnt' = initCnt \/ initCnt' = PRM_INIT_COUNT
      BY <1>1 DEF cvars, CardReset
    <2>2. /\ initCnt \in 1 .. PRM_INIT_COUNT \cup 1 .. SEC_INIT_COUNT /\ initCnt \in 1 .. TRIES
          /\ PRM_INIT_COUNT \in Nat \ {0} /\ TRIES \in Nat /\ PRM_INIT_COUNT <= TRIES
      BY SdCardAssumption, SdDriverAssumption, DelaysFit DEF IInv, ActInv, SDTypeOK, CardTypeOK
    <2>3. QED
      BY <2>1, <2>2
  <1>3. SDTypeOK'
    <2>1. CardTypeOK'
      <3>1. CASE UNCHANGED cvars
        BY <3>1 DEF IInv, SDTypeOK, CardTypeOK, cvars
      <3>2. CASE CardReset
        <4>1. cmd' \in Seq(Nat) /\ Len(cmd') \in 0 .. 6
          BY <3>2 DEF CardReset
        <4>2. image' \in [Sector -> Block]
          BY <3>2, CardTypes DEF IInv, CardReset
        <4>3. QED
          BY <1>2, <3>2, <4>1, <4>2 DEF CardTypeOK, CardReset, States
      <3>3. QED
        BY <1>1, <3>1, <3>2
    <2>2. tries' \in 0 .. TRIES
      BY <1>1, NoTries
    <2>3. QED
      BY <1>1, <2>1, <2>2 DEF IInv, SDTypeOK
  <1>4. CardInv'
    <2>1. CASE UNCHANGED cvars
      BY <1>1, <2>1 DEF IInv, CardInv, BeforeCommand, AtCommand, FourBehind, cvars
    <2>2. CASE CardReset
      BY <1>1, <2>2 DEF CardInv, AtCommand, CardReset
    <2>3. QED
      BY <1>1, <2>1, <2>2
  <1>5. PhaseInv'
    BY <1>1 DEF PhaseInv
  <1>6. ActInv'
    BY <1>1, <1>2, NoTries DEF ActInv
  <1>7. CopyInv'
    BY <1>1 DEF CopyInv, Moving
  <1>8. QED
    BY <1>3, <1>4, <1>5, <1>6, <1>7 DEF IInv

\* Steps of dskiosdc leave the card and the phases of a command alone.
LEMMA CallTypes ==
  ASSUME IInv, UNCHANGED <<cvars, tries, sdcInitialized, numSectors, mem>>,
         pc' \in {"idle", "next", "illegal", "select"}, op' \in Codes, i' \in Nat,
         request' \in Request \cup {None}, count' \in Nat, result' \in {"none", "ok", "error"}
  PROVE  SDTypeOK' /\ PhaseInv'
  <1>1. CardTypeOK'
    BY DEF IInv, SDTypeOK, CardTypeOK, cvars
  <1>2. SDTypeOK'
    BY <1>1 DEF IInv, SDTypeOK, Codes
  <1>3. PhaseInv'
    BY DEF PhaseInv
  <1>4. QED
    BY <1>2, <1>3

LEMMA CallIoStep ==
  ASSUME IInv, NEW r \in Request, CallIo(r)
  PROVE  IInv'
  <1>1. /\ pc = "idle" /\ request' = r /\ count' = 0 /\ result' = "none"
        /\ pc' = IF r.cmd \in {"r", "w"} THEN "next" ELSE "illegal"
        /\ UNCHANGED <<cvars, op, i, rcv, tries, sdcInitialized, numSectors, mem>>
    BY DEF CallIo
  <1>2. SDTypeOK' /\ PhaseInv'
    BY <1>1, CallTypes, DriverTypes DEF IInv
  <1>3. CardInv'
    BY <1>1 DEF IInv, CardInv, AtCommand, cvars
  <1>4. ActInv'
    BY <1>1 DEF IInv, ActInv, cvars
  <1>5. CopyInv'
    <2>1. r # None /\ r.n \in Nat
      BY SdDriverAssumption DEF None
    <2>2. Size' = Size /\ numSectors = Size
      BY <1>1 DEF Size, Csize, IInv, CopyInv
    <2>3. QED
      BY <1>1, <2>1, <2>2 DEF CopyInv, Moving
  <1>6. QED
    BY <1>2, <1>3, <1>4, <1>5 DEF IInv

LEMMA ReturnStep ==
  ASSUME IInv, NEW r \in {"ok", "error"}, pc \in {"next", "illegal"}, Return(r)
  PROVE  IInv'
  <1>1. /\ request' = None /\ count' = 0 /\ result' = r /\ pc' = "idle"
        /\ UNCHANGED <<cvars, op, i, rcv, tries, sdcInitialized, numSectors, mem>>
    BY DEF Return
  <1>2. SDTypeOK' /\ PhaseInv'
    BY <1>1, CallTypes, DriverTypes DEF IInv
  <1>3. CardInv'
    BY <1>1 DEF IInv, CardInv, AtCommand, cvars
  <1>4. ActInv'
    BY <1>1 DEF IInv, ActInv, cvars
  <1>5. CopyInv'
    BY <1>1 DEF IInv, CopyInv, Moving, Size, Csize
  <1>6. QED
    BY <1>2, <1>3, <1>4, <1>5 DEF IInv

LEMMA NextSectorStep ==
  ASSUME IInv, NextSector
  PROVE  IInv' /\ UNCHANGED <<image, callVars, mem>> /\ pc = "next" /\ pc' = "select"
  <1>1. /\ pc = "next" /\ count # request.n /\ CurrentSector < numSectors
        /\ op' = (IF request.cmd = "r" THEN CMD17 ELSE CMD24)
        /\ pc' = "select" /\ i' = 0 /\ rcv' = FILL
        /\ UNCHANGED <<cvars, tries, sdcInitialized, numSectors, callVars, mem>>
    BY DEF NextSector, Begin
  <1>2. op' \in {CMD17, CMD24} /\ CMD17 # CMD24 /\ UNCHANGED image
        /\ op' \notin {CMD0, CMD8, CMD55, CMD58, CMD59, ACMD41, CMD9}
    BY <1>1 DEF CMD0, CMD8, CMD9, CMD17, CMD24, CMD55, CMD58, CMD59, ACMD41, cvars
  <1>3. op' \in Codes /\ i' \in Nat
    BY <1>1, <1>2 DEF Codes
  <1>4. request' \in Request \cup {None} /\ count' \in Nat /\ result' \in {"none", "ok", "error"}
    BY <1>1 DEF IInv, SDTypeOK
  <1>5. SDTypeOK' /\ PhaseInv'
    BY <1>1, <1>3, <1>4, CallTypes
  <1>6. BeforeCommand'
    BY <1>1, <1>2 DEF IInv, CardInv, BeforeCommand, AtCommand, ModeFits, cvars
  <1>7. CardInv'
    BY <1>1, <1>6 DEF CardInv
  <1>8. ActInv'
    <2>1. TRIES \in Nat \ {0}
      BY SdDriverAssumption
    <2>2. QED
      BY <1>1, <1>2, <2>1 DEF IInv, ActInv, cvars
  <1>9. CopyInv'
    <2>1. request \in Request /\ request.n \in Nat /\ count \in Nat
      BY <1>1, DriverTypes, SdDriverAssumption DEF IInv, CopyInv
    <2>2. count < request.n /\ request.cmd \in {"r", "w"} /\ numSectors = Size
      BY <1>1, <2>1 DEF IInv, CopyInv
    <2>3. Size' = Size /\ CurrentSector' = CurrentSector
      BY <1>1 DEF Size, Csize, CurrentSector
    <2>4. request' # None /\ count' < request'.n /\ CurrentSector' < numSectors' /\ numSectors' = Size'
      BY <1>1, <2>2, <2>3 DEF IInv, CopyInv
    <2>5. request'.cmd = IF op' = CMD17 THEN "r" ELSE "w"
      BY <1>1, <1>2, <2>2
    <2>6. QED
      BY <1>1, <1>2, <2>4, <2>5 DEF CopyInv, Moving
  <1>10. QED
    BY <1>1, <1>2, <1>5, <1>7, <1>8, <1>9 DEF IInv

LEMMA SectorDoneStep ==
  ASSUME IInv, SectorDone
  PROVE  IInv' /\ UNCHANGED <<image, mem, request, result>> /\ count' = count + 1
  <1>1. /\ pc = "done" /\ op \in {CMD17, CMD24} /\ count' = count + 1 /\ pc' = "next"
        /\ UNCHANGED <<cvars, op, i, rcv, tries, sdcInitialized, numSectors, request, result, mem>>
    BY DEF SectorDone
  <1>2. /\ Moving /\ request \in Request /\ request.n \in Nat /\ count \in Nat /\ numSectors = Size
        /\ count < request.n /\ request.cmd \in {"r", "w"} /\ request # None
    BY <1>1, Requested, DriverTypes DEF IInv, CopyInv, Moving
  <1>3. op \in Codes /\ i' \in Nat /\ count' \in Nat /\ result' \in {"none", "ok", "error"}
    BY <1>1, <1>2, DriverTypes DEF IInv, SDTypeOK
  <1>4. SDTypeOK' /\ PhaseInv'
    BY <1>1, <1>2, <1>3, CallTypes
  <1>5. op \notin {CMD0, CMD8, CMD55, CMD58, CMD59, ACMD41, CMD9}
    BY <1>1 DEF CMD0, CMD8, CMD9, CMD17, CMD24, CMD55, CMD58, CMD59, ACMD41
  <1>6. CardInv'
    BY <1>1, <1>5 DEF IInv, CardInv, AfterCommand, AtCommand, cvars
  <1>7. ActInv'
    BY <1>1, <1>5 DEF IInv, ActInv, cvars
  <1>8. CopyInv'
    <2>1. count' <= request'.n /\ Size' = Size
      BY <1>1, <1>2 DEF Size, Csize
    <2>2. QED
      BY <1>1, <1>2, <2>1 DEF CopyInv, Moving
  <1>9. QED
    BY <1>1, <1>4, <1>6, <1>7, <1>8 DEF IInv, cvars

-------------------------------------------------------------------------------
(* The invariant *)

LEMMA InitIInv == ASSUME SDInit PROVE IInv
  <1>1. /\ pc = "start" /\ op = CMD0 /\ i = 0 /\ tries = 0 /\ sdcInitialized = FALSE
        /\ request = None /\ count = 0 /\ result = "none" /\ mem \in [Location -> Block]
        /\ select = FALSE /\ state = "ACCUM_CMD" /\ cmd = <<>> /\ left = 0 /\ crcRight = TRUE
        /\ idle = TRUE /\ crcChecked = FALSE /\ appCmdSeen = FALSE /\ initCnt = PRM_INIT_COUNT
        /\ image \in [Sector -> Block]
    BY DEF SDInit, DriverStart, CardStart
  <1>2. initCnt \in 1 .. TRIES /\ initCnt \in 1 .. PRM_INIT_COUNT
    <2>1. PRM_INIT_COUNT \in Nat \ {0} /\ TRIES \in Nat /\ PRM_INIT_COUNT <= TRIES
      BY SdCardAssumption, SdDriverAssumption, DelaysFit
    <2>2. QED
      BY <1>1, <2>1
  <1>3. CardTypeOK
    <2>1. cmd \in Seq(Nat) /\ Len(cmd) \in 0 .. 6
      BY <1>1
    <2>2. QED
      BY <1>1, <1>2, <2>1 DEF CardTypeOK, States
  <1>4. SDTypeOK
    BY <1>1, <1>3, NoTries DEF SDTypeOK
  <1>5. CardInv
    BY <1>1 DEF CardInv, AtCommand
  <1>6. PhaseInv
    BY <1>1 DEF PhaseInv
  <1>7. ActInv
    BY <1>1, <1>2, NoTries DEF ActInv
  <1>8. CopyInv
    BY <1>1 DEF CopyInv, Moving
  <1>9. QED
    BY <1>4, <1>5, <1>6, <1>7, <1>8 DEF IInv

LEMMA IllegalStep == ASSUME IInv, Illegal PROVE IInv'
  BY ReturnStep DEF Illegal

LEMMA NoMoreSectorsStep == ASSUME IInv, NoMoreSectors PROVE IInv'
  BY ReturnStep DEF NoMoreSectors

LEMMA OffDiskStep == ASSUME IInv, OffDisk PROVE IInv'
  BY ReturnStep DEF OffDisk

LEMMA NothingHappens == ASSUME IInv, UNCHANGED allvars PROVE IInv'
  <1>1. SDTypeOK'
    <2>1. CardTypeOK'
      BY DEF IInv, SDTypeOK, CardTypeOK, allvars, cvars
    <2>2. QED
      BY <2>1 DEF IInv, SDTypeOK, allvars, kvars
  <1>2. CardInv'
    <2>1. UNCHANGED <<cvars, pc, op, i, request, count>>
      BY DEF allvars, kvars, callVars
    <2>2. UNCHANGED <<BeforeCommand, AtCommand, FourBehind, ModeFits, AfterCommand>>
      BY <2>1 DEF cvars, BeforeCommand, AtCommand, FourBehind, ModeFits, AfterCommand
    <2>3. UNCHANGED <<SendingLate, AnswerLate, MoreLate>>
      BY <2>1 DEF cvars, SendingLate, AnswerLate, MoreLate, AtCommand
    <2>4. \A n : Has(n) = Has(n)'
      BY <2>1 DEF cvars, Has, Frame, CurrentSector
    <2>5. UNCHANGED <<Waiting, InData, OutData, state, i, left, cmd, appCmdSeen, crcRight, pc>>
      BY <2>1 DEF cvars, Waiting, InData, OutData
    <2>6. QED
      BY <2>2, <2>3, <2>4, <2>5 DEF IInv, CardInv
  <1>3. PhaseInv'
    BY DEF IInv, PhaseInv, allvars, cvars, kvars
  <1>4. ActInv'
    BY DEF IInv, ActInv, allvars, cvars, kvars
  <1>5. CopyInv'
    BY DEF IInv, CopyInv, allvars, cvars, kvars, Moving, Size, Csize, CurrentSector, CurrentLocation
  <1>6. QED
    BY <1>1, <1>2, <1>3, <1>4, <1>5 DEF IInv

LEMMA StepIInv == ASSUME IInv, [SDNext]_allvars PROVE IInv'
  <1>1. CASE SndCmd
    BY <1>1, SelectStep, SendFrameStep, PollAnswerStep, MoreAnswerStep, PollTokenStep,
       ReceiveDataStep, ReceiveCrcStep, SendDataStep, PollResponseStep, PollBusyStep, DeselectStep
    DEF SndCmd
  <1>2. CASE Clocks \/ NextInitCmd \/ CapDone
    BY <1>2, ClocksStep, NextInitCmdStep, CapDoneStep
  <1>3. CASE Illegal \/ NoMoreSectors \/ OffDisk \/ NextSector \/ SectorDone
    BY <1>3, IllegalStep, NoMoreSectorsStep, OffDiskStep, NextSectorStep, SectorDoneStep
  <1>4. CASE CallCap \/ Restart
    BY <1>4, CallCapStep, RestartStep
  <1>5. CASE \E r \in Request : CallIo(r)
    BY <1>5, CallIoStep
  <1>6. CASE UNCHANGED allvars
    BY <1>6, NothingHappens
  <1>7. QED
    BY <1>1, <1>2, <1>3, <1>4, <1>5, <1>6 DEF SDNext, Driver

LEMMA IInvariant == SDSpec => []IInv
  <1>1. SDInit => IInv
    BY InitIInv
  <1>2. IInv /\ [SDNext]_allvars => IInv'
    BY StepIInv
  <1>3. QED
    BY <1>1, <1>2, PTL DEF SDSpec

\* Types: the driver and the card keep to their ranges, the driver's loops to
\* their counts, and memory holds data only (dsksdc.c, sdcard.c).
THEOREM SdTypeCorrect == SDSpec => []SDTypeOK
  <1>1. IInv => SDTypeOK
    BY DEF IInv
  <1>2. QED
    BY <1>1, IInvariant, PTL

\* The card expects the first byte of a command whenever a command that transfers
\* data begins, although a restart of the monitor between CMD55 and ACMD41 puts
\* both sides out of step (dsksdc.c:126, sdcard.c:233, 277).
THEOREM CardIsInStep == SDSpec => []InStep
  <1>1. IInv => InStep
    BY DEF IInv, CardInv, InStep, BeforeCommand, AtCommand, CMD0, CMD9, CMD17, CMD24, CMD59
  <1>2. QED
    BY <1>1, IInvariant, PTL

\* A disk is found only if the card left its idle state: it never takes the
\* driver's last try to do so (dsksdc.c:348, sdcard.c:264).
THEOREM FoundCardIsActive == SDSpec => []FoundIsActive
  <1>1. IInv => FoundIsActive
    BY DEF IInv, ActInv, FoundIsActive
  <1>2. QED
    BY <1>1, IInvariant, PTL

-------------------------------------------------------------------------------
(* The driver and the card implement a block device. *)

Arrived ==
  \/ op = CMD17 /\ pc \in {"crc", "deselect", "done"}
  \/ op = CMD24 /\ pc \in {"busy", "deselect", "done"}

LEMMA Counted ==
  ASSUME SDTypeOK
  PROVE  /\ Arrived => Transferred = count + 1
         /\ ~Arrived => Transferred = count
  BY DriverTypes DEF Arrived, Transferred

LEMMA DiskOnImage == Disk = 0 .. Size - 1 /\ Disk \subseteq Sector /\ Disk' = Disk
  <1>1. Disk = 0 .. Size - 1 /\ Disk' = Disk
    BY DEF Disk, Size, Csize
  <1>2. Size \in 0 .. TOTAL /\ TOTAL \in Nat
    BY SizeFits, SdCardAssumption
  <1>3. 0 .. Size - 1 \subseteq 0 .. TOTAL - 1
    BY <1>2
  <1>4. QED
    BY <1>1, <1>3 DEF Sector

LEMMA Stutter ==
  ASSUME IInv, IInv', UNCHANGED <<image, mem, request, result>>, Transferred' = Transferred
  PROVE  UNCHANGED Blocks!vars
  BY DiskOnImage DEF Blocks!vars

LEMMA SameCount ==
  ASSUME IInv, IInv', UNCHANGED <<image, mem, callVars>>, Arrived' <=> Arrived
  PROVE  UNCHANGED Blocks!vars
  <1>1. Transferred' = Transferred
    BY Counted DEF IInv, Arrived, Transferred
  <1>2. QED
    BY <1>1, Stutter

\* The card writes its image only when it responds to a block.
LEMMA OnlyResponses ==
  ASSUME IInv, NEW b, Exchange(b), pc \in {"send", "answer", "more", "token"}
  PROVE  UNCHANGED image
  <1>1. select /\ state # "WR_RSP"
    BY DEF IInv, PhaseInv, CardInv, SendingLate, AnswerLate, MoreLate, AtCommand
  <1>2. QED
    BY <1>1 DEF Exchange, AccumCmd, InterpCmd, Answer, RdDelay, RdData, RdCrc, WrWait, WrData,
                WrCrc, WrRsp, WrBusy

LEMMA BytesStutter ==
  ASSUME IInv, IInv',
         Select \/ SendFrame \/ PollAnswer \/ MoreAnswer \/ PollToken \/ ReceiveCrc
           \/ SendData \/ PollBusy \/ Deselect
  PROVE  UNCHANGED Blocks!vars
  <1>1. CASE Select
    BY <1>1, SameCount DEF Select, Arrived
  <1>2. CASE SendFrame
    <2>1. UNCHANGED image
      BY <1>2, OnlyResponses DEF SendFrame
    <2>2. pc = "send" /\ pc' \in {"send", "answer"} /\ UNCHANGED <<mem, callVars>>
      BY <1>2 DEF SendFrame
    <2>3. QED
      BY <2>1, <2>2, SameCount DEF Arrived
  <1>3. CASE PollAnswer
    <2>1. UNCHANGED image
      BY <1>3, OnlyResponses DEF PollAnswer
    <2>2. pc = "answer" /\ UNCHANGED <<op, mem, callVars>>
      BY <1>3 DEF PollAnswer
    <2>3. pc' = "answer" \/ pc' = AfterAnswer.pc
      BY <1>3 DEF PollAnswer, NoSuccess, IInv, PhaseInv
    <2>4. op \in {CMD17, CMD24} => AfterAnswer.pc \in {"token", "out token"}
      BY Phases, DriverTypes DEF IInv
    <2>5. ~Arrived /\ ~Arrived'
      BY <2>2, <2>3, <2>4 DEF Arrived
    <2>6. QED
      BY <2>1, <2>2, <2>5, SameCount
  <1>4. CASE MoreAnswer
    <2>1. UNCHANGED image
      BY <1>4, OnlyResponses DEF MoreAnswer
    <2>2. op \in {CMD8, CMD58} /\ UNCHANGED <<op, mem, callVars>>
      BY <1>4 DEF MoreAnswer, IInv, PhaseInv
    <2>3. op \notin {CMD17, CMD24}
      BY <2>2 DEF CMD8, CMD17, CMD24, CMD58
    <2>4. QED
      BY <2>1, <2>2, <2>3, SameCount DEF Arrived
  <1>5. CASE PollToken
    <2>1. UNCHANGED image
      BY <1>5, OnlyResponses DEF PollToken
    <2>2. pc = "token" /\ UNCHANGED <<op, mem, callVars>>
      BY <1>5 DEF PollToken
    <2>3. pc' \in {"token", "data"}
      BY <1>5 DEF PollToken, NoSuccess, IInv, PhaseInv
    <2>4. QED
      BY <2>1, <2>2, <2>3, SameCount DEF Arrived
  <1>6. CASE ReceiveCrc
    <2>1. UNCHANGED image
      BY <1>6, ReceiveCrcStep
    <2>2. pc = "crc" /\ pc' = "deselect" /\ UNCHANGED <<op, mem, callVars>> /\ op \in {CMD9, CMD17}
      BY <1>6 DEF ReceiveCrc, IInv, PhaseInv
    <2>3. QED
      BY <2>1, <2>2, SameCount, CodesDiffer DEF Arrived
  <1>7. CASE SendData
    <2>1. UNCHANGED image
      BY <1>7, SendDataStep
    <2>2. op = CMD24 /\ UNCHANGED <<op, mem, callVars>>
          /\ pc \in {"out token", "out data", "out crc"} /\ pc' \in {"out data", "out crc", "response"}
      BY <1>7 DEF SendData, IInv, PhaseInv
    <2>3. QED
      BY <2>1, <2>2, SameCount, CodesDiffer DEF Arrived
  <1>8. CASE PollBusy
    <2>1. UNCHANGED image
      BY <1>8, PollBusyStep
    <2>2. pc = "busy" /\ pc' \in {"busy", "deselect"} /\ op = CMD24 /\ UNCHANGED <<op, mem, callVars>>
      BY <1>8 DEF PollBusy, IInv, PhaseInv
    <2>3. QED
      BY <2>1, <2>2, SameCount, CodesDiffer DEF Arrived
  <1>9. CASE Deselect
    BY <1>9, SameCount DEF Deselect, Arrived
  <1>10. QED
    BY <1>1, <1>2, <1>3, <1>4, <1>5, <1>6, <1>7, <1>8, <1>9

LEMMA CommandsStutter ==
  ASSUME IInv, IInv', CallCap \/ Clocks \/ NextInitCmd \/ CapDone \/ NextSector \/ SectorDone \/ Restart
  PROVE  UNCHANGED Blocks!vars
  <1>1. CASE CallCap
    BY <1>1, SameCount DEF CallCap, Begin, Arrived, cvars
  <1>2. CASE Clocks
    BY <1>2, SameCount DEF Clocks, Begin, Arrived
  <1>3. CASE NextInitCmd
    BY <1>3, SameCount DEF NextInitCmd, Begin, Arrived, cvars
  <1>4. CASE CapDone
    <2>1. op = CMD9 /\ UNCHANGED <<op, image, mem, callVars>>
      BY <1>4 DEF CapDone, cvars
    <2>2. QED
      BY <2>1, SameCount, CodesDiffer DEF Arrived
  <1>5. CASE NextSector
    BY <1>5, SameCount DEF NextSector, Begin, Arrived, cvars
  <1>6. CASE SectorDone
    <2>1. /\ Arrived /\ ~Arrived' /\ count' = count + 1
          /\ UNCHANGED <<image, mem, request, result>>
      BY <1>6 DEF SectorDone, Arrived, cvars
    <2>2. Transferred' = Transferred
      <3>1. Transferred = count + 1
        BY <2>1, Counted DEF IInv
      <3>2. Transferred' = count'
        BY <2>1, DriverTypes DEF IInv, Arrived, Transferred
      <3>3. QED
        BY <2>1, <3>1, <3>2
    <2>3. QED
      BY <2>1, <2>2, Stutter
  <1>7. CASE Restart
    BY <1>7, SameCount DEF Restart, CardReset, Arrived, cvars
  <1>8. QED
    BY <1>1, <1>2, <1>3, <1>4, <1>5, <1>6, <1>7

LEMMA ReadsAreTransfers ==
  ASSUME IInv, IInv', ReceiveData
  PROVE  [Blocks!Next]_(Blocks!vars)
  <1>1. /\ pc = "data" /\ pc' = "crc" /\ op \in {CMD9, CMD17} /\ dataReg' = block
        /\ UNCHANGED <<op, image, callVars>>
        /\ op = CMD9 => UNCHANGED mem
        /\ op # CMD9 => mem' = [mem EXCEPT ![CurrentLocation] = dataReg']
    BY ReceiveDataStep DEF ReceiveData, IInv, PhaseInv
  <1>2. CASE op = CMD9
    <2>1. ~Arrived /\ ~Arrived' /\ CMD9 # CMD17
      BY <1>1, <1>2 DEF Arrived, CMD9, CMD17, CMD24
    <2>2. QED
      BY <1>1, <1>2, <2>1, SameCount
  <1>3. CASE op # CMD9
    <2>1. op = CMD17 /\ Moving /\ Arrived' /\ ~Arrived
      BY <1>1, <1>3, CodesDiffer DEF Moving, Arrived
    <2>2. /\ Transferred = count /\ Transferred' = count + 1 /\ count \in Nat
      <3>1. Transferred' = count' + 1
        BY <1>1, <2>1, DriverTypes DEF IInv, Arrived, Transferred
      <3>2. QED
        BY <1>1, <2>1, <3>1, Counted, DriverTypes DEF IInv
    <2>3. /\ request.cmd = "r" /\ count < request.n /\ CurrentSector \in Disk
          /\ block = image[CurrentSector]
      BY <1>1, <2>1, Requested, DiskOnImage DEF IInv, CopyInv
    <2>4. mem' = [mem EXCEPT ![request.addr + Transferred] = [s \in Disk |-> image[s]][request.sct + Transferred]]
      BY <1>1, <1>3, <2>2, <2>3 DEF CurrentSector, CurrentLocation
    <2>5. [s \in Disk |-> image[s]]' = [s \in Disk |-> image[s]]
      BY <1>1, DiskOnImage
    <2>6. request.sct + Transferred \in Disk
      BY <2>2, <2>3 DEF CurrentSector
    <2>7. Blocks!Transfer
      BY <1>1, <2>2, <2>3, <2>4, <2>5, <2>6 DEF Blocks!Transfer
    <2>8. QED
      BY <2>7 DEF Blocks!Next
  <1>4. QED
    BY <1>2, <1>3

LEMMA WritesAreTransfers ==
  ASSUME IInv, IInv', PollResponse
  PROVE  Blocks!Next
  <1>1. /\ pc = "response" /\ pc' = "busy" /\ op = CMD24 /\ UNCHANGED <<op, callVars, mem>>
        /\ image' = [image EXCEPT ![CurrentSector] = mem[CurrentLocation]]
    BY PollResponseStep
  <1>2. Moving /\ ~Arrived /\ Arrived'
    BY <1>1, CodesDiffer DEF Moving, Arrived
  <1>3. /\ Transferred = count /\ Transferred' = count + 1 /\ count \in Nat
    <2>1. Transferred' = count' + 1
      BY <1>1, <1>2, DriverTypes DEF IInv, Arrived, Transferred
    <2>2. QED
      BY <1>1, <1>2, <2>1, Counted, DriverTypes DEF IInv
  <1>4. request.cmd = "w" /\ count < request.n /\ CurrentSector \in Disk /\ image \in [Sector -> Block]
    BY <1>1, <1>2, Requested, DiskOnImage, CodesDiffer, CardTypes DEF IInv, CopyInv
  <1>5. [s \in Disk |-> image[s]]' =
          [[s \in Disk |-> image[s]] EXCEPT ![request.sct + Transferred] = mem[request.addr + Transferred]]
    <2>1. [s \in Disk |-> image[s]]' = [s \in Disk |-> image'[s]]
      BY DiskOnImage
    <2>2. \A s \in Disk : image'[s] = IF s = CurrentSector THEN mem[CurrentLocation] ELSE image[s]
      BY <1>1, <1>4, DiskOnImage
    <2>3. [s \in Disk |-> image'[s]] =
            [[s \in Disk |-> image[s]] EXCEPT ![CurrentSector] = mem[CurrentLocation]]
      BY <1>4, <2>2
    <2>4. QED
      BY <1>3, <2>1, <2>3 DEF CurrentSector, CurrentLocation
  <1>6. request.sct + Transferred \in Disk
    BY <1>3, <1>4 DEF CurrentSector
  <1>7. Blocks!Transfer
    BY <1>1, <1>3, <1>4, <1>5, <1>6 DEF Blocks!Transfer
  <1>8. QED
    BY <1>7 DEF Blocks!Next

LEMMA CallsAreCalls ==
  ASSUME IInv, IInv', NEW r \in Request, CallIo(r)
  PROVE  Blocks!Next
  <1>1. /\ pc = "idle" /\ request' = r /\ count' = 0 /\ result' = "none"
        /\ pc' \in {"next", "illegal"} /\ UNCHANGED <<image, mem>>
    BY DEF CallIo, cvars
  <1>2. request = None
    BY <1>1 DEF IInv, CopyInv, Moving
  <1>3. Transferred' = 0
    BY <1>1, DriverTypes DEF Transferred
  <1>4. [s \in Disk |-> image[s]]' = [s \in Disk |-> image[s]]
    BY <1>1, DiskOnImage
  <1>5. Blocks!Call(r)
    BY <1>1, <1>2, <1>3, <1>4 DEF Blocks!Call, Blocks!None, None
  <1>6. QED
    BY <1>5 DEF Blocks!Next

LEMMA ReturnsAreReturns ==
  ASSUME IInv, IInv', Illegal \/ NoMoreSectors \/ OffDisk
  PROVE  Blocks!Next
  <1>1. pc \in {"next", "illegal"} /\ request # None /\ ~Arrived
    BY DEF Illegal, NoMoreSectors, OffDisk, IInv, CopyInv, Arrived
  <1>2. /\ request \in Request /\ request.n \in Nat /\ request.sct \in Nat /\ count \in Nat
        /\ Transferred = count /\ numSectors = Size
    BY <1>1, DriverTypes, Counted, SdDriverAssumption DEF IInv, CopyInv
  <1>3. ASSUME NEW r \in {"ok", "error"}, Return(r),
               \/ r = "ok" /\ request.cmd \in {"r", "w"} /\ count = request.n
               \/ /\ r = "error"
                  /\ request.cmd \in {"r", "w"} => count < request.n /\ CurrentSector \notin Disk
        PROVE  Blocks!Next
    <2>1. /\ result' = r /\ request' = None /\ count' = 0 /\ pc' = "idle" /\ UNCHANGED <<image, mem>>
      BY <1>3 DEF Return, cvars
    <2>2. Transferred' = 0
      BY <2>1 DEF Transferred
    <2>3. [s \in Disk |-> image[s]]' = [s \in Disk |-> image[s]]
      BY <2>1, DiskOnImage
    <2>4. Blocks!Return(r)
      BY <1>1, <1>2, <1>3, <2>1, <2>2, <2>3 DEF Blocks!Return, Blocks!None, None, CurrentSector
    <2>5. QED
      BY <2>4 DEF Blocks!Next
  <1>4. CASE Illegal
    <2>1. request.cmd \notin {"r", "w"} /\ Return("error")
      BY <1>4 DEF Illegal, IInv, CopyInv
    <2>2. QED
      BY <1>3, <2>1
  <1>5. CASE NoMoreSectors
    <2>1. request.cmd \in {"r", "w"} /\ count = request.n /\ Return("ok")
      BY <1>5 DEF NoMoreSectors, IInv, CopyInv
    <2>2. QED
      BY <1>3, <2>1
  <1>6. CASE OffDisk
    <2>1. count <= request.n /\ count # request.n /\ CurrentSector >= numSectors /\ Return("error")
      BY <1>6 DEF OffDisk, IInv, CopyInv
    <2>2. count < request.n
      BY <1>2, <2>1
    <2>3. CurrentSector \in Nat
      BY <1>2 DEF CurrentSector
    <2>4. CurrentSector \notin Disk
      BY <1>2, <2>1, <2>3, SizeFits, DiskOnImage
    <2>5. QED
      BY <1>3, <2>1, <2>2, <2>4
  <1>7. QED
    BY <1>4, <1>5, <1>6

LEMMA InitBlocks == ASSUME SDInit PROVE Blocks!Init
  <1>1. /\ pc = "start" /\ request = None /\ count = 0 /\ result = "none"
        /\ mem \in [Location -> Block] /\ image \in [Sector -> Block]
    BY DEF SDInit, DriverStart
  <1>2. [s \in Disk |-> image[s]] \in [Disk -> Block]
    BY <1>1, DiskOnImage
  <1>3. Transferred = 0
    BY <1>1 DEF Transferred
  <1>4. QED
    BY <1>1, <1>2, <1>3 DEF Blocks!Init, Blocks!None, None

LEMMA StepBlocks ==
  ASSUME IInv, IInv', [SDNext]_allvars
  PROVE  [Blocks!Next]_(Blocks!vars)
  <1>1. CASE SndCmd
    BY <1>1, BytesStutter, ReadsAreTransfers, WritesAreTransfers DEF SndCmd
  <1>2. CASE CallCap \/ Clocks \/ NextInitCmd \/ CapDone \/ NextSector \/ SectorDone \/ Restart
    BY <1>2, CommandsStutter
  <1>3. CASE Illegal \/ NoMoreSectors \/ OffDisk
    BY <1>3, ReturnsAreReturns
  <1>4. CASE \E r \in Request : CallIo(r)
    BY <1>4, CallsAreCalls
  <1>5. CASE UNCHANGED allvars
    BY <1>5, SameCount DEF allvars, cvars, kvars, Arrived
  <1>6. QED
    BY <1>1, <1>2, <1>3, <1>4, <1>5 DEF SDNext, Driver

\* Whatever is left half done by a restart, the sectors of a request are copied
\* one after the other between the card and memory, and nothing else is, as
\* dskio promises (dsksdc.c:109-242, 498-528, sdcard.c:209-468).
THEOREM SdDriverIsBlockDevice == SDSpec => ImplementsBlockDevice
  <1>1. SDInit => Blocks!Init
    BY InitBlocks
  <1>2. IInv /\ IInv' /\ [SDNext]_allvars => [Blocks!Next]_(Blocks!vars)
    BY StepBlocks
  <1>3. QED
    BY <1>1, <1>2, IInvariant, PTL DEF SDSpec, ImplementsBlockDevice, Blocks!Spec
===============================================================================

------------------------------ MODULE DiskProofs ------------------------------
(***************************************************************************)
(* Proofs about the disk controller under arbitrary software, and about    *)
(* the ROM monitor's polling driver: for every disk size, buffer size and  *)
(* set of requests.                                                        *)
(***************************************************************************)
EXTENDS DskCtl, Integers, TLAPS

DiskInv == DiskTypeOK /\ IrqIsDoneAndIen

-------------------------------------------------------------------------------
(* The controller *)

\* A transfer is never empty and never larger than the buffer.
LEMMA TransferFitsBuffer ==
  ASSUME NEW n \in Nat
  PROVE  NumScts(n) \in 1 .. BUF_SCTS
<1>1. BUF_SCTS \in Nat \ {0} /\ n + BUF_SCTS - 1 \in Int
  BY DiskAssumption
<1>2. (n + BUF_SCTS - 1) % BUF_SCTS \in 0 .. BUF_SCTS - 1
  BY <1>1
<1>. QED
  BY <1>1, <1>2 DEF NumScts

LEMMA TypesOfNumbers ==
  ASSUME DiskTypeOK
  PROVE  /\ cnt \in Nat /\ sct \in Nat /\ cap \in Nat /\ ops \in Nat
         /\ cap \in {0, TOTAL} /\ NumScts(cnt) \in 1 .. BUF_SCTS
BY DiskAssumption, TransferFitsBuffer DEF DiskTypeOK

\* A write stays within the buffer, a read within the image.
LEMMA TransferTypes ==
  ASSUME DiskTypeOK, InRange
  PROVE  Written \in Image /\ Fetched \in Buffer
<1>1. /\ cnt \in Nat /\ sct \in Nat /\ cap = TOTAL /\ TOTAL \in Nat
      /\ NumScts(cnt) \in 1 .. BUF_SCTS /\ BUF_SCTS \in Nat
      /\ sct + NumScts(cnt) <= TOTAL
  BY TypesOfNumbers, DiskAssumption DEF InRange
<1>2. /\ image \in [0 .. TOTAL - 1 -> Data]
      /\ buffer \in [0 .. BUF_SCTS - 1 -> Data]
  BY DEF DiskTypeOK, Image, Buffer
<1>3. ASSUME NEW s \in 0 .. TOTAL - 1, s \in sct .. sct + NumScts(cnt) - 1
      PROVE  buffer[s - sct] \in Data
  <2>1. s - sct \in 0 .. BUF_SCTS - 1
    BY <1>1, <1>3
  <2>. QED
    BY <1>2, <2>1
<1>4. ASSUME NEW b \in 0 .. BUF_SCTS - 1, b < NumScts(cnt)
      PROVE  image[sct + b] \in Data
  <2>1. sct + b \in 0 .. TOTAL - 1
    BY <1>1, <1>4
  <2>. QED
    BY <1>2, <2>1
<1>5. Written \in Image
  BY <1>2, <1>3 DEF Written, Image
<1>6. Fetched \in Buffer
  BY <1>2, <1>4 DEF Fetched, Buffer
<1>. QED
  BY <1>5, <1>6

LEMMA CtrlResetType == CtrlReset \in Ctrl /\ ~CtrlReset.done
BY DEF CtrlReset, Ctrl

LEMMA InitDiskInv == DiskInit => DiskInv
<1>1. SUFFICES ASSUME DiskInit PROVE DiskInv
  OBVIOUS
<1>2. /\ ctrl \in Ctrl /\ ~ctrl.done /\ irq = FALSE
      /\ image \in Image /\ buffer \in Buffer
      /\ cnt \in Cnt /\ sct \in Sct /\ cap \in {0, TOTAL}
      /\ startup \in BOOLEAN /\ ops \in 0 .. MAX_OPS
  BY <1>1, DiskAssumption, CtrlResetType DEF DiskInit
<1>. QED
  BY <1>2 DEF DiskInv, DiskTypeOK, IrqIsDoneAndIen

LEMMA StartupInv ==
  ASSUME DiskInv, StartupCallback
  PROVE  DiskInv'
<1>1. ctrl' \in Ctrl /\ ctrl'.done = ctrl.done /\ ctrl'.ien = ctrl.ien
  BY DEF DiskInv, DiskTypeOK, Ctrl, StartupCallback
<1>. QED
  BY <1>1 DEF DiskInv, DiskTypeOK, IrqIsDoneAndIen, StartupCallback, dregs

LEMMA OperationInv ==
  ASSUME DiskInv, OperationCallback
  PROVE  DiskInv'
<1>1. ctrl' \in Ctrl /\ ctrl'.done /\ ctrl'.ien = ctrl.ien
  BY DEF DiskInv, DiskTypeOK, Ctrl, OperationCallback, Failed
<1>2. image' \in Image /\ buffer' \in Buffer
  BY TransferTypes DEF OperationCallback, DiskInv, DiskTypeOK
<1>3. irq' <=> ctrl.ien
  BY DEF OperationCallback, DiskInv, IrqIsDoneAndIen
<1>4. ops' \in 0 .. MAX_OPS
  BY DiskAssumption DEF OperationCallback, DiskInv, DiskTypeOK
<1>5. irq' \in BOOLEAN
  BY DEF OperationCallback, DiskInv, DiskTypeOK
<1>. QED
  BY <1>1, <1>2, <1>3, <1>4, <1>5
     DEF OperationCallback, DiskInv, DiskTypeOK, IrqIsDoneAndIen, dregs

LEMMA WriteCtrlInv ==
  ASSUME DiskInv, NEW wrt \in BOOLEAN, NEW ien \in BOOLEAN,
         NEW strt \in BOOLEAN, NEW done \in BOOLEAN,
         WriteCtrl(wrt, ien, strt, done)
  PROVE  DiskInv'
<1>. DEFINE c == [ctrl EXCEPT !.wrt = wrt, !.ien = ien]
<1>1. c \in Ctrl
  BY DEF DiskInv, DiskTypeOK, Ctrl
<1>2. Restarted(c) \in Ctrl
  BY <1>1 DEF Ctrl, Restarted
<1>3. ctrl' = IF strt THEN Restarted(c) ELSE c
  BY DEF WriteCtrl
<1>4. ctrl' \in Ctrl
  BY <1>1, <1>2, <1>3
<1>5. irq' = (ctrl'.done /\ ctrl'.ien) /\ irq' \in BOOLEAN
  BY <1>4 DEF WriteCtrl, Asserted, Ctrl
<1>6. ops' \in 0 .. MAX_OPS
  BY DiskAssumption DEF WriteCtrl, DiskInv, DiskTypeOK
<1>. QED
  BY <1>4, <1>5, <1>6 DEF WriteCtrl, DiskInv, DiskTypeOK, IrqIsDoneAndIen, dregs

LEMMA RegisterInv ==
  ASSUME DiskInv,
         \/ \E n \in Cnt : WriteCnt(n)
         \/ \E s \in Sct : WriteSct(s)
         \/ \E b \in 0 .. BUF_SCTS - 1, d \in Data : WriteBuffer(b, d)
  PROVE  DiskInv'
<1>1. CASE \E n \in Cnt : WriteCnt(n)
  BY <1>1 DEF WriteCnt, DiskInv, DiskTypeOK, IrqIsDoneAndIen
<1>2. CASE \E s \in Sct : WriteSct(s)
  BY <1>2 DEF WriteSct, DiskInv, DiskTypeOK, IrqIsDoneAndIen
<1>3. CASE \E b \in 0 .. BUF_SCTS - 1, d \in Data : WriteBuffer(b, d)
  <2>1. buffer' \in Buffer
    BY <1>3 DEF WriteBuffer, DiskInv, DiskTypeOK, Buffer
  <2>. QED
    BY <1>3, <2>1 DEF WriteBuffer, DiskInv, DiskTypeOK, IrqIsDoneAndIen, dregs
<1>. QED
  BY <1>1, <1>2, <1>3

LEMMA DiskResetInv ==
  ASSUME DiskInv, DiskReset
  PROVE  DiskInv'
<1>1. ctrl' \in Ctrl /\ ~ctrl'.done /\ irq' = FALSE
  BY CtrlResetType DEF DiskReset
<1>2. /\ image' \in Image /\ buffer' \in Buffer
      /\ cnt' \in Cnt /\ sct' \in Sct /\ cap' \in {0, TOTAL}
      /\ startup' \in BOOLEAN /\ ops' \in 0 .. MAX_OPS
  BY DiskAssumption DEF DiskReset, DiskInv, DiskTypeOK
<1>. QED
  BY <1>1, <1>2 DEF DiskInv, DiskTypeOK, IrqIsDoneAndIen

LEMMA StepDiskInv == DiskInv /\ [DiskNext]_dvars => DiskInv'
<1>. SUFFICES ASSUME DiskInv, [DiskNext]_dvars
              PROVE  DiskInv'
  OBVIOUS
<1>1. CASE UNCHANGED dvars
  BY <1>1 DEF dvars, dregs, DiskInv, DiskTypeOK, IrqIsDoneAndIen
<1>. QED
  BY <1>1, StartupInv, OperationInv, WriteCtrlInv, RegisterInv, DiskResetInv
     DEF DiskNext

LEMMA DiskInvariant == DiskSpec => []DiskInv
BY InitDiskInv, StepDiskInv, PTL DEF DiskSpec

\* The disk's interrupt line always equals done and enabled, even if software
\* starts operations while others are in progress.
THEOREM DiskIrqIsExact == DiskSpec => []IrqIsDoneAndIen
BY DiskInvariant, PTL DEF DiskInv

\* Transfers stay within the sector buffer and within the disk, whatever
\* software writes to the count and sector registers.
THEOREM DiskTypeCorrect == DiskSpec => []DiskTypeOK
BY DiskInvariant, PTL DEF DiskInv

-------------------------------------------------------------------------------
(* The polling driver *)

\* At most one operation is in progress, and only while the driver polls.
PollInv ==
  /\ ctrl \in Ctrl
  /\ ops \in {0, 1}
  /\ NeverDisturbed

LEMMA InitPollInv == KInit => PollInv
BY DEF KInit, DiskInit, PollInv, NeverDisturbed, CtrlReset, Ctrl

LEMMA OperationPollInv ==
  ASSUME PollInv, OperationCallback
  PROVE  PollInv'
<1>1. ctrl' \in Ctrl
  BY DEF PollInv, OperationCallback, Failed, Ctrl
<1>2. ops \in {0, 1} /\ ops > 0 /\ ops' = ops - 1
  BY DEF PollInv, OperationCallback
<1>3. ops' = 0
  BY <1>2
<1>. QED
  BY <1>1, <1>3 DEF PollInv, NeverDisturbed

LEMMA StepPollInv == PollInv /\ [KNext]_allvars => PollInv'
<1>. SUFFICES ASSUME PollInv, [KNext]_allvars
              PROVE  PollInv'
  OBVIOUS
<1>. USE DEF PollInv, NeverDisturbed
<1>1. CASE StartupCallback /\ UNCHANGED kvars
  BY <1>1 DEF StartupCallback, kvars, Ctrl
<1>2. CASE OperationCallback
  BY <1>2, OperationPollInv
<1>3. CASE CallCap \/ Cap \/ \E r \in Request : CallIo(r)
  BY <1>3 DEF CallCap, Cap, PollReady, GetCapacity, CallIo, dvars
<1>4. CASE Illegal \/ NoMoreSectors
  BY <1>4 DEF Illegal, NoMoreSectors, ReturnWith, dvars
<1>5. CASE NextSector
  BY <1>5 DEF NextSector, WriteBuffer, dvars
<1>6. CASE SetCount \/ SetSector
  BY <1>6 DEF SetCount, SetSector, WriteCnt, WriteSct
<1>7. CASE StartCommand
  <2>. DEFINE c == [ctrl EXCEPT !.wrt = (request.cmd = "w"), !.ien = FALSE]
  <2>1. ops = 0
    BY <1>7 DEF StartCommand
  <2>2. c \in Ctrl
    BY DEF Ctrl
  <2>3. ctrl' = Restarted(c) /\ ops' = IF cap # 0 THEN ops + 1 ELSE ops
    BY <1>7 DEF StartCommand, WriteCtrl
  <2>. HIDE DEF c
  <2>4. ctrl' \in Ctrl /\ ~ctrl'.done
    <3>1. Restarted(c) \in Ctrl /\ ~Restarted(c).done
      BY <2>2 DEF Restarted, Ctrl
    <3>. QED
      BY <2>3, <3>1
  <2>5. pc' = "poll done"
    BY <1>7 DEF StartCommand
  <2>6. ops' \in {0, 1}
    BY <2>1, <2>3
  <2>. QED
    BY <2>4, <2>5, <2>6
<1>8. CASE PollDone \/ UNCHANGED allvars
  BY <1>8 DEF PollDone, allvars, dvars, kvars
<1>9. CASE DoneWithError \/ DoneWell
  BY <1>9 DEF DoneWithError, DoneWell, ReturnWith, dvars
<1>10. CASE Copy
  BY <1>10 DEF Copy, dvars
<1>. QED
  BY <1>1, <1>2, <1>3, <1>4, <1>5, <1>6, <1>7, <1>8, <1>9, <1>10
     DEF KNext, Callback, Cap, Io

LEMMA PollInvariant == KSpec => []PollInv
BY InitPollInv, StepPollInv, PTL DEF KSpec

\* Whenever the driver touches registers or buffer no operation is in progress,
\* for every sequence of requests.
THEOREM DriverNeverDisturbs == KSpec => []NeverDisturbed
BY PollInvariant, PTL DEF PollInv

-------------------------------------------------------------------------------
(* The driver copies what it says *)

Transferring ==
  pc \in {"next", "set count", "set sector", "start command", "poll done", "copy"}

\* What the driver has set up at each point of a transfer, and what the callback
\* has made of it.
TransferInv ==
  /\ pc \in {"start", "poll ready", "get capacity", "idle", "no disk"} <=> request = None
  /\ Transferring => request.cmd \in {"r", "w"} /\ cap # 0 /\ count <= request.n
  /\ pc = "illegal" => request.cmd \notin {"r", "w"}
  /\ pc \in {"idle", "illegal"} => cap # 0
  /\ request = None => count = 0
  /\ pc = "poll ready" => retries # 0
  /\ Transferring /\ pc # "next" => count < request.n
  /\ pc \in {"set sector", "start command", "poll done"} => cnt = 1
  /\ pc \in {"start command", "poll done"} => sct = request.sct + count
  /\ /\ pc \in {"set count", "set sector", "start command", "poll done"}
     /\ request.cmd = "w"
     => buffer[0] = mem[request.addr + count]
  /\ pc = "poll done" => (ctrl.wrt <=> request.cmd = "w")
  /\ pc = "poll done" /\ ctrl.done => (ctrl.err <=> request.sct + count \notin 0 .. TOTAL - 1)
  /\ pc = "poll done" /\ ~ctrl.done => ~ctrl.err
  /\ pc = "copy" => request.cmd = "r" /\ request.sct + count \in 0 .. TOTAL - 1
  /\ (pc = "poll done" /\ ctrl.done /\ ~ctrl.err /\ request.cmd = "r") \/ pc = "copy"
     => buffer[0] = image[request.sct + count]

CopyInv == KTypeOK /\ PollInv /\ TransferInv

\* The driver transfers single sectors.
LEMMA OneSector == NumScts(1) = 1
<1>1. BUF_SCTS \in Nat \ {0} /\ 1 + BUF_SCTS - 1 = BUF_SCTS
  BY DiskAssumption
<1>2. BUF_SCTS % BUF_SCTS = 0
  BY <1>1
<1>. QED
  BY <1>1, <1>2 DEF NumScts

\* Where the next sector is on the disk and in memory.
LEMMA RequestTypes ==
  ASSUME CopyInv, Transferring
  PROVE  /\ request \in Request /\ request # None /\ count \in Nat
         /\ {request.n, request.addr, request.sct} \subseteq Nat
         /\ count < request.n => /\ request.addr + count \in Location
                                 /\ request.sct + count \in Sct
         /\ TOTAL \in Nat /\ cap = TOTAL
<1>1. request \in Request /\ request # None /\ count \in Nat
  BY DriverAssumption DEF CopyInv, KTypeOK, TransferInv, Transferring
<1>2. /\ {request.n, request.addr, request.sct} \subseteq Nat
      /\ \A i \in 0 .. request.n - 1 :
           request.addr + i \in Location /\ request.sct + i \in Sct
  BY <1>1, DriverAssumption
<1>3. TOTAL \in Nat /\ cap = TOTAL
  BY DiskAssumption DEF CopyInv, KTypeOK, TransferInv, Transferring, DiskTypeOK
<1>4. count < request.n => count \in 0 .. request.n - 1
  BY <1>1, <1>2
<1>. QED
  BY <1>1, <1>2, <1>3, <1>4

LEMMA InitCopyInv == KInit => CopyInv
<1>. SUFFICES ASSUME KInit PROVE CopyInv
  OBVIOUS
<1>1. DiskTypeOK
  BY InitDiskInv DEF KInit, DiskInv
<1>2. KTypeOK
  BY <1>1, DriverAssumption DEF KInit, KTypeOK
<1>. QED
  BY <1>2, InitPollInv DEF CopyInv, TransferInv, Transferring, KInit

\* The end of an operation: a sector is written, or fetched, or is not on the disk.
LEMMA OperationResult ==
  ASSUME CopyInv, OperationCallback
  PROVE  /\ pc = "poll done" /\ ~ctrl.done /\ ~ctrl.err /\ ctrl'.done /\ ctrl'.wrt = ctrl.wrt
         /\ IF sct \in 0 .. TOTAL - 1
            THEN /\ ~ctrl'.err
                 /\ image' = IF request.cmd = "w" THEN [image EXCEPT ![sct] = buffer[0]] ELSE image
                 /\ request.cmd = "r" => buffer'[0] = image[sct]
            ELSE ctrl'.err /\ UNCHANGED image
         /\ request.cmd = "w" => UNCHANGED buffer
<1>. /\ DiskTypeOK /\ KTypeOK /\ PollInv /\ TransferInv
  BY DEF CopyInv, KTypeOK
<1>1. ops # 0
  BY TypesOfNumbers DEF OperationCallback
<1>2. pc = "poll done" /\ ~ctrl.done /\ Transferring
  BY <1>1 DEF PollInv, NeverDisturbed, Transferring
<1>3. /\ ~ctrl.err /\ cnt = 1 /\ request.cmd \in {"r", "w"} /\ cap # 0
      /\ (ctrl.wrt <=> request.cmd = "w")
  BY <1>2 DEF TransferInv
<1>4. ctrl \in Ctrl
  BY DEF PollInv
<1>5. cap = TOTAL /\ TOTAL \in Nat /\ sct \in Nat
  BY <1>3, TypesOfNumbers, DiskAssumption
<1>6. InRange <=> sct \in 0 .. TOTAL - 1
  BY <1>3, <1>5, OneSector DEF InRange
<1>7. /\ image \in [0 .. TOTAL - 1 -> Data] /\ buffer \in [0 .. BUF_SCTS - 1 -> Data]
      /\ 0 \in 0 .. BUF_SCTS - 1
  BY DiskAssumption DEF DiskTypeOK, Image, Buffer
<1>8. ctrl'.done /\ ctrl'.wrt = ctrl.wrt /\ (ctrl'.err <=> ~InRange)
  <2>1. ctrl' = IF InRange THEN [ctrl EXCEPT !.done = TRUE] ELSE Failed
    BY DEF OperationCallback
  <2>. HIDE DEF InRange
  <2>. QED
    BY <1>3, <1>4, <2>1 DEF Failed, Ctrl
<1>9. sct .. sct + NumScts(cnt) - 1 = {sct}
  BY <1>3, <1>5, OneSector
<1>10. Written = [image EXCEPT ![sct] = buffer[0]]
  <2>1. Written = [s \in 0 .. TOTAL - 1 |-> IF s \in {sct} THEN buffer[s - sct] ELSE image[s]]
    BY <1>7, <1>9 DEF Written
  <2>2. sct - sct = 0
    BY <1>5
  <2>. QED
    BY <1>7, <2>1, <2>2
<1>11. Fetched[0] = image[sct]
  <2>1. 0 < NumScts(cnt) /\ sct + 0 = sct
    BY <1>3, <1>5, OneSector
  <2>2. Fetched[0] = IF 0 < NumScts(cnt) THEN image[sct + 0] ELSE buffer[0]
    BY <1>7 DEF Fetched
  <2>. QED
    BY <2>1, <2>2
<1>12. /\ image' = IF InRange /\ ctrl.wrt THEN Written ELSE image
       /\ buffer' = IF InRange /\ ~ctrl.wrt THEN Fetched ELSE buffer
  BY DEF OperationCallback
<1>13. "r" # "w"
  OBVIOUS
<1>. HIDE DEF InRange, Written, Fetched
<1>. QED
  BY <1>2, <1>3, <1>6, <1>8, <1>10, <1>11, <1>12, <1>13

LEMMA CallbackCopyInv == CopyInv /\ Callback => CopyInv'
<1>. SUFFICES ASSUME CopyInv, Callback PROVE CopyInv'
  OBVIOUS
<1>0. PollInv'
  BY StepPollInv DEF CopyInv, KNext
<1>1. CASE StartupCallback
  <2>1. /\ ctrl' = [ctrl EXCEPT !.ready = TRUE] /\ ctrl \in Ctrl
        /\ ctrl' \in Ctrl /\ ctrl'.done = ctrl.done /\ ctrl'.err = ctrl.err /\ ctrl'.wrt = ctrl.wrt
    BY <1>1 DEF StartupCallback, CopyInv, PollInv, Ctrl
  <2>2. cap' = TOTAL /\ (cap # 0 => cap' = cap) /\ UNCHANGED <<image, buffer, cnt, sct, ops, irq>>
    BY <1>1 DEF StartupCallback, CopyInv, KTypeOK, DiskTypeOK
  <2>3. KTypeOK'
    BY <1>1, <2>1, <2>2 DEF StartupCallback, Callback, CopyInv, KTypeOK, DiskTypeOK, kvars
  <2>. QED
    BY <1>0, <2>1, <2>2, <2>3 DEF CopyInv, TransferInv, Transferring, Callback, kvars
<1>2. CASE OperationCallback
  <2>1. DiskTypeOK'
    <3>1. ctrl' \in Ctrl
      BY <1>0 DEF PollInv
    <3>2. image' \in Image /\ buffer' \in Buffer
      BY <1>2, TransferTypes DEF OperationCallback, CopyInv, KTypeOK, DiskTypeOK
    <3>3. ops' \in 0 .. MAX_OPS
      <4>1. ops \in 0 .. MAX_OPS /\ MAX_OPS \in Nat
        BY DiskAssumption DEF CopyInv, KTypeOK, DiskTypeOK
      <4>2. ops > 0 /\ ops' = ops - 1
        BY <1>2 DEF OperationCallback
      <4>. QED
        BY <4>1, <4>2
    <3>4. irq' \in BOOLEAN
      BY <1>2 DEF OperationCallback, CopyInv, KTypeOK, DiskTypeOK
    <3>. QED
      BY <1>2, <3>1, <3>2, <3>3, <3>4 DEF OperationCallback, CopyInv, KTypeOK, DiskTypeOK, dregs
  <2>2. KTypeOK'
    BY <2>1 DEF CopyInv, KTypeOK, Callback, kvars
  <2>3. pc = "poll done" /\ sct = request.sct + count /\ request.cmd \in {"r", "w"}
        /\ UNCHANGED <<pc, request, count, mem, cap, cnt, sct>>
    BY <1>2, OperationResult DEF CopyInv, TransferInv, Transferring, Callback, kvars,
                                 OperationCallback, dregs
  <2>. QED
    BY <1>0, <1>2, <2>2, <2>3, OperationResult DEF CopyInv, TransferInv, Transferring
<1>. QED
  BY <1>1, <1>2 DEF Callback

LEMMA CapCopyInv == CopyInv /\ (CallCap \/ Cap) => CopyInv'
<1>. SUFFICES ASSUME CopyInv, CallCap \/ Cap PROVE CopyInv'
  OBVIOUS
<1>1. UNCHANGED <<dvars, request, count, result, mem>> /\ request = None
  BY DEF CallCap, Cap, PollReady, GetCapacity, CopyInv, TransferInv
<1>2. DiskTypeOK'
  BY <1>1 DEF CopyInv, KTypeOK, DiskTypeOK, dvars, dregs
<1>3. retries' \in 0 .. RETRIES /\ capacity' \in {0, TOTAL}
  <2>1. retries \in 0 .. RETRIES /\ RETRIES \in Nat /\ RETRIES # 0
    BY DriverAssumption DEF CopyInv, KTypeOK
  <2>2. capacity \in {0, TOTAL} /\ cap \in {0, TOTAL}
    BY DEF CopyInv, KTypeOK, DiskTypeOK
  <2>3. CASE CallCap
    <3>1. RETRIES \in 0 .. RETRIES
      BY <2>1
    <3>. QED
      BY <2>2, <2>3, <3>1 DEF CallCap
  <2>4. CASE PollReady
    <3>1. retries # 0
      BY <2>4 DEF PollReady, CopyInv, TransferInv
    <3>2. retries - 1 \in 0 .. RETRIES
      BY <2>1, <3>1
    <3>. QED
      BY <2>1, <2>2, <2>4, <3>2 DEF PollReady
  <2>5. CASE GetCapacity
    BY <2>1, <2>2, <2>5 DEF GetCapacity
  <2>. QED
    BY <2>3, <2>4, <2>5 DEF Cap
<1>4. PollInv'
  BY StepPollInv DEF CopyInv, KNext
<1>5. request = None /\ pc' \in {"poll ready", "get capacity", "idle", "no disk"}
      /\ (pc' = "idle" => cap # 0) /\ (pc' = "poll ready" => retries' # 0)
  <2>1. CASE CallCap
    BY <1>1, <2>1, DriverAssumption DEF CallCap
  <2>2. CASE PollReady
    <3>0. retries \in 0 .. RETRIES /\ RETRIES \in Nat
      BY DriverAssumption DEF CopyInv, KTypeOK
    <3>1. retries # 0
      BY <2>2 DEF PollReady, CopyInv, TransferInv
    <3>4. retries - 1 \in Nat /\ (retries # 1 => retries - 1 # 0)
      BY <3>0, <3>1
    <3>3. \/ pc' = "get capacity" \/ pc' = "no disk"
          \/ pc' = "poll ready" /\ (retries' = retries \/ (retries' = retries - 1 /\ retries # 1))
      BY <2>2 DEF PollReady, LastTry
    <3>. QED
      BY <1>1, <3>1, <3>3, <3>4
  <2>3. CASE GetCapacity
    BY <1>1, <2>3 DEF GetCapacity
  <2>. QED
    BY <2>1, <2>2, <2>3 DEF Cap
<1>6. TransferInv'
  BY <1>1, <1>5 DEF CopyInv, TransferInv, Transferring, dvars, dregs
<1>7. KTypeOK'
  BY <1>1, <1>2, <1>3, <1>5 DEF CopyInv, KTypeOK
<1>. QED
  BY <1>4, <1>6, <1>7 DEF CopyInv

\* Starting and ending a call leaves the controller alone.
LEMMA ReturnCopyInv ==
  ASSUME CopyInv, NEW r \in {"ok", "error"}, ReturnWith(r), UNCHANGED dvars, request # None,
         pc = "poll done" => ctrl.done
  PROVE  CopyInv'
<1>1. pc' = "idle" /\ request' = None /\ count' = 0 /\ result' \in {"none", "ok", "error"}
      /\ UNCHANGED <<retries, capacity, mem>>
  BY DEF ReturnWith
<1>2. cap # 0
  BY DEF CopyInv, TransferInv, Transferring, KTypeOK
<1>3. KTypeOK'
  BY <1>1 DEF CopyInv, KTypeOK, DiskTypeOK, dvars, dregs
<1>4. PollInv'
  BY <1>1 DEF CopyInv, PollInv, NeverDisturbed, dvars
<1>5. TransferInv'
  BY <1>1, <1>2 DEF TransferInv, Transferring, dvars, dregs
<1>. QED
  BY <1>3, <1>4, <1>5 DEF CopyInv

LEMMA CallIoCopyInv ==
  ASSUME CopyInv, NEW r \in Request, CallIo(r)
  PROVE  CopyInv'
<1>1. r # None /\ r.n \in Nat
  BY DriverAssumption DEF None
<1>2. pc' \in {"next", "illegal"} /\ (pc' = "next" <=> r.cmd \in {"r", "w"})
      /\ request' = r /\ count' = 0 /\ result' = "none" /\ cap # 0
      /\ UNCHANGED <<dvars, retries, capacity, mem>>
  BY DEF CallIo, CopyInv, TransferInv
<1>3. KTypeOK'
  BY <1>2 DEF CopyInv, KTypeOK, DiskTypeOK, dvars, dregs
<1>4. PollInv'
  BY StepPollInv DEF CopyInv, KNext
<1>5. TransferInv'
  <2>1. 0 <= r.n /\ request' # None
    BY <1>1, <1>2
  <2>. QED
    BY <1>2, <2>1 DEF TransferInv, Transferring, dvars, dregs
<1>. QED
  BY <1>3, <1>4, <1>5 DEF CopyInv

\* A sector is set up: buffer, count register, sector register, control register.
LEMMA NextSectorCopyInv ==
  ASSUME CopyInv, NextSector
  PROVE  CopyInv'
<1>. /\ DiskTypeOK /\ KTypeOK /\ PollInv /\ TransferInv /\ Transferring
  BY DEF CopyInv, KTypeOK, NextSector, Transferring
<1>1. PollInv'
  BY StepPollInv DEF KNext, Io
<1>2. pc = "next" /\ count # request.n /\ pc' = "set count"
      /\ UNCHANGED <<image, ctrl, dregs, startup, ops, irq>>
      /\ UNCHANGED <<retries, capacity, request, count, result, mem>>
      /\ buffer' = IF request.cmd = "w" THEN [buffer EXCEPT ![0] = mem[request.addr + count]]
                                       ELSE buffer
  BY DEF NextSector, WriteBuffer, dvars
<1>3. count < request.n /\ request.addr + count \in Location
  <2>1. count \in Nat /\ request.n \in Nat
    BY RequestTypes
  <2>2. count <= request.n /\ count # request.n
    BY <1>2 DEF TransferInv
  <2>3. count < request.n
    BY <2>1, <2>2
  <2>. QED
    BY <2>3, RequestTypes
<1>4. 0 \in 0 .. BUF_SCTS - 1 /\ buffer \in [0 .. BUF_SCTS - 1 -> Data]
      /\ mem[request.addr + count] \in Data
  <2>1. 0 \in 0 .. BUF_SCTS - 1
    BY DiskAssumption
  <2>. QED
    BY <1>3, <2>1 DEF DiskTypeOK, Buffer, KTypeOK
<1>5. buffer' \in Buffer /\ (request.cmd = "w" => buffer'[0] = mem[request.addr + count])
  BY <1>2, <1>4 DEF Buffer
<1>6. KTypeOK'
  BY <1>2, <1>5 DEF KTypeOK, DiskTypeOK, dregs
<1>7. TransferInv'
  BY <1>2, <1>3, <1>5 DEF TransferInv, Transferring, dregs
<1>. QED
  BY <1>1, <1>6, <1>7 DEF CopyInv

LEMMA SetUpCopyInv ==
  ASSUME CopyInv, SetCount \/ SetSector
  PROVE  CopyInv'
<1>. /\ DiskTypeOK /\ KTypeOK /\ PollInv /\ TransferInv /\ Transferring
  BY DEF CopyInv, KTypeOK, SetCount, SetSector, Transferring
<1>1. PollInv'
  BY StepPollInv DEF KNext, Io
<1>2. UNCHANGED <<image, buffer, ctrl, cap, startup, ops, irq>>
      /\ UNCHANGED <<retries, capacity, request, count, result, mem>>
  BY DEF SetCount, SetSector, WriteCnt, WriteSct
<1>3. request.sct + count \in Sct
  BY RequestTypes DEF TransferInv, SetCount, SetSector
<1>4. \/ pc = "set count" /\ pc' = "set sector" /\ cnt' = 1 /\ UNCHANGED sct
      \/ pc = "set sector" /\ pc' = "start command" /\ UNCHANGED cnt
         /\ sct' = request.sct + count
  BY DEF SetCount, SetSector, WriteCnt, WriteSct
<1>5. cnt' \in Cnt /\ sct' \in Sct
  BY <1>3, <1>4, DriverAssumption DEF DiskTypeOK
<1>6. KTypeOK'
  BY <1>2, <1>4, <1>5 DEF KTypeOK, DiskTypeOK
<1>7. TransferInv'
  BY <1>2, <1>4 DEF TransferInv, Transferring
<1>. QED
  BY <1>1, <1>6, <1>7 DEF CopyInv

LEMMA StartCommandCopyInv ==
  ASSUME CopyInv, StartCommand
  PROVE  CopyInv'
<1>. /\ DiskTypeOK /\ KTypeOK /\ PollInv /\ TransferInv /\ Transferring
  BY DEF CopyInv, KTypeOK, StartCommand, Transferring
<1>. DEFINE c == [ctrl EXCEPT !.wrt = (request.cmd = "w"), !.ien = FALSE]
<1>1. PollInv'
  BY StepPollInv DEF KNext, Io
<1>2. pc = "start command" /\ pc' = "poll done" /\ ctrl' = Restarted(c)
      /\ irq' = Asserted(ctrl') /\ UNCHANGED <<image, buffer, dregs, startup>>
      /\ UNCHANGED <<retries, capacity, request, count, result, mem>>
  BY DEF StartCommand, WriteCtrl
<1>3. c \in Ctrl /\ (c.wrt <=> request.cmd = "w")
  BY DEF DiskTypeOK, Ctrl
<1>. HIDE DEF c
<1>4. ctrl' \in Ctrl /\ ~ctrl'.err /\ ~ctrl'.done /\ (ctrl'.wrt <=> request.cmd = "w")
  BY <1>2, <1>3 DEF Restarted, Ctrl
<1>5. irq' \in BOOLEAN
  BY <1>2, <1>4 DEF Asserted
<1>6. ops' \in 0 .. MAX_OPS
  <2>1. MAX_OPS \in Nat /\ MAX_OPS # 0
    BY DiskAssumption
  <2>2. ops' \in {0, 1}
    BY <1>1 DEF PollInv
  <2>. QED
    BY <2>1, <2>2
<1>7. KTypeOK'
  BY <1>2, <1>4, <1>5, <1>6 DEF KTypeOK, DiskTypeOK, dregs
<1>8. TransferInv'
  BY <1>2, <1>4 DEF TransferInv, Transferring, dregs
<1>. QED
  BY <1>1, <1>7, <1>8 DEF CopyInv

LEMMA DoneWellCopyInv ==
  ASSUME CopyInv, DoneWell
  PROVE  CopyInv'
<1>. /\ DiskTypeOK /\ KTypeOK /\ PollInv /\ TransferInv /\ Transferring
  BY DEF CopyInv, KTypeOK, DoneWell, Transferring
<1>1. PollInv'
  BY StepPollInv DEF KNext, Io
<1>2. pc = "poll done" /\ ctrl.done /\ ~ctrl.err
      /\ UNCHANGED <<dvars, retries, capacity, request, result, mem>>
      /\ \/ request.cmd = "w" /\ count' = count + 1 /\ pc' = "next"
         \/ request.cmd # "w" /\ pc' = "copy" /\ UNCHANGED count
  BY DEF DoneWell
<1>3. count < request.n /\ count \in Nat /\ request.n \in Nat
  BY <1>2, RequestTypes DEF TransferInv
<1>4. count + 1 \in Nat /\ count + 1 <= request.n
  BY <1>3
<1>5. request.cmd \in {"r", "w"} /\ request.sct + count \in 0 .. TOTAL - 1
      /\ (request.cmd = "r" => buffer[0] = image[request.sct + count])
  BY <1>2 DEF TransferInv, Transferring
<1>6. KTypeOK'
  BY <1>2, <1>4 DEF KTypeOK, DiskTypeOK, dvars, dregs
<1>7. TransferInv'
  BY <1>2, <1>3, <1>4, <1>5 DEF TransferInv, Transferring, dvars, dregs
<1>. QED
  BY <1>1, <1>6, <1>7 DEF CopyInv

LEMMA CopyCopyInv ==
  ASSUME CopyInv, Copy
  PROVE  CopyInv'
<1>. /\ DiskTypeOK /\ KTypeOK /\ PollInv /\ TransferInv /\ Transferring
  BY DEF CopyInv, KTypeOK, Copy, Transferring
<1>1. PollInv'
  BY StepPollInv DEF KNext, Io
<1>2. pc = "copy" /\ pc' = "next" /\ count' = count + 1
      /\ mem' = [mem EXCEPT ![request.addr + count] = buffer[0]]
      /\ UNCHANGED <<dvars, retries, capacity, request, result>>
  BY DEF Copy
<1>3. count < request.n /\ count \in Nat /\ request.n \in Nat
  BY <1>2, RequestTypes DEF TransferInv
<1>4. count + 1 \in Nat /\ count + 1 <= request.n
  BY <1>3
<1>5. mem' \in [Location -> Data]
  <2>1. 0 \in 0 .. BUF_SCTS - 1 /\ buffer \in [0 .. BUF_SCTS - 1 -> Data]
    BY DiskAssumption DEF DiskTypeOK, Buffer
  <2>. QED
    BY <1>2, <2>1 DEF KTypeOK
<1>6. KTypeOK'
  BY <1>2, <1>4, <1>5 DEF KTypeOK, DiskTypeOK, dvars, dregs
<1>7. TransferInv'
  BY <1>2, <1>4 DEF TransferInv, Transferring, dvars, dregs
<1>. QED
  BY <1>1, <1>6, <1>7 DEF CopyInv

LEMMA StepCopyInv == CopyInv /\ [KNext]_allvars => CopyInv'
<1>. SUFFICES ASSUME CopyInv, [KNext]_allvars PROVE CopyInv'
  OBVIOUS
<1>1. CASE PollDone \/ UNCHANGED allvars
  <2>1. UNCHANGED <<dvars, kvars>>
    BY <1>1 DEF PollDone, allvars
  <2>2. KTypeOK'
    BY <2>1 DEF kvars, dvars, dregs, CopyInv, KTypeOK, DiskTypeOK
  <2>3. PollInv'
    BY StepPollInv DEF CopyInv
  <2>4. TransferInv'
    BY <2>1 DEF kvars, dvars, dregs, CopyInv, TransferInv, Transferring
  <2>. QED
    BY <2>2, <2>3, <2>4 DEF CopyInv
<1>2. CASE Illegal \/ NoMoreSectors \/ DoneWithError
  <2>1. request # None /\ (pc = "poll done" => ctrl.done) /\ UNCHANGED dvars
    BY <1>2 DEF Illegal, NoMoreSectors, DoneWithError, CopyInv, TransferInv, KTypeOK
  <2>2. ReturnWith("ok") \/ ReturnWith("error")
    BY <1>2 DEF Illegal, NoMoreSectors, DoneWithError
  <2>. QED
    BY <2>1, <2>2, ReturnCopyInv
<1>. QED
  BY <1>1, <1>2, CallbackCopyInv, CapCopyInv, CallIoCopyInv, NextSectorCopyInv, SetUpCopyInv,
     StartCommandCopyInv, DoneWellCopyInv, CopyCopyInv DEF KNext, Io

LEMMA CopyInvariant == KSpec => []CopyInv
BY InitCopyInv, StepCopyInv, PTL DEF KSpec

\* Type correctness of the driver: its count of polls never passes zero, and it
\* copies only between locations of memory and sectors of the disk.
THEOREM DriverTypeCorrect == KSpec => []KTypeOK
BY CopyInvariant, PTL DEF CopyInv

\* The refinement: which step of the driver or the controller copies a sector.
LEMMA InitBlock == KInit => Block!Init
<1>. SUFFICES ASSUME KInit PROVE Block!Init
  OBVIOUS
<1>1. Transferred = 0
  BY DEF KInit, Transferred
<1>. QED
  BY <1>1 DEF KInit, DiskInit, Image, Block!Init, Block!None, None

LEMMA TransferredIs ==
  ASSUME CopyInv
  PROVE  Transferred = IF pc = "poll done" /\ request.cmd = "w" /\ ctrl.done /\ ~ctrl.err
                       THEN count + 1 ELSE count
<1>1. count \in Nat
  BY DEF CopyInv, KTypeOK
<1>2. count + 0 = count
  BY <1>1
<1>. QED
  BY <1>2 DEF Transferred

\* The callback of a write is the transfer; that of a read only fills the buffer.
LEMMA CallbackBlock ==
  ASSUME CopyInv, CopyInv', Callback
  PROVE  [Block!Next]_(Block!vars)
<1>. /\ KTypeOK /\ TransferInv
  BY DEF CopyInv
<1>1. UNCHANGED <<pc, request, count, result, mem>>
  BY DEF Callback, kvars
<1>2. CASE StartupCallback
  <2>1. ctrl'.done = ctrl.done /\ ctrl'.err = ctrl.err /\ UNCHANGED image
    BY <1>2 DEF StartupCallback, CopyInv, PollInv, Ctrl
  <2>2. UNCHANGED Transferred
    BY <1>1, <2>1 DEF Transferred
  <2>. QED
    BY <1>1, <2>1, <2>2 DEF Block!vars
<1>3. CASE OperationCallback
  <2>1. pc = "poll done" /\ ~ctrl.done /\ ctrl'.done /\ sct = request.sct + count
        /\ Transferring /\ request.cmd \in {"r", "w"} /\ count < request.n
    BY <1>3, OperationResult DEF TransferInv, Transferring
  <2>2. /\ sct \in 0 .. TOTAL - 1 =>
             /\ ~ctrl'.err
             /\ image' = IF request.cmd = "w" THEN [image EXCEPT ![sct] = buffer[0]] ELSE image
        /\ sct \notin 0 .. TOTAL - 1 => ctrl'.err /\ UNCHANGED image
    BY <1>3, OperationResult
  <2>3. Transferred = count
    BY <2>1, TransferredIs
  <2>4. CASE request.cmd = "w" /\ sct \in 0 .. TOTAL - 1
    <3>1. Transferred' = count + 1
      BY <1>1, <2>1, <2>2, <2>4 DEF Transferred
    <3>2. buffer[0] = mem[request.addr + count]
      BY <2>1, <2>4 DEF TransferInv
    <3>3. image' = [image EXCEPT ![request.sct + count] = mem[request.addr + count]]
      BY <2>1, <2>2, <2>4, <3>2
    <3>4. request.cmd # "r"
      BY <2>4
    <3>5. Block!Transfer
      BY <1>1, <2>1, <2>3, <2>4, <3>1, <3>3, <3>4 DEF Block!Transfer
    <3>. QED
      BY <3>5 DEF Block!Next
  <2>5. CASE ~(request.cmd = "w" /\ sct \in 0 .. TOTAL - 1)
    <3>1. UNCHANGED image /\ (request.cmd = "w" => ctrl'.err)
      BY <2>1, <2>2, <2>5
    <3>2. Transferred' = count + 0
      BY <1>1, <3>1 DEF Transferred
    <3>3. count + 0 = count
      <4>1. count \in Nat
        BY DEF KTypeOK
      <4>. QED
        BY <4>1
    <3>. QED
      BY <1>1, <2>3, <3>1, <3>2, <3>3 DEF Block!vars
  <2>. QED
    BY <2>4, <2>5
<1>. QED
  BY <1>2, <1>3 DEF Callback

LEMMA CallBlock ==
  ASSUME CopyInv, NEW r \in Request, CallIo(r)
  PROVE  Block!Next
<1>1. pc = "idle" /\ request = None /\ request' = r /\ count' = 0 /\ result' = "none"
      /\ pc' # "poll done" /\ UNCHANGED <<image, mem>>
  BY DEF CallIo, CopyInv, TransferInv, dvars
<1>2. Transferred' = 0
  <2>1. Transferred' = 0 + 0
    BY <1>1 DEF Transferred
  <2>. QED
    BY <2>1
<1>3. Block!Call(r)
  BY <1>1, <1>2 DEF Block!Call, Block!None, None
<1>. QED
  BY <1>3 DEF Block!Next

LEMMA ReturnBlock ==
  ASSUME CopyInv, Illegal \/ NoMoreSectors \/ DoneWithError
  PROVE  Block!Next
<1>. /\ KTypeOK /\ TransferInv
  BY DEF CopyInv
<1>1. /\ request # None /\ request' = None /\ count' = 0 /\ pc' = "idle"
      /\ UNCHANGED <<image, mem>>
  BY DEF Illegal, NoMoreSectors, DoneWithError, ReturnWith, TransferInv, dvars
<1>2. Transferred' = 0
  BY <1>1 DEF Transferred
<1>3. CASE Illegal
  <2>1. request.cmd \notin {"r", "w"} /\ result' = "error"
    BY <1>3 DEF Illegal, ReturnWith, TransferInv
  <2>2. Block!Return("error")
    BY <1>1, <1>2, <2>1 DEF Block!Return, Block!None, None
  <2>. QED
    BY <2>2 DEF Block!Next
<1>4. CASE NoMoreSectors
  <2>1. request.cmd \in {"r", "w"} /\ result' = "ok" /\ count = request.n /\ pc = "next"
    BY <1>4 DEF NoMoreSectors, ReturnWith, TransferInv, Transferring
  <2>2. Transferred = request.n
    BY <2>1, TransferredIs
  <2>3. Block!Return("ok")
    BY <1>1, <1>2, <2>1, <2>2 DEF Block!Return, Block!None, None
  <2>. QED
    BY <2>3 DEF Block!Next
<1>5. CASE DoneWithError
  <2>1. result' = "error" /\ pc = "poll done" /\ ctrl.done /\ ctrl.err
    BY <1>5 DEF DoneWithError, ReturnWith
  <2>2. Transferred = count /\ count < request.n /\ request.sct + count \notin 0 .. TOTAL - 1
    BY <2>1, TransferredIs DEF TransferInv, Transferring
  <2>3. Block!Return("error")
    BY <1>1, <1>2, <2>1, <2>2 DEF Block!Return, Block!None, None
  <2>. QED
    BY <2>3 DEF Block!Next
<1>. QED
  BY <1>3, <1>4, <1>5

LEMMA CopyBlock ==
  ASSUME CopyInv, Copy
  PROVE  Block!Next
<1>1. pc = "copy" /\ pc' = "next" /\ count' = count + 1
      /\ mem' = [mem EXCEPT ![request.addr + count] = buffer[0]]
      /\ UNCHANGED <<image, request, result>>
  BY DEF Copy, dvars
<1>2. /\ request.cmd = "r" /\ request.sct + count \in 0 .. TOTAL - 1 /\ count < request.n
      /\ buffer[0] = image[request.sct + count]
  BY <1>1 DEF CopyInv, TransferInv, Transferring
<1>3. Transferred = count
  BY <1>1, TransferredIs
<1>4. Transferred' = count' + 0 /\ count \in Nat
  BY <1>1 DEF Transferred, CopyInv, KTypeOK
<1>5. Transferred' = Transferred + 1
  BY <1>1, <1>3, <1>4
<1>6. mem' = [mem EXCEPT ![request.addr + count] = image[request.sct + count]]
  BY <1>1, <1>2
<1>7. request.cmd # "w"
  BY <1>2
<1>8. Block!Transfer
  BY <1>1, <1>2, <1>3, <1>5, <1>6, <1>7 DEF Block!Transfer
<1>. QED
  BY <1>8 DEF Block!Next

\* The driver's other steps change nothing a caller sees.
LEMMA SilentBlock ==
  ASSUME CopyInv,
         \/ CallCap \/ Cap \/ PollDone \/ UNCHANGED allvars
         \/ NextSector \/ SetCount \/ SetSector \/ StartCommand \/ DoneWell
  PROVE  UNCHANGED Block!vars
<1>1. CASE CallCap \/ Cap
  <2>1. UNCHANGED <<image, mem, request, count, result>> /\ pc # "poll done" /\ pc' # "poll done"
    BY <1>1 DEF CallCap, Cap, PollReady, GetCapacity, dvars
  <2>. QED
    BY <2>1 DEF Transferred, Block!vars
<1>2. CASE PollDone \/ UNCHANGED allvars
  BY <1>2 DEF PollDone, allvars, kvars, dvars, Transferred, Block!vars
<1>3. CASE NextSector \/ SetCount \/ SetSector
  <2>1. UNCHANGED <<image, mem, request, count, result>> /\ pc # "poll done" /\ pc' # "poll done"
    BY <1>3 DEF NextSector, SetCount, SetSector, WriteBuffer, WriteCnt, WriteSct, dvars
  <2>. QED
    BY <2>1 DEF Transferred, Block!vars
<1>4. CASE StartCommand
  <2>1. UNCHANGED <<image, mem, request, count, result>> /\ pc # "poll done" /\ ~ctrl'.done
    <3>. DEFINE c == [ctrl EXCEPT !.wrt = (request.cmd = "w"), !.ien = FALSE]
    <3>1. c \in Ctrl
      BY DEF CopyInv, PollInv, Ctrl
    <3>2. ctrl' = Restarted(c)
      BY <1>4 DEF StartCommand, WriteCtrl
    <3>. HIDE DEF c
    <3>. QED
      BY <1>4, <3>1, <3>2 DEF StartCommand, WriteCtrl, Restarted, Ctrl
  <2>. QED
    BY <2>1 DEF Transferred, Block!vars
<1>5. CASE DoneWell
  <2>1. pc = "poll done" /\ ctrl.done /\ ~ctrl.err /\ UNCHANGED <<image, mem, request, result>>
        /\ pc' # "poll done" /\ count' = IF request.cmd = "w" THEN count + 1 ELSE count
    BY <1>5 DEF DoneWell, dvars
  <2>2. Transferred = count' /\ count' \in Nat
    <3>1. count \in Nat
      BY DEF CopyInv, KTypeOK
    <3>2. count + 1 \in Nat
      BY <3>1
    <3>3. Transferred = count'
      BY <2>1, TransferredIs
    <3>. QED
      BY <2>1, <3>1, <3>2, <3>3
  <2>3. Transferred' = count' + 0
    BY <2>1 DEF Transferred
  <2>4. count' + 0 = count'
    <3>1. \A n \in Nat : n + 0 = n
      OBVIOUS
    <3>. QED
      BY <2>2, <3>1
  <2>5. Transferred' = Transferred
    BY <2>2, <2>3, <2>4
  <2>. QED
    BY <2>1, <2>5 DEF Block!vars
<1>. QED
  BY <1>1, <1>2, <1>3, <1>4, <1>5

LEMMA StepBlock == CopyInv /\ CopyInv' /\ [KNext]_allvars => [Block!Next]_(Block!vars)
BY CallbackBlock, CallBlock, ReturnBlock, CopyBlock, SilentBlock DEF KNext, Io

\* Polling driver and controller together implement a block device, for every
\* disk, memory and set of requests: each sector asked for is copied once and in
\* order, nothing else is, and the result is truthful.
THEOREM DriverIsBlockDevice == KSpec => ImplementsBlockDevice
BY InitBlock, StepBlock, CopyInvariant, PTL DEF KSpec, ImplementsBlockDevice, Block!Spec
=============================================================================

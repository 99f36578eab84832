----------------------------- MODULE SerialProofs -----------------------------
(***************************************************************************)
(* Proofs about the serial lines, from the device up: the lines under      *)
(* arbitrary software, the ROM monitor's polling driver for one of them,   *)
(* and the disk at the end of one, its driver and its server.  They hold   *)
(* for any number of lines, characters, sectors and requests and any       *)
(* bound on the timers, the line's queue and the kills.                    *)
(***************************************************************************)
EXTENDS SerialDriver, SerialDisk, SequenceTheorems, TLAPS

DevInv == STypeOK /\ IrqIsRdyAndIen /\ BusyIsScheduled

-------------------------------------------------------------------------------
(* The device under arbitrary software *)

LEMMA NoCharIsChar == NoChar \in Char
BY SerialAssumption DEF NoChar

LEMMA InitDevInv == SInit => DevInv
<1>1. SUFFICES ASSUME SInit PROVE DevInv
  OBVIOUS
<1>2. rcvr \in [Dev -> Registers] /\ xmtr \in [Dev -> Registers]
  BY <1>1, NoCharIsChar DEF SInit, RcvrReset, XmtrReset, Registers
<1>3. \A d \in Dev : ~rcvr[d].ien /\ ~xmtr[d].ien /\ xmtr[d].rdy
  BY <1>1 DEF SInit, RcvrReset, XmtrReset
<1>. QED
  BY <1>1, <1>2, <1>3, SerialAssumption
     DEF SInit, NoTimers, DevInv, STypeOK, IrqIsRdyAndIen, BusyIsScheduled

LEMMA ResetDevInv == ASSUME SReset PROVE DevInv'
<1>1. rcvr' \in [Dev -> Registers] /\ xmtr' \in [Dev -> Registers]
  BY NoCharIsChar DEF SReset, RcvrReset, XmtrReset, Registers
<1>2. \A d \in Dev : ~rcvr'[d].ien /\ ~xmtr'[d].ien /\ xmtr'[d].rdy
  BY DEF SReset, RcvrReset, XmtrReset
<1>. QED
  BY <1>1, <1>2, SerialAssumption
     DEF SReset, NoTimers, DevInv, STypeOK, IrqIsRdyAndIen, BusyIsScheduled

\* The two lines of a device, and those of different devices, are different.
LEMMA LinesDiffer ==
  ASSUME NEW d, NEW e
  PROVE  /\ RCVR(d) # XMTR(e)
         /\ RCVR(d) = RCVR(e) => d = e
         /\ XMTR(d) = XMTR(e) => d = e
BY DEF RCVR, XMTR

\* A step that changes the receiver registers of d and its line consistently.
LEMMA ReceiverStep ==
  ASSUME DevInv, NEW d \in Dev, NEW r \in Registers,
         rcvr' = [rcvr EXCEPT ![d] = r],
         UNCHANGED <<xmtr, xmtrTimers>>,
         irqPending' \in {irqPending \cup {RCVR(d)}, irqPending \ {RCVR(d)}, irqPending},
         RCVR(d) \in irqPending' <=> r.rdy /\ r.ien
  PROVE  DevInv'
<1>1. rcvr' \in [Dev -> Registers] /\ rcvr'[d] = r
  BY DEF DevInv, STypeOK
<1>2. \A e \in Dev : e # d => rcvr'[e] = rcvr[e]
  BY DEF DevInv, STypeOK
<1>3. irqPending' \subseteq IrqLine
  BY DEF DevInv, STypeOK, IrqLine, RCVR
<1>4. ASSUME NEW e \in Dev
      PROVE  /\ RCVR(e) \in irqPending' <=> rcvr'[e].rdy /\ rcvr'[e].ien
             /\ XMTR(e) \in irqPending' <=> xmtr'[e].rdy /\ xmtr'[e].ien
  <2>1. XMTR(e) \in irqPending' <=> XMTR(e) \in irqPending
    BY LinesDiffer
  <2>2. e # d => (RCVR(e) \in irqPending' <=> RCVR(e) \in irqPending)
    BY LinesDiffer
  <2>. QED
    BY <1>1, <1>2, <2>1, <2>2 DEF DevInv, IrqIsRdyAndIen
<1>. QED
  BY <1>1, <1>3, <1>4 DEF DevInv, STypeOK, IrqIsRdyAndIen, BusyIsScheduled

\* The same of the transmitter, whose timers may change too.
LEMMA TransmitterStep ==
  ASSUME DevInv, NEW d \in Dev, NEW r \in Registers, NEW n \in 0 .. MAX_TIMERS,
         xmtr' = [xmtr EXCEPT ![d] = r],
         xmtrTimers' = [xmtrTimers EXCEPT ![d] = n],
         ~r.rdy => n > 0,
         UNCHANGED rcvr,
         irqPending' \in {irqPending \cup {XMTR(d)}, irqPending \ {XMTR(d)}, irqPending},
         XMTR(d) \in irqPending' <=> r.rdy /\ r.ien
  PROVE  DevInv'
<1>1. /\ xmtr' \in [Dev -> Registers] /\ xmtr'[d] = r
      /\ xmtrTimers' \in [Dev -> 0 .. MAX_TIMERS] /\ xmtrTimers'[d] = n
  BY DEF DevInv, STypeOK
<1>2. \A e \in Dev : e # d => xmtr'[e] = xmtr[e] /\ xmtrTimers'[e] = xmtrTimers[e]
  BY DEF DevInv, STypeOK
<1>3. irqPending' \subseteq IrqLine
  BY DEF DevInv, STypeOK, IrqLine, XMTR
<1>4. ASSUME NEW e \in Dev
      PROVE  /\ RCVR(e) \in irqPending' <=> rcvr'[e].rdy /\ rcvr'[e].ien
             /\ XMTR(e) \in irqPending' <=> xmtr'[e].rdy /\ xmtr'[e].ien
  <2>1. RCVR(e) \in irqPending' <=> RCVR(e) \in irqPending
    BY LinesDiffer
  <2>2. e # d => (XMTR(e) \in irqPending' <=> XMTR(e) \in irqPending)
    BY LinesDiffer
  <2>. QED
    BY <1>1, <1>2, <2>1, <2>2 DEF DevInv, IrqIsRdyAndIen
<1>5. BusyIsScheduled'
  BY <1>1, <1>2 DEF DevInv, BusyIsScheduled
<1>. QED
  BY <1>1, <1>3, <1>4, <1>5 DEF DevInv, STypeOK, IrqIsRdyAndIen

LEMMA CallbackInv ==
  ASSUME DevInv, NEW d \in Dev, Callbacks(d)
  PROVE  DevInv'
<1>1. rcvr[d] \in Registers /\ xmtr[d] \in Registers
  BY DEF DevInv, STypeOK
<1>2. /\ RCVR(d) \in irqPending <=> rcvr[d].rdy /\ rcvr[d].ien
      /\ XMTR(d) \in irqPending <=> xmtr[d].rdy /\ xmtr[d].ien
  BY DEF DevInv, IrqIsRdyAndIen
<1>3. CASE XmtrCallback(d)
  <2>. DEFINE r == [xmtr[d] EXCEPT !.rdy = TRUE]
              n == xmtrTimers[d] - 1
  <2>1. r \in Registers /\ r.rdy /\ r.ien = xmtr[d].ien
    BY <1>1 DEF Registers
  <2>2. n \in 0 .. MAX_TIMERS
    BY <1>3, SerialAssumption DEF XmtrCallback, DevInv, STypeOK
  <2>3. /\ xmtr' = [xmtr EXCEPT ![d] = r] /\ xmtrTimers' = [xmtrTimers EXCEPT ![d] = n]
        /\ UNCHANGED rcvr
        /\ irqPending' = IF xmtr[d].ien THEN irqPending \cup {XMTR(d)} ELSE irqPending
    BY <1>3 DEF XmtrCallback, Finished, Raise
  <2>. HIDE DEF r, n
  <2>. QED
    BY <1>1, <1>2, <2>1, <2>2, <2>3, TransmitterStep DEF Registers
<1>4. CASE \E c \in Char : PollChar(d, c)
  <2>1. PICK c \in Char : PollChar(d, c)
    BY <1>4
  <2>. DEFINE r == Arrived(rcvr[d], c)
  <2>2. r \in Registers /\ r.rdy /\ r.ien = rcvr[d].ien
    BY <1>1 DEF Registers, Arrived
  <2>3. /\ rcvr' = [rcvr EXCEPT ![d] = r] /\ UNCHANGED <<xmtr, xmtrTimers>>
        /\ irqPending' = IF rcvr[d].ien THEN irqPending \cup {RCVR(d)} ELSE irqPending
    BY <2>1 DEF PollChar, Raise
  <2>. HIDE DEF r
  <2>. QED
    BY <1>1, <1>2, <2>2, <2>3, ReceiverStep DEF Registers
<1>. QED
  BY <1>3, <1>4 DEF Callbacks

LEMMA AccessInv ==
  ASSUME DevInv, NEW d \in Dev, Accesses(d)
  PROVE  DevInv'
<1>1. /\ rcvr[d] \in Registers /\ xmtr[d] \in Registers
      /\ xmtrTimers[d] \in 0 .. MAX_TIMERS
      /\ xmtrTimers = [xmtrTimers EXCEPT ![d] = xmtrTimers[d]]
  BY DEF DevInv, STypeOK
<1>2. /\ RCVR(d) \in irqPending <=> rcvr[d].rdy /\ rcvr[d].ien
      /\ XMTR(d) \in irqPending <=> xmtr[d].rdy /\ xmtr[d].ien
      /\ ~xmtr[d].rdy => xmtrTimers[d] > 0
  BY DEF DevInv, IrqIsRdyAndIen, BusyIsScheduled
<1>3. CASE ReadRcvrData(d)
  <2>. DEFINE r == Taken(rcvr[d])
  <2>1. r \in Registers /\ ~r.rdy
    BY <1>1 DEF Registers, Taken
  <2>2. /\ rcvr' = [rcvr EXCEPT ![d] = r] /\ UNCHANGED <<xmtr, xmtrTimers>>
        /\ irqPending' = IF rcvr[d].ien THEN irqPending \ {RCVR(d)} ELSE irqPending
    BY <1>3 DEF ReadRcvrData, Lower
  <2>. HIDE DEF r
  <2>. QED
    BY <1>1, <1>2, <2>1, <2>2, ReceiverStep DEF Registers
<1>4. CASE \E ien \in BOOLEAN : WriteRcvrCtrl(d, ien)
  <2>1. PICK ien \in BOOLEAN : WriteRcvrCtrl(d, ien)
    BY <1>4
  <2>. DEFINE r == [rcvr[d] EXCEPT !.ien = ien]
  <2>2. r \in Registers /\ r.rdy = rcvr[d].rdy /\ r.ien = ien
    BY <1>1 DEF Registers
  <2>3. /\ rcvr' = [rcvr EXCEPT ![d] = r] /\ UNCHANGED <<xmtr, xmtrTimers>>
        /\ irqPending' = IF ien /\ rcvr[d].rdy
                           THEN irqPending \cup {RCVR(d)} ELSE irqPending \ {RCVR(d)}
    BY <2>1 DEF WriteRcvrCtrl, Assign
  <2>. HIDE DEF r
  <2>. QED
    BY <1>1, <1>2, <2>2, <2>3, ReceiverStep DEF Registers
<1>5. CASE \E ien \in BOOLEAN : WriteXmtrCtrl(d, ien)
  <2>1. PICK ien \in BOOLEAN : WriteXmtrCtrl(d, ien)
    BY <1>5
  <2>. DEFINE r == [xmtr[d] EXCEPT !.ien = ien]
  <2>2. r \in Registers /\ r.rdy = xmtr[d].rdy /\ r.ien = ien
    BY <1>1 DEF Registers
  <2>3. /\ xmtr' = [xmtr EXCEPT ![d] = r] /\ UNCHANGED <<rcvr, xmtrTimers>>
        /\ irqPending' = IF ien /\ xmtr[d].rdy
                           THEN irqPending \cup {XMTR(d)} ELSE irqPending \ {XMTR(d)}
    BY <2>1 DEF WriteXmtrCtrl, Assign
  <2>. HIDE DEF r
  <2>. QED
    BY <1>1, <1>2, <2>2, <2>3, TransmitterStep DEF Registers
<1>6. CASE \E c \in Char : WriteXmtrData(d, c)
  <2>1. PICK c \in Char : WriteXmtrData(d, c)
    BY <1>6
  <2>. DEFINE r == [xmtr[d] EXCEPT !.data = c, !.rdy = FALSE]
              n == xmtrTimers[d] + 1
  <2>2. r \in Registers /\ ~r.rdy /\ n \in 0 .. MAX_TIMERS /\ n > 0
    <3>1. r \in Registers /\ ~r.rdy
      BY <1>1 DEF Registers
    <3>2. xmtrTimers[d] < MAX_TIMERS
      BY <2>1 DEF WriteXmtrData
    <3>. HIDE DEF r
    <3>. QED
      BY <1>1, <3>1, <3>2, SerialAssumption
  <2>3. /\ xmtr' = [xmtr EXCEPT ![d] = r] /\ xmtrTimers' = [xmtrTimers EXCEPT ![d] = n]
        /\ UNCHANGED rcvr
        /\ irqPending' = IF xmtr[d].ien THEN irqPending \ {XMTR(d)} ELSE irqPending
    <3>1. xmtr' = [xmtr EXCEPT ![d].data = c, ![d].rdy = FALSE]
      BY <2>1 DEF WriteXmtrData
    <3>2. xmtr' = [xmtr EXCEPT ![d] = r]
      BY <1>1, <3>1 DEF DevInv, STypeOK
    <3>. QED
      BY <2>1, <3>2 DEF WriteXmtrData, Started, Lower
  <2>. HIDE DEF r, n
  <2>. QED
    BY <1>1, <1>2, <2>2, <2>3, TransmitterStep DEF Registers
<1>. QED
  BY <1>3, <1>4, <1>5, <1>6 DEF Accesses

LEMMA DevStepInv == DevInv /\ [SNext]_svars => DevInv'
<1>. SUFFICES ASSUME DevInv, [SNext]_svars
              PROVE  DevInv'
  OBVIOUS
<1>1. CASE \E d \in Dev : Callbacks(d)
  BY <1>1, CallbackInv
<1>2. CASE \E d \in Dev : Accesses(d)
  BY <1>2, AccessInv
<1>3. CASE SReset
  BY <1>3, ResetDevInv
<1>4. CASE UNCHANGED svars
  BY <1>4 DEF svars, DevInv, STypeOK, IrqIsRdyAndIen, BusyIsScheduled
<1>. QED
  BY <1>1, <1>2, <1>3, <1>4 DEF SNext

LEMMA DeviceInvariant == SInit /\ [][SNext]_svars => []DevInv
BY InitDevInv, DevStepInv, PTL

\* The interrupt lines of a serial line always equal ready and enabled, whatever
\* software does to its registers.
THEOREM SerialIrqIsExact == SSpec => []IrqIsRdyAndIen
BY DeviceInvariant, PTL DEF SSpec, DevInv

\* A transmitter that is not ready always has a timer that will make it ready.
THEOREM TransmitterNeverStuck == SSpec => []BusyIsScheduled
BY DeviceInvariant, PTL DEF SSpec, DevInv

-------------------------------------------------------------------------------
(* The polling driver *)

\* The transmitter is ready exactly if none of its timers is running, and the
\* driver stores a character only then.
OutInv ==
  /\ DevInv
  /\ arg \in Char
  /\ output \in Seq(Char) /\ sent \in Seq(Char)
  /\ xmtr[line].rdy <=> xmtrTimers[line] = 0
  /\ OneTimer
  /\ pc = "out: store" => xmtr[line].rdy
  /\ OutputIsWhatWasSent

LEMMA InitOutInv == PInit => OutInv
<1>1. SUFFICES ASSUME PInit PROVE OutInv
  OBVIOUS
<1>2. DevInv
  BY <1>1, InitDevInv DEF PInit
<1>3. xmtr[line].rdy /\ xmtrTimers[line] = 0
  BY <1>1, SerialDriverAssumption DEF PInit, SInit, XmtrReset, NoTimers
<1>. QED
  BY <1>1, <1>2, <1>3, NoCharIsChar
     DEF PInit, OutInv, OneTimer, OutputIsWhatWasSent

\* A step that touches neither the line's transmitter nor what was sent.
LEMMA OtherOutInv ==
  ASSUME OutInv, DevInv', arg' \in Char,
         xmtr'[line] = xmtr[line], xmtrTimers'[line] = xmtrTimers[line],
         UNCHANGED <<output, sent>>,
         pc' = "out: store" => xmtr[line].rdy
  PROVE  OutInv'
BY DEF OutInv, OneTimer, OutputIsWhatWasSent

LEMMA StoreOutInv ==
  ASSUME OutInv, OutStore
  PROVE  OutInv'
<1>1. /\ line \in Dev /\ xmtr[line].rdy /\ xmtrTimers[line] = 0 /\ arg \in Char
      /\ xmtr \in [Dev -> Registers] /\ xmtrTimers \in [Dev -> 0 .. MAX_TIMERS]
  BY SerialDriverAssumption DEF OutInv, OutStore, DevInv, STypeOK
<1>2. WriteXmtrData(line, arg)
  BY DEF OutStore
<1>3. DevInv'
  BY <1>1, <1>2, AccessInv DEF OutInv, Accesses
<1>4. xmtrTimers'[line] = 1
  BY <1>1, <1>2 DEF WriteXmtrData, Started
<1>5. ~xmtr'[line].rdy /\ xmtr'[line].data = arg
  <2>1. xmtr' = [xmtr EXCEPT ![line].data = arg, ![line].rdy = FALSE]
    BY <1>2 DEF WriteXmtrData
  <2>. QED
    BY <1>1, <2>1 DEF Registers
<1>6. output \in Seq(Char) /\ sent \in Seq(Char) /\ output = sent
  <2>1. output \in Seq(Char) /\ sent \in Seq(Char) /\ output \o <<>> = sent
    BY <1>1 DEF OutInv, OutputIsWhatWasSent
  <2>. QED
    BY <2>1, ConcatEmptySeq
<1>7. /\ output' = output /\ sent' = Append(sent, arg)
      /\ pc' = "idle" /\ arg' = arg
  BY DEF OutStore
<1>8. Append(sent, arg) = sent \o <<arg>> /\ Append(sent, arg) \in Seq(Char)
  BY <1>1, <1>6
<1>. QED
  BY <1>1, <1>3, <1>4, <1>5, <1>6, <1>7, <1>8
     DEF OutInv, OneTimer, OutputIsWhatWasSent

LEMMA OutputOutInv ==
  ASSUME OutInv, Output
  PROVE  OutInv'
<1>1. /\ line \in Dev /\ xmtrTimers[line] = 1 /\ arg \in Char
      /\ xmtr \in [Dev -> Registers] /\ xmtrTimers \in [Dev -> 0 .. MAX_TIMERS]
      /\ output \in Seq(Char) /\ sent \in Seq(Char)
      /\ xmtr[line].data \in Char
      /\ output \o <<xmtr[line].data>> = sent
  <2>1. /\ line \in Dev /\ arg \in Char
        /\ xmtr \in [Dev -> Registers] /\ xmtrTimers \in [Dev -> 0 .. MAX_TIMERS]
        /\ output \in Seq(Char) /\ sent \in Seq(Char)
    BY SerialDriverAssumption DEF OutInv, DevInv, STypeOK
  <2>2. xmtr[line].data \in Char
    BY <2>1 DEF Registers
  <2>3. xmtrTimers[line] > 0 /\ xmtrTimers[line] <= 1
    BY DEF Output, XmtrCallback, OutInv, OneTimer
  <2>4. xmtrTimers[line] = 1
    BY <2>1, <2>3, SerialAssumption
  <2>5. output \o <<xmtr[line].data>> = sent
    BY <2>3 DEF OutInv, OutputIsWhatWasSent
  <2>. QED
    BY <2>1, <2>2, <2>4, <2>5
<1>2. XmtrCallback(line)
  BY DEF Output
<1>3. DevInv'
  BY <1>1, <1>2, CallbackInv DEF OutInv, Callbacks
<1>4. xmtrTimers'[line] = 0
  BY <1>1, <1>2 DEF XmtrCallback
<1>5. xmtr'[line].rdy
  BY <1>1, <1>2 DEF XmtrCallback, Finished, Registers
<1>6. /\ output' = Append(output, xmtr[line].data)
      /\ sent' = sent /\ pc' = pc /\ arg' = arg
  BY DEF Output
<1>7. Append(output, xmtr[line].data) = sent /\ sent \o <<>> = sent
  BY <1>1, ConcatEmptySeq
<1>8. output' = sent /\ output' \in Seq(Char)
  BY <1>1, <1>6, <1>7
<1>9. OneTimer' /\ ~(xmtrTimers'[line] > 0)
  BY <1>4 DEF OneTimer
<1>10. OutputIsWhatWasSent'
  BY <1>1, <1>6, <1>7, <1>8, <1>9 DEF OutputIsWhatWasSent
<1>. QED
  BY <1>1, <1>3, <1>4, <1>5, <1>6, <1>8, <1>9, <1>10 DEF OutInv

\* A step of another line leaves this one alone.
LEMMA ElsewhereLine ==
  ASSUME STypeOK, NEW d \in Dev, d # line, Callbacks(d) \/ Accesses(d)
  PROVE  /\ rcvr'[line] = rcvr[line]
         /\ xmtr'[line] = xmtr[line]
         /\ xmtrTimers'[line] = xmtrTimers[line]
<1>. USE SerialDriverAssumption DEF STypeOK
<1>1. CASE XmtrCallback(d)
  BY <1>1 DEF XmtrCallback
<1>2. CASE \E c \in Char : PollChar(d, c)
  BY <1>2 DEF PollChar
<1>3. CASE ReadRcvrData(d)
  BY <1>3 DEF ReadRcvrData
<1>4. CASE \E ien \in BOOLEAN : WriteRcvrCtrl(d, ien)
  BY <1>4 DEF WriteRcvrCtrl
<1>5. CASE \E ien \in BOOLEAN : WriteXmtrCtrl(d, ien)
  BY <1>5 DEF WriteXmtrCtrl
<1>6. CASE \E c \in Char : WriteXmtrData(d, c)
  BY <1>6 DEF WriteXmtrData
<1>. QED
  BY <1>1, <1>2, <1>3, <1>4, <1>5, <1>6 DEF Callbacks, Accesses

LEMMA StepOutInv == OutInv /\ [PNext]_allvars => OutInv'
<1>. SUFFICES ASSUME OutInv, [PNext]_allvars
              PROVE  OutInv'
  OBVIOUS
<1>1. ASSUME UNCHANGED svars
      PROVE  DevInv'
  BY <1>1, DevStepInv DEF OutInv
<1>2. line \in Dev /\ arg \in Char
  BY SerialDriverAssumption DEF OutInv
<1>3. CASE CallIn \/ InPoll
  BY <1>1, <1>2, <1>3, OtherOutInv DEF CallIn, InPoll, svars
<1>4. CASE InLoad
  <2>1. DevInv'
    BY <1>2, <1>4, AccessInv DEF InLoad, OutInv, Accesses
  <2>. QED
    BY <1>2, <1>4, <2>1, OtherOutInv DEF InLoad, ReadRcvrData
<1>5. CASE \E c \in Char : CallOut(c)
  BY <1>1, <1>2, <1>5, OtherOutInv DEF CallOut, svars
<1>6. CASE OutPoll
  BY <1>1, <1>2, <1>6, OtherOutInv DEF OutPoll, Ready, svars
<1>7. CASE OutStore
  BY <1>7, StoreOutInv
<1>8. CASE Output
  BY <1>8, OutputOutInv
<1>9. CASE \E c \in Char : Type(c)
  <2>1. PICK c \in Char : Type(c)
    BY <1>9
  <2>2. DevInv'
    BY <1>2, <2>1, CallbackInv DEF Type, OutInv, Callbacks
  <2>. QED
    BY <1>2, <2>1, <2>2, OtherOutInv DEF Type, PollChar, OutInv
<1>10. CASE UNCHANGED allvars
  BY <1>1, <1>2, <1>10, OtherOutInv DEF allvars, pvars, svars, OutInv
<1>11. CASE Elsewhere
  <2>1. PICK d \in Dev \ {line} : Callbacks(d) \/ Accesses(d)
    BY <1>11 DEF Elsewhere
  <2>2. DevInv'
    BY <2>1, CallbackInv, AccessInv DEF OutInv
  <2>. QED
    BY <1>2, <1>11, <2>1, <2>2, ElsewhereLine, OtherOutInv
       DEF Elsewhere, pvars, OutInv, DevInv
<1>12. CASE Restart
  <2>1. DevInv'
    BY <1>12, ResetDevInv DEF Restart
  <2>2. xmtr'[line].rdy /\ xmtrTimers'[line] = 0
    BY <1>2, <1>12 DEF Restart, SReset, XmtrReset, NoTimers
  <2>3. /\ pc' = "idle" /\ arg' \in Char
        /\ output' = <<>> /\ sent' = <<>> /\ output' \in Seq(Char)
    BY <1>12, NoCharIsChar DEF Restart
  <2>4. ~(xmtrTimers'[line] > 0) /\ OneTimer'
    BY <2>2 DEF OneTimer
  <2>5. output' \o <<>> = sent' /\ sent' \in Seq(Char)
    BY <2>3, ConcatEmptySeq
  <2>. QED
    BY <2>1, <2>2, <2>3, <2>4, <2>5 DEF OutInv, OutputIsWhatWasSent
<1>. QED
  BY <1>3, <1>4, <1>5, <1>6, <1>7, <1>8, <1>9, <1>10, <1>11, <1>12 DEF PNext, Driver

LEMMA OutputInvariant == PSpec => []OutInv
BY InitOutInv, StepOutInv, PTL DEF PSpec

\* The terminal receives exactly the characters passed to serXout, in order,
\* however long the driver runs.
THEOREM OutputIsFaithful == PSpec => []OutputIsWhatWasSent
BY OutputInvariant, PTL DEF OutInv

-------------------------------------------------------------------------------
(* Input *)

LEMMA EmptyIsSubsequence ==
  ASSUME NEW s \in Seq(Char)
  PROVE  IsSubsequence(<<>>, s)
<1>1. DOMAIN <<>> = {}
  OBVIOUS
<1>2. [i \in {} |-> 1] \in [DOMAIN <<>> -> DOMAIN s]
  BY <1>1
<1>. QED
  BY <1>1, <1>2 DEF IsSubsequence

\* Typing a character keeps a subsequence one.
LEMMA SubsequenceOfLonger ==
  ASSUME NEW s \in Seq(Char), NEW t \in Seq(Char), NEW c \in Char, IsSubsequence(s, t)
  PROVE  IsSubsequence(s, Append(t, c))
<1>1. PICK f \in [DOMAIN s -> DOMAIN t] :
        /\ \A i, j \in DOMAIN s : i < j => f[i] < f[j]
        /\ \A i \in DOMAIN s : s[i] = t[f[i]]
  BY DEF IsSubsequence
<1>2. DOMAIN t \subseteq DOMAIN Append(t, c)
  OBVIOUS
<1>3. \A k \in DOMAIN t : Append(t, c)[k] = t[k]
  OBVIOUS
<1>4. f \in [DOMAIN s -> DOMAIN Append(t, c)]
  BY <1>2
<1>5. \A i \in DOMAIN s : s[i] = Append(t, c)[f[i]]
  BY <1>1, <1>3
<1>. QED
  BY <1>1, <1>4, <1>5 DEF IsSubsequence

\* And so does reading the character typed last.
LEMMA SubsequenceAppend ==
  ASSUME NEW s \in Seq(Char), NEW t \in Seq(Char), NEW c \in Char, IsSubsequence(s, t)
  PROVE  IsSubsequence(Append(s, c), Append(t, c))
<1>1. PICK f \in [DOMAIN s -> DOMAIN t] :
        /\ \A i, j \in DOMAIN s : i < j => f[i] < f[j]
        /\ \A i \in DOMAIN s : s[i] = t[f[i]]
  BY DEF IsSubsequence
<1>. DEFINE m == Len(s) + 1
            n == Len(t) + 1
            g == [i \in 1 .. m |-> IF i = m THEN n ELSE f[i]]
<1>2. /\ DOMAIN s = 1 .. Len(s) /\ DOMAIN t = 1 .. Len(t)
      /\ DOMAIN Append(s, c) = 1 .. m /\ DOMAIN Append(t, c) = 1 .. n
      /\ Len(s) \in Nat /\ Len(t) \in Nat
  OBVIOUS
<1>3. /\ \A i \in 1 .. Len(s) : Append(s, c)[i] = s[i]
      /\ \A i \in 1 .. Len(t) : Append(t, c)[i] = t[i]
      /\ Append(s, c)[m] = c /\ Append(t, c)[n] = c
  OBVIOUS
<1>4. \A i \in 1 .. Len(s) : f[i] \in 1 .. Len(t)
  BY <1>2
<1>5. g \in [1 .. m -> 1 .. n]
  BY <1>2, <1>4
<1>6. ASSUME NEW i \in 1 .. m, NEW j \in 1 .. m, i < j
      PROVE  g[i] < g[j]
  <2>1. i \in 1 .. Len(s) /\ g[i] = f[i]
    BY <1>2, <1>6
  <2>2. CASE j = m
    BY <1>2, <1>4, <2>1, <2>2
  <2>3. CASE j # m
    <3>1. j \in 1 .. Len(s) /\ g[j] = f[j]
      BY <1>2, <2>3
    <3>. QED
      BY <1>1, <1>2, <1>6, <2>1, <3>1
  <2>. QED
    BY <2>2, <2>3
<1>7. \A i \in 1 .. m : Append(s, c)[i] = Append(t, c)[g[i]]
  BY <1>1, <1>2, <1>3, <1>4
<1>. QED
  BY <1>2, <1>5, <1>6, <1>7 DEF IsSubsequence

\* The characters before the one in the receiver: one that is ready holds the
\* character typed last, which was not yet read.
InInv ==
  /\ DevInv
  /\ arg \in Char
  /\ received \in Seq(Char) /\ typed \in Seq(Char)
  /\ pc = "in: load" => rcvr[line].rdy
  /\ IsSubsequence(received, typed)
  /\ rcvr[line].rdy =>
       \E u \in Seq(Char) : typed = Append(u, rcvr[line].data) /\ IsSubsequence(received, u)

LEMMA StartInInv ==
  ASSUME STypeOK, IrqIsRdyAndIen, BusyIsScheduled, typed = <<>>, received = <<>>,
         pc = "idle", arg \in Char, ~rcvr[line].rdy
  PROVE  InInv
<1>1. <<>> \in Seq(Char)
  OBVIOUS
<1>. QED
  BY <1>1, EmptyIsSubsequence DEF InInv, DevInv

LEMMA InitInInv == PInit => InInv
<1>1. SUFFICES ASSUME PInit PROVE InInv
  OBVIOUS
<1>2. DevInv
  BY <1>1, InitDevInv DEF PInit
<1>3. ~rcvr[line].rdy
  BY <1>1, SerialDriverAssumption DEF PInit, SInit, RcvrReset
<1>. QED
  BY <1>1, <1>2, <1>3, StartInInv, NoCharIsChar DEF PInit, DevInv

\* A step that touches neither the line's receiver nor the histories.
LEMMA OtherInInv ==
  ASSUME InInv, DevInv', arg' \in Char, rcvr'[line] = rcvr[line],
         UNCHANGED <<typed, received>>,
         pc' = "in: load" => rcvr[line].rdy
  PROVE  InInv'
BY DEF InInv

LEMMA LoadInInv ==
  ASSUME InInv, InLoad
  PROVE  InInv'
<1>1. /\ line \in Dev /\ rcvr \in [Dev -> Registers] /\ rcvr[line].rdy
      /\ received \in Seq(Char) /\ typed \in Seq(Char)
  BY SerialDriverAssumption DEF InInv, InLoad, DevInv, STypeOK
<1>2. PICK u \in Seq(Char) : typed = Append(u, rcvr[line].data) /\ IsSubsequence(received, u)
  BY <1>1 DEF InInv
<1>3. rcvr[line].data \in Char
  BY <1>1 DEF Registers
<1>4. IsSubsequence(Append(received, rcvr[line].data), typed)
  BY <1>1, <1>2, <1>3, SubsequenceAppend
<1>5. ~rcvr'[line].rdy
  BY <1>1 DEF InLoad, ReadRcvrData, Taken, Registers
<1>6. DevInv'
  BY <1>1, AccessInv DEF InLoad, InInv, Accesses
<1>7. /\ received' = Append(received, rcvr[line].data) /\ typed' = typed
      /\ pc' = "idle" /\ arg' \in Char
  BY DEF InLoad, InInv
<1>8. received' \in Seq(Char)
  BY <1>1, <1>3, <1>7
<1>. QED
  BY <1>1, <1>4, <1>5, <1>6, <1>7, <1>8 DEF InInv

LEMMA TypeInInv ==
  ASSUME InInv, NEW c \in Char, Type(c)
  PROVE  InInv'
<1>1. /\ line \in Dev /\ rcvr \in [Dev -> Registers]
      /\ received \in Seq(Char) /\ typed \in Seq(Char)
      /\ IsSubsequence(received, typed)
  BY SerialDriverAssumption DEF InInv, DevInv, STypeOK
<1>2. DevInv'
  BY <1>1, CallbackInv DEF Type, InInv, Callbacks
<1>3. rcvr'[line].rdy /\ rcvr'[line].data = c
  BY <1>1 DEF Type, PollChar, Arrived, Registers
<1>4. /\ typed' = Append(typed, c) /\ received' = received /\ pc' = pc
      /\ arg' \in Char
  BY <1>1 DEF Type, InInv
<1>4a. typed' \in Seq(Char)
  BY <1>1, <1>4
<1>5. IsSubsequence(received, Append(typed, c))
  BY <1>1, SubsequenceOfLonger
<1>. QED
  BY <1>1, <1>2, <1>3, <1>4, <1>4a, <1>5 DEF InInv

LEMMA StepInInv == InInv /\ [PNext]_allvars => InInv'
<1>. SUFFICES ASSUME InInv, [PNext]_allvars
              PROVE  InInv'
  OBVIOUS
<1>1. ASSUME UNCHANGED svars
      PROVE  DevInv'
  BY <1>1, DevStepInv DEF InInv
<1>2. line \in Dev
  BY SerialDriverAssumption
<1>3. CASE CallIn \/ InPoll
  BY <1>1, <1>3, OtherInInv DEF CallIn, InPoll, svars, InInv
<1>4. CASE InLoad
  BY <1>4, LoadInInv
<1>5. CASE (\E c \in Char : CallOut(c)) \/ OutPoll
  BY <1>1, <1>5, OtherInInv DEF CallOut, OutPoll, svars, InInv
<1>6. CASE OutStore
  <2>1. DevInv' /\ rcvr' = rcvr
    BY <1>2, <1>6, AccessInv DEF OutStore, InInv, Accesses, WriteXmtrData
  <2>. QED
    BY <1>6, <2>1, OtherInInv DEF OutStore, InInv
<1>7. CASE Output
  <2>1. DevInv' /\ rcvr' = rcvr
    BY <1>2, <1>7, CallbackInv DEF Output, InInv, Callbacks, XmtrCallback
  <2>. QED
    BY <1>7, <2>1, OtherInInv DEF Output, InInv
<1>8. CASE \E c \in Char : Type(c)
  BY <1>8, TypeInInv
<1>9. CASE Elsewhere
  <2>1. PICK d \in Dev \ {line} : Callbacks(d) \/ Accesses(d)
    BY <1>9 DEF Elsewhere
  <2>2. DevInv'
    BY <2>1, CallbackInv, AccessInv DEF InInv
  <2>. QED
    BY <1>9, <2>1, <2>2, ElsewhereLine, OtherInInv DEF Elsewhere, pvars, InInv, DevInv
<1>10. CASE Restart
  <2>1. DevInv'
    BY <1>10, ResetDevInv DEF Restart
  <2>2. ~rcvr'[line].rdy
    BY <1>2, <1>10 DEF Restart, SReset, RcvrReset
  <2>3. received' = <<>> /\ typed' = <<>> /\ pc' = "idle"
    BY <1>10 DEF Restart
  <2>4. <<>> \in Seq(Char)
    OBVIOUS
  <2>5. IsSubsequence(<<>>, <<>>)
    BY <2>4, EmptyIsSubsequence
  <2>6. arg' \in Char
    BY <1>10, NoCharIsChar DEF Restart
  <2>. QED
    BY <2>1, <2>2, <2>3, <2>4, <2>5, <2>6 DEF InInv
<1>11. CASE UNCHANGED allvars
  BY <1>1, <1>11, OtherInInv DEF allvars, pvars, svars, InInv
<1>. QED
  BY <1>3, <1>4, <1>5, <1>6, <1>7, <1>8, <1>9, <1>10, <1>11 DEF PNext, Driver

LEMMA InputInvariant == PSpec => []InInv
BY InitInInv, StepInInv, PTL DEF PSpec

\* What serXin returns was typed, in that order and nothing twice, wherever
\* between poll and load a character arrives.
THEOREM InputIsOrdered == PSpec => []InputInOrder
BY InputInvariant, PTL DEF InInv, InputInOrder

\* The driver never uses more than one timer of the pool.
THEOREM DriverUsesOneTimer == PSpec => []OneTimer
BY OutputInvariant, PTL DEF OutInv

-------------------------------------------------------------------------------
(* The disk at the end of a serial line: the inductive invariant           *)

\* What the driver sends.
Message == {SYN, ACK, <<"c">>} \cup ({"r"} \X Nat) \cup ({"w"} \X Nat \X Data)

Disconnected == driver \in {"start", "await ACK", "no disk"}
Calling == driver \in {"illegal", "next", "await result"}

\* The driver's arguments and count by its control point.
CallInv ==
  /\ IF Calling
     THEN request \in Request /\ (driver = "illegal" <=> request.cmd \notin {"r", "w"})
     ELSE request = None /\ count = 0
  /\ driver = "next" => count <= request.n
  /\ driver = "await result" => count < request.n

\* Unless it was killed, the server serves a client that got, or will get, the
\* capacity.
ServedInv ==
  kills = 0 /\ (driver = "idle" \/ Calling \/ (driver = "await capacity" /\ toClient # <<>>))
    => server = "serving"

IsResult(m) ==
  \/ m = <<"TOOBIG">> /\ ~OnDisk(CurrentSector)
  \/ /\ IsOK(m) /\ OnDisk(CurrentSector)
     /\ request.cmd = "r" => m[2] \in Data /\ (kills = 0 => m[2] = Image[CurrentSector])

\* At most one answer is on its way, to the message the client sent last.
AnswerInv ==
  \/ toClient = <<>>
  \/ toClient = <<ACK>> /\ Disconnected
  \/ toClient = << <<"OK", TOTAL>> >> /\ driver = "await capacity"
  \/ toClient = <<Head(toClient)>> /\ driver = "await result" /\ IsResult(Head(toClient))

OnlySyns == \A i \in DOMAIN toServer : toServer[i] = SYN
NoSyns == \A i \in DOMAIN toServer : toServer[i] # SYN

\* The message a served client is waiting to be answered.
Asked ==
  CASE driver = "await capacity" -> << <<"c">> >>
    [] driver = "await result" -> <<Command>>
    [] OTHER -> <<>>

\* What the server has still to read.
WaitingInv ==
  server \in {"absent", "waiting"} =>
    /\ toClient = <<>>
    /\ \/ Disconnected /\ OnlySyns
       \/ ~Disconnected /\ server = "waiting" /\ toServer = <<>>
       \/ driver = "await result" /\ server = "waiting" /\ NoSyns

SyncingInv ==
  server = "syncing" =>
    \/ Disconnected /\ OnlySyns
    \/ /\ driver = "await capacity" /\ toClient = <<>>
       /\ toServer # <<>> /\ Head(toServer) = ACK => toServer = Greeting

ServingInv ==
  server = "serving" =>
    IF Disconnected THEN toClient = <<>> /\ OnlySyns
    ELSE toServer = IF toClient = <<>> THEN Asked ELSE <<>>

\* As long as no SYN was sent too early.
LateInv ==
  ~late =>
    /\ server # "gave up"
    /\ server \in {"absent", "waiting", "serving"} /\ Disconnected => toServer \in {<<>>, <<SYN>>}
    /\ server = "syncing" => toServer = IF Disconnected THEN <<>> ELSE Greeting

\* Only the sector written last is still in the stream's buffer.
BufferInv ==
  kills = 0 =>
    \A s \in DOMAIN unwritten : s = IF WriteReported THEN CurrentSector ELSE newest

LineInv == toServer \in Seq(Message) /\ AnswerInv /\ WaitingInv /\ SyncingInv /\ ServingInv

ProtocolInv == SDTypeOK /\ CallInv /\ ServedInv /\ LineInv /\ LateInv /\ BufferInv

-------------------------------------------------------------------------------
(* Messages and their queues *)

LEMMA Bounds ==
  /\ TOTAL \in Nat /\ 0 \in 0 .. TRIES /\ 1 \in 0 .. TRIES /\ 0 \in 0 .. MAX_KILLS
  /\ \A t \in 0 .. TRIES : t # TRIES => t + 1 \in 0 .. TRIES
  /\ \A k \in 0 .. MAX_KILLS : k < MAX_KILLS => k + 1 \in 0 .. MAX_KILLS /\ k + 1 > 0
BY SerialDiskAssumption

LEMMA EmptyQueue == DOMAIN <<>> = {} /\ <<>> \in Seq(Message)
OBVIOUS

LEMMA MessageKinds ==
  /\ SYN \in Message /\ ACK \in Message /\ <<"c">> \in Message
  /\ SYN # ACK /\ <<"c">> # SYN /\ <<"c">> # ACK
  /\ SYN[1] = "SYN" /\ ACK[1] = "ACK" /\ <<"c">>[1] = "c"
  /\ IsOK(<<"OK">>) /\ ~IsOK(<<"TOOBIG">>)
  /\ \A d : IsOK(<<"OK", d>>) /\ <<"OK", d>>[2] = d
BY DEF SYN, ACK, Message, IsOK

LEMMA GreetingMessages ==
  /\ Greeting \in Seq(Message) /\ <<SYN>> \in Seq(Message)
  /\ Greeting # <<>> /\ Head(Greeting) = ACK /\ Tail(Greeting) = << <<"c">> >>
  /\ Len(Greeting) = 2
BY MessageKinds DEF Greeting

\* What the server takes from the line.
LEMMA FirstMessage ==
  ASSUME NEW q \in Seq(Message), q # <<>>
  PROVE  /\ Head(q) \in Message /\ Tail(q) \in Seq(Message)
         /\ Head(q) = q[1] /\ 1 \in DOMAIN q
         /\ \A i \in DOMAIN Tail(q) : i + 1 \in DOMAIN q /\ Tail(q)[i] = q[i + 1]
OBVIOUS

LEMMA SingleMessage ==
  ASSUME NEW m
  PROVE  /\ <<m>> # <<>> /\ Head(<<m>>) = m /\ Tail(<<m>>) = <<>>
         /\ Append(<<>>, m) = <<m>> /\ <<>> \o <<m>> = <<m>>
OBVIOUS

LEMMA Appended ==
  ASSUME NEW q \in Seq(Message), NEW r \in Seq(Message)
  PROVE  /\ q \o r \in Seq(Message)
         /\ \A i \in DOMAIN (q \o r) :
              \/ i \in DOMAIN q /\ (q \o r)[i] = q[i]
              \/ i - Len(q) \in DOMAIN r /\ (q \o r)[i] = r[i - Len(q)]
         /\ r # <<>> => q \o r # <<>>
         /\ q # <<>> => Head(q \o r) = q[1] /\ 1 \in DOMAIN q
         /\ q = <<>> => q \o r = r
<1>1. q \o r \in Seq(Message)
  OBVIOUS
<1>2. Len(q \o r) = Len(q) + Len(r)
  OBVIOUS
<1>3. ASSUME NEW i \in DOMAIN (q \o r)
      PROVE  \/ i \in DOMAIN q /\ (q \o r)[i] = q[i]
             \/ i - Len(q) \in DOMAIN r /\ (q \o r)[i] = r[i - Len(q)]
  OBVIOUS
<1>4. r # <<>> => q \o r # <<>>
  <2>1. r # <<>> => Len(r) > 0
    OBVIOUS
  <2>. QED
    BY <2>1, <1>2
<1>5. q # <<>> => Head(q \o r) = q[1] /\ 1 \in DOMAIN q
  OBVIOUS
<1>. QED
  BY <1>1, <1>3, <1>4, <1>5

\* Queues that hold nothing, or one SYN.
LEMMA ShortQueues ==
  /\ toServer = <<>> => OnlySyns /\ NoSyns
  /\ toServer = <<SYN>> => OnlySyns
BY DEF OnlySyns, NoSyns

LEMMA SendEffect ==
  ASSUME NEW ms \in Seq(Message), toServer \in Seq(Message), Send(ms)
  PROVE  /\ toServer' \in Seq(Message)
         /\ toServer' = toServer \o ms \/ (toServer' = toServer /\ ~Running)
BY Appended DEF Send

\* The driver repeats its SYN, or sends the first one.
LEMMA SynSent ==
  ASSUME toServer \in Seq(Message), SendSyn
  PROVE  /\ toServer' \in Seq(Message)
         /\ OnlySyns => OnlySyns'
         /\ late => late'
         /\ ~late' => server # "syncing" /\ toServer = <<>> /\ toServer' \in {<<>>, <<SYN>>}
<1>1. toServer' \in Seq(Message) /\ toServer' \in {toServer, toServer \o <<SYN>>}
  BY SendEffect, GreetingMessages DEF SendSyn
<1>2. OnlySyns => OnlySyns'
  <2>1. CASE toServer' = toServer
    BY <2>1 DEF OnlySyns
  <2>2. CASE toServer' = toServer \o <<SYN>>
    BY <2>2, Appended, GreetingMessages DEF OnlySyns
  <2>. QED
    BY <1>1, <2>1, <2>2
<1>. QED
  BY <1>1, <1>2, SingleMessage DEF SendSyn

LEMMA RequestFacts ==
  ASSUME NEW r \in Request
  PROVE  /\ r.cmd # "none" /\ r # None
         /\ r.n \in Nat /\ r.sct \in Nat
         /\ \A i \in Nat : r.sct + i \in Nat /\ (i < r.n => r.addr + i \in Location)
BY SerialDiskAssumption DEF None

LEMMA NotYetAll == ASSUME NEW n \in Nat, NEW c \in Nat, c <= n, c # n PROVE c < n
OBVIOUS

LEMMA CommandFacts ==
  ASSUME SDTypeOK, CallInv, driver \in {"next", "await result"},
         driver = "next" => count # request.n
  PROVE  /\ request \in Request /\ request.cmd \in {"r", "w"}
         /\ request.n \in Nat /\ count < request.n
         /\ CurrentSector \in Nat /\ request.addr + count \in Location
         /\ Command \in Message /\ Command[1] = request.cmd /\ Command[2] = CurrentSector
         /\ request.cmd = "w" => Command[3] = mem[request.addr + count]
<1>1. request \in Request /\ request.cmd \in {"r", "w"}
  BY DEF CallInv, Calling
<1>2. count \in Nat
  BY DEF SDTypeOK
<1>3. count < request.n
  BY <1>1, <1>2, RequestFacts, NotYetAll DEF CallInv
<1>4. CurrentSector \in Nat
  BY <1>1, <1>2, RequestFacts, Zenon DEF CurrentSector
<1>5. request.addr + count \in Location
  BY <1>1, <1>2, <1>3, RequestFacts, Zenon
<1>6. mem[request.addr + count] \in Data
  BY <1>5 DEF SDTypeOK
<1>7. Command \in Message
  BY <1>1, <1>4, <1>6 DEF Command, Message
<1>8. /\ Command[1] = request.cmd /\ Command[2] = CurrentSector
      /\ request.cmd = "w" => Command[3] = mem[request.addr + count]
  BY <1>1 DEF Command
<1>. QED
  BY <1>1, <1>3, <1>4, <1>5, <1>7, <1>8, RequestFacts, Zenon

LEMMA InitProtocol == SDInit => ProtocolInv
<1>1. SUFFICES ASSUME SDInit PROVE ProtocolInv
  OBVIOUS
<1>2. SDTypeOK
  BY <1>1, Bounds, EmptyQueue DEF SDInit, SDTypeOK
<1>3. CallInv /\ ServedInv
  BY <1>1 DEF SDInit, CallInv, ServedInv, Calling
<1>4. toServer \in Seq(Message) /\ AnswerInv
  BY <1>1 DEF SDInit, AnswerInv
<1>5. WaitingInv /\ SyncingInv /\ ServingInv /\ LateInv
  BY <1>1, ShortQueues DEF SDInit, WaitingInv, SyncingInv, ServingInv, LateInv, Disconnected
<1>6. BufferInv
  BY <1>1 DEF SDInit, BufferInv
<1>. QED
  BY <1>2, <1>3, <1>4, <1>5, <1>6 DEF ProtocolInv, LineInv

-------------------------------------------------------------------------------
(* What several steps need *)

LEMMA AnswerFacts ==
  ASSUME AnswerInv, toClient # <<>>
  PROVE  /\ Tail(toClient) = <<>>
         /\ Disconnected => toClient = <<ACK>> /\ Head(toClient) = ACK
         /\ driver = "await capacity" =>
              toClient = << <<"OK", TOTAL>> >> /\ Head(toClient) = <<"OK", TOTAL>>
         /\ driver = "await result" => IsResult(Head(toClient))
         /\ Disconnected \/ driver \in {"await capacity", "await result"}
BY SingleMessage DEF AnswerInv, Disconnected

\* The stream's buffer, over steps that leave it alone while no write is reported.
LEMMA BufferStays ==
  ASSUME BufferInv, UNCHANGED <<unwritten, newest, kills>>,
         driver # "await result" \/ toClient = <<>>,
         driver' # "await result" \/ toClient' = <<>>
  PROVE  BufferInv'
<1>1. ~WriteReported /\ ~WriteReported'
  BY DEF WriteReported
<1>. QED
  BY <1>1 DEF BufferInv

LEMMA BufferEmpty == ASSUME unwritten' = <<>> PROVE BufferInv'
BY EmptyQueue DEF BufferInv

\* The types of the server's variables, when it leaves the image alone.
LEMMA TypesStay ==
  ASSUME SDTypeOK, UNCHANGED <<driverVars, file, unwritten, history>>,
         server' \in {"absent", "waiting", "syncing", "serving", "killed", "gave up"}
  PROVE  SDTypeOK'
BY DEF SDTypeOK, driverVars, history

LEMMA ImageType ==
  ASSUME SDTypeOK
  PROVE  /\ Image \in [Sector -> Data]
         /\ \A s \in Sector : s \notin DOMAIN unwritten => Image[s] = file[s]
BY DEF SDTypeOK, Image

LEMMA FlushEffect ==
  ASSUME SDTypeOK, Flush
  PROVE  /\ file' \in [Sector -> Data] /\ unwritten' = <<>> /\ DOMAIN unwritten' = {}
         /\ Image' = Image
<1>1. file' = Image /\ unwritten' = <<>>
  BY DEF Flush, AfterSeek
<1>2. DOMAIN unwritten' = {}
  BY <1>1
<1>3. Image' = [s \in Sector |-> file'[s]]
  BY <1>2 DEF Image
<1>. QED
  BY <1>1, <1>2, <1>3, ImageType

LEMMA FlushTypes ==
  ASSUME SDTypeOK, Flush, UNCHANGED <<driverVars, history>>,
         server' \in {"absent", "waiting", "syncing", "serving", "killed", "gave up"}
  PROVE  SDTypeOK'
BY FlushEffect DEF SDTypeOK, driverVars, history

-------------------------------------------------------------------------------
(* The driver: dskcapser *)

LEMMA CallCapInv == ASSUME ProtocolInv, CallCap PROVE ProtocolInv'
<1>. USE DEF ProtocolInv, LineInv
<1>1. /\ driver \in {"start", "no disk"} /\ driver' = "await ACK" /\ SendSyn
      /\ UNCHANGED <<capacity, request, count, result, mem, serverVars, toClient, kills, newest>>
  BY DEF CallCap
<1>2. late' \in BOOLEAN
  BY <1>1 DEF SendSyn, SDTypeOK
<1>3. SDTypeOK'
  BY <1>1, <1>2, Bounds DEF CallCap, SDTypeOK, serverVars
<1>4. CallInv' /\ ServedInv'
  BY <1>1 DEF CallInv, ServedInv, Calling
<1>5. AnswerInv'
  BY <1>1, AnswerFacts DEF AnswerInv, Disconnected
<1>6. Disconnected /\ Disconnected' /\ UNCHANGED <<server, toClient>>
  BY <1>1 DEF Disconnected, serverVars
<1>7. toServer' \in Seq(Message) /\ WaitingInv' /\ SyncingInv' /\ ServingInv'
  BY <1>1, <1>6, SynSent DEF WaitingInv, SyncingInv, ServingInv
<1>8. LateInv'
  BY <1>1, <1>6, SynSent DEF LateInv
<1>9. BufferInv'
  BY <1>1, BufferStays DEF serverVars
<1>. QED
  BY <1>3, <1>4, <1>5, <1>7, <1>8, <1>9

LEMMA TimeoutInv == ASSUME ProtocolInv, Timeout PROVE ProtocolInv'
<1>. USE DEF ProtocolInv, LineInv
<1>1. /\ driver = "await ACK" /\ toClient = <<>> /\ driver' \in {"await ACK", "no disk"}
      /\ UNCHANGED <<request, count, result, mem, serverVars, toClient, kills, newest>>
  BY DEF Timeout, Fail
<1>2. SDTypeOK'
  <2>1. CASE tries = TRIES
    BY <1>1, <2>1, Bounds DEF Timeout, Fail, SDTypeOK, serverVars
  <2>2. CASE tries # TRIES
    <3>1. late' \in BOOLEAN
      BY <2>2 DEF Timeout, SendSyn, SDTypeOK
    <3>2. tries' \in 0 .. TRIES
      BY <2>2, Bounds DEF Timeout, SDTypeOK
    <3>. QED
      BY <1>1, <2>2, <3>1, <3>2 DEF Timeout, SDTypeOK, serverVars
  <2>. QED
    BY <2>1, <2>2
<1>3. CallInv' /\ ServedInv'
  BY <1>1 DEF CallInv, ServedInv, Calling
<1>4. AnswerInv'
  BY <1>1 DEF AnswerInv
<1>5. Disconnected /\ Disconnected' /\ UNCHANGED <<server, toClient>>
  BY <1>1 DEF Disconnected, serverVars
<1>6. UNCHANGED <<toServer, late>> \/ SendSyn
  BY DEF Timeout
<1>7. toServer' \in Seq(Message) /\ (OnlySyns => OnlySyns') /\ (late => late')
  BY <1>6, SynSent DEF OnlySyns
<1>8. WaitingInv' /\ SyncingInv' /\ ServingInv'
  BY <1>1, <1>5, <1>7, Zenon DEF WaitingInv, SyncingInv, ServingInv
<1>9. LateInv'
  <2>1. CASE SendSyn
    BY <1>5, <2>1, SynSent DEF LateInv
  <2>2. CASE UNCHANGED <<toServer, late>>
    BY <1>5, <2>2 DEF LateInv
  <2>. QED
    BY <1>6, <2>1, <2>2
<1>10. BufferInv'
  BY <1>1, BufferStays DEF serverVars
<1>. QED
  BY <1>2, <1>3, <1>4, <1>7, <1>8, <1>9, <1>10

LEMMA AnswerToSynInv == ASSUME ProtocolInv, AnswerToSyn PROVE ProtocolInv'
<1>. USE DEF ProtocolInv, LineInv
<1>1. /\ driver = "await ACK" /\ toClient # <<>> /\ Disconnected
      /\ UNCHANGED <<request, count, result, mem, serverVars, history>>
  BY DEF AnswerToSyn, Disconnected
<1>2. /\ toClient' = <<>> /\ driver' = "await capacity" /\ tries' = 0 /\ Send(Greeting)
      /\ UNCHANGED capacity
  BY <1>1, AnswerFacts DEF AnswerToSyn
<1>3. SDTypeOK'
  BY <1>1, <1>2, Bounds DEF SDTypeOK, serverVars, history
<1>4. CallInv' /\ ServedInv' /\ AnswerInv'
  BY <1>1, <1>2 DEF CallInv, ServedInv, Calling, AnswerInv
<1>5. ~Disconnected' /\ server' = server /\ server \notin {"absent", "waiting", "serving"}
  BY <1>1, <1>2 DEF Disconnected, serverVars, WaitingInv, ServingInv
<1>6. /\ toServer' \in Seq(Message)
      /\ server = "syncing" => toServer' = toServer \o Greeting /\ OnlySyns
  BY <1>1, <1>2, SendEffect, GreetingMessages
     DEF Running, SyncingInv, Disconnected
<1>7. server = "syncing" /\ toServer = <<>> => toServer' = Greeting
  BY <1>6, Appended, GreetingMessages
<1>8. server = "syncing" /\ toServer # <<>> => Head(toServer') # ACK
  BY <1>6, Appended, GreetingMessages, MessageKinds DEF OnlySyns
<1>9. WaitingInv' /\ SyncingInv' /\ ServingInv'
  BY <1>2, <1>5, <1>7, <1>8 DEF WaitingInv, SyncingInv, ServingInv
<1>10. LateInv'
  BY <1>1, <1>2, <1>5, <1>7 DEF LateInv, history
<1>11. BufferInv'
  BY <1>1, <1>2, BufferStays DEF serverVars, history
<1>. QED
  BY <1>3, <1>4, <1>6, <1>9, <1>10, <1>11

LEMMA TakeCapacityInv == ASSUME ProtocolInv, TakeCapacity PROVE ProtocolInv'
<1>. USE DEF ProtocolInv, LineInv
<1>1. /\ driver = "await capacity" /\ toClient # <<>>
      /\ UNCHANGED <<tries, request, count, result, mem, serverVars, toServer, history>>
  BY DEF TakeCapacity
<1>2. /\ toClient' = <<>> /\ driver' \in {"idle", "no disk"} /\ capacity' \in {0, TOTAL}
  <2>1. toClient' = Tail(toClient) /\ Tail(toClient) = <<>> /\ Head(toClient) = <<"OK", TOTAL>>
    BY <1>1, AnswerFacts DEF TakeCapacity
  <2>2. Head(toClient)[2] = TOTAL
    BY <2>1
  <2>. QED
    BY <2>1, <2>2 DEF TakeCapacity, Fail
<1>3. SDTypeOK'
  BY <1>1, <1>2 DEF SDTypeOK, serverVars, history
<1>4. CallInv' /\ ServedInv' /\ AnswerInv'
  BY <1>1, <1>2 DEF CallInv, ServedInv, Calling, AnswerInv, serverVars, history
<1>5. server' = server /\ server \notin {"absent", "waiting", "syncing"} /\ ~Disconnected
  BY <1>1 DEF Disconnected, serverVars, WaitingInv, SyncingInv
<1>6. server = "serving" => toServer' = <<>> /\ OnlySyns'
  <2>1. server = "serving" => toServer = <<>>
    BY <1>1, <1>5 DEF ServingInv
  <2>. QED
    BY <1>1, <2>1, EmptyQueue DEF OnlySyns
<1>7. WaitingInv' /\ SyncingInv' /\ ServingInv'
  BY <1>2, <1>5, <1>6 DEF WaitingInv, SyncingInv, ServingInv, Asked
<1>8. LateInv'
  BY <1>1, <1>5, <1>6 DEF LateInv, history
<1>9. BufferInv'
  BY <1>1, <1>2, BufferStays DEF serverVars, history
<1>. QED
  BY <1>1, <1>3, <1>4, <1>7, <1>8, <1>9

-------------------------------------------------------------------------------
(* The driver: dskioser *)

\* Steps of the driver between two messages.
LEMMA QuietStep ==
  ASSUME ProtocolInv, UNCHANGED <<mem, serverVars, toServer, toClient, history>>,
         driver \in {"idle", "illegal", "next"}, driver' \in {"idle", "illegal", "next"}
  PROVE  ServedInv' /\ LineInv' /\ LateInv' /\ BufferInv'
<1>. USE DEF ProtocolInv, LineInv
<1>1. toClient = <<>> /\ UNCHANGED <<server, late, kills, newest, unwritten>>
  BY AnswerFacts DEF Disconnected, serverVars, history
<1>2. ~Disconnected /\ ~Disconnected' /\ Asked = <<>> /\ Asked' = <<>>
  BY DEF Disconnected, Asked
<1>3. ServedInv' /\ AnswerInv'
  BY <1>1 DEF ServedInv, AnswerInv, Calling
<1>4. WaitingInv' /\ SyncingInv' /\ ServingInv'
  BY <1>1, <1>2 DEF WaitingInv, SyncingInv, ServingInv
<1>5. LateInv'
  BY <1>1, <1>2 DEF LateInv, SyncingInv
<1>6. BufferInv'
  BY <1>1, BufferStays
<1>. QED
  BY <1>3, <1>4, <1>5, <1>6

LEMMA CallIoInv == ASSUME ProtocolInv, NEW r \in Request, CallIo(r) PROVE ProtocolInv'
<1>. USE DEF ProtocolInv
<1>1. /\ driver = "idle" /\ request' = r /\ count' = 0 /\ result' = "none"
      /\ driver' = IF r.cmd \in {"r", "w"} THEN "next" ELSE "illegal"
      /\ UNCHANGED <<tries, capacity, mem, serverVars, toServer, toClient, history>>
  BY DEF CallIo
<1>2. SDTypeOK'
  BY <1>1 DEF SDTypeOK, serverVars, history
<1>3. 0 <= r.n
  BY RequestFacts
<1>4. CallInv'
  BY <1>1, <1>3 DEF CallInv, Calling
<1>. QED
  BY <1>1, <1>2, <1>4, QuietStep

LEMMA ReturnInv ==
  ASSUME ProtocolInv, driver \in {"illegal", "next"}, NEW r \in {"ok", "error"}, ReturnWith(r),
         UNCHANGED <<mem, serverVars, toServer, toClient, history>>
  PROVE  ProtocolInv'
<1>. USE DEF ProtocolInv
<1>1. /\ driver' = "idle" /\ request' = None /\ count' = 0 /\ result' = r
      /\ UNCHANGED <<tries, capacity>>
  BY DEF ReturnWith
<1>2. SDTypeOK'
  BY <1>1 DEF SDTypeOK, serverVars, history
<1>3. CallInv'
  BY <1>1 DEF CallInv, Calling
<1>. QED
  BY <1>1, <1>2, <1>3, QuietStep

LEMMA SendRequestInv == ASSUME ProtocolInv, SendRequest PROVE ProtocolInv'
<1>. USE DEF ProtocolInv, LineInv
<1>1. /\ driver = "next" /\ count # request.n /\ driver' = "await result"
      /\ UNCHANGED <<tries, capacity, request, count, result, mem, serverVars, toClient, history>>
      /\ Send(<<Command>>)
  BY DEF SendRequest
<1>2. toClient = <<>> /\ toClient' = <<>> /\ UNCHANGED <<server, late, kills, newest, unwritten>>
  BY <1>1, AnswerFacts DEF Disconnected, serverVars, history
<1>3. /\ Command \in Message /\ Command[1] \in {"r", "w"} /\ count < request.n
      /\ Command' = Command
  BY <1>1, CommandFacts DEF Command, CurrentSector
<1>4. SDTypeOK'
  BY <1>1 DEF SDTypeOK, serverVars, history
<1>5. CallInv' /\ ServedInv'
  BY <1>1, <1>2, <1>3 DEF CallInv, ServedInv, Calling
<1>6. ~Disconnected /\ ~Disconnected' /\ AnswerInv'
  BY <1>1, <1>2 DEF Disconnected, AnswerInv
<1>7. <<Command>> \in Seq(Message)
  BY <1>3
<1>8. /\ toServer' \in Seq(Message)
      /\ toServer' = toServer \o <<Command>> \/ (toServer' = toServer /\ ~Running)
  BY <1>1, <1>7, SendEffect
<1>9. toServer = <<>> => toServer' \in {<<>>, <<Command>>}
  BY <1>8, SingleMessage
<1>10. WaitingInv'
  <2>. SUFFICES ASSUME server \in {"absent", "waiting"} PROVE server = "waiting" /\ NoSyns'
    BY <1>1, <1>2 DEF WaitingInv
  <2>1. server = "waiting" /\ toServer = <<>>
    BY <1>1, <1>6 DEF WaitingInv
  <2>2. \A i \in DOMAIN toServer' : toServer'[i] # SYN
    BY <1>3, <1>9, <2>1, MessageKinds, EmptyQueue
  <2>. QED
    BY <2>1, <2>2 DEF NoSyns
<1>11. SyncingInv'
  BY <1>1, <1>2, <1>6 DEF SyncingInv
<1>12. ServingInv'
  <2>. SUFFICES ASSUME server = "serving" PROVE toServer' = <<Command>>'
    BY <1>1, <1>2, <1>6 DEF ServingInv, Asked
  <2>1. toServer = <<>>
    BY <1>1, <1>2, <1>6 DEF ServingInv, Asked
  <2>. QED
    BY <1>3, <1>8, <2>1, SingleMessage DEF Running
<1>13. LateInv'
  BY <1>1, <1>2, <1>6, <1>11 DEF LateInv, SyncingInv
<1>14. BufferInv'
  BY <1>1, <1>2, BufferStays
<1>. QED
  BY <1>4, <1>5, <1>6, <1>8, <1>10, <1>11, <1>12, <1>13, <1>14

LEMMA TakeResultInv == ASSUME ProtocolInv, TakeResult PROVE ProtocolInv'
<1>. USE DEF ProtocolInv, LineInv
<1>1. /\ driver = "await result" /\ toClient # <<>>
      /\ UNCHANGED <<serverVars, toServer, late, kills>>
  BY DEF TakeResult
<1>2. /\ toClient' = <<>> /\ IsResult(Head(toClient)) /\ driver' \in {"next", "idle"}
      /\ UNCHANGED <<server, file, unwritten>>
  BY <1>1, AnswerFacts DEF TakeResult, ReturnWith, serverVars
<1>3. /\ request \in Request /\ count < request.n /\ count \in Nat /\ request.n \in Nat
      /\ request.addr + count \in Location /\ request.cmd \in {"r", "w"}
  BY <1>1, CommandFacts DEF SDTypeOK
<1>4. ASSUME IsOK(Head(toClient)) PROVE SDTypeOK' /\ CallInv' /\ BufferInv'
  <2>1. /\ driver' = "next" /\ count' = count + 1
        /\ UNCHANGED <<tries, capacity, request, result>>
    BY <1>4 DEF TakeResult
  <2>2. /\ request.cmd = "r" =>
             mem' = [mem EXCEPT ![request.addr + count] = Head(toClient)[2]] /\ newest' = newest
        /\ request.cmd = "w" => newest' = CurrentSector /\ mem' = mem
    BY <1>4, <1>3 DEF TakeResult
  <2>3. request.cmd = "r" => Head(toClient)[2] \in Data
    BY <1>2, <1>4, MessageKinds DEF IsResult
  <2>4. mem' \in [Location -> Data]
    BY <1>3, <2>2, <2>3 DEF SDTypeOK
  <2>5. SDTypeOK'
    <3>1. count' \in Nat
      BY <1>3, <2>1
    <3>. QED
      BY <1>1, <2>1, <2>4, <3>1 DEF SDTypeOK, serverVars
  <2>6. CallInv'
    <3>1. count' <= request.n
      BY <1>3, <2>1
    <3>. QED
      BY <1>1, <1>3, <2>1, <3>1 DEF CallInv, Calling
  <2>7. BufferInv'
    <3>. SUFFICES ASSUME kills' = 0, NEW s \in DOMAIN unwritten' PROVE s = newest'
      BY <2>1 DEF BufferInv, WriteReported
    <3>1. kills = 0 /\ s \in DOMAIN unwritten
      BY <1>1, <1>2
    <3>2. s = IF WriteReported THEN CurrentSector ELSE newest
      BY <3>1 DEF BufferInv
    <3>. QED
      BY <1>1, <1>3, <1>4, <2>2, <3>2 DEF WriteReported
  <2>. QED
    BY <2>5, <2>6, <2>7
<1>5. ASSUME ~IsOK(Head(toClient)) PROVE SDTypeOK' /\ CallInv' /\ BufferInv'
  <2>1. /\ driver' = "idle" /\ request' = None /\ count' = 0 /\ result' = "error"
        /\ UNCHANGED <<tries, capacity, mem, newest>>
    BY <1>5 DEF TakeResult, ReturnWith
  <2>2. SDTypeOK'
    BY <1>1, <2>1 DEF SDTypeOK, serverVars
  <2>3. CallInv'
    BY <2>1 DEF CallInv, Calling
  <2>4. BufferInv'
    BY <1>1, <1>2, <1>5, <2>1 DEF BufferInv, WriteReported
  <2>. QED
    BY <2>2, <2>3, <2>4
<1>6. ServedInv'
  BY <1>1, <1>2 DEF ServedInv, Calling
<1>7. ~Disconnected /\ ~Disconnected' /\ Asked' = <<>> /\ AnswerInv'
  BY <1>1, <1>2 DEF Disconnected, Asked, AnswerInv
<1>8. WaitingInv' /\ SyncingInv' /\ ServingInv'
  BY <1>1, <1>2, <1>7 DEF WaitingInv, SyncingInv, ServingInv
<1>9. LateInv'
  BY <1>1, <1>2, <1>7 DEF LateInv, SyncingInv
<1>. QED
  BY <1>1, <1>4, <1>5, <1>6, <1>7, <1>8, <1>9

LEMMA ResetClientInv == ASSUME ProtocolInv, ResetClient PROVE ProtocolInv'
<1>. USE DEF ProtocolInv, LineInv
<1>1. /\ driver' = "start" /\ tries' = 0 /\ capacity' = 0 /\ request' = None /\ count' = 0
      /\ toClient' \in {toClient, <<>>}
      /\ UNCHANGED <<result, mem, serverVars, toServer, history>>
      /\ \/ driver \in {"idle", "no disk"}
         \/ toClient = <<>> /\ (~Running \/ (toServer = <<>> /\ server # "serving"))
  BY DEF ResetClient
<1>2. Disconnected' /\ UNCHANGED <<server, unwritten, late, kills, newest>>
  BY <1>1 DEF Disconnected, serverVars, history
<1>3. SDTypeOK'
  BY <1>1, Bounds DEF SDTypeOK, serverVars, history
<1>4. CallInv' /\ ServedInv'
  BY <1>1 DEF CallInv, ServedInv, Calling
<1>5. toClient = <<>> \/ driver = "no disk"
  BY <1>1, AnswerFacts DEF Disconnected
<1>6. AnswerInv'
  BY <1>1, <1>2, <1>5, AnswerFacts DEF AnswerInv, Disconnected
<1>7. server \in {"absent", "waiting", "syncing", "serving"} =>
        Disconnected \/ toServer = <<>>
  <2>1. CASE driver = "no disk"
    BY <2>1 DEF Disconnected
  <2>2. CASE driver = "idle"
    BY <2>2, <1>5 DEF WaitingInv, SyncingInv, ServingInv, Asked, Disconnected
  <2>3. CASE ~Running \/ (toServer = <<>> /\ server # "serving")
    BY <2>3 DEF Running, WaitingInv
  <2>. QED
    BY <1>1, <2>1, <2>2, <2>3
<1>8. (OnlySyns => OnlySyns') /\ (toServer = <<>> => OnlySyns')
  BY <1>1, EmptyQueue DEF OnlySyns
<1>9. WaitingInv' /\ SyncingInv'
  BY <1>1, <1>2, <1>7, <1>8 DEF WaitingInv, SyncingInv, Disconnected
<1>10. ServingInv'
  <2>1. server = "serving" => toClient = <<>>
    BY <1>5 DEF ServingInv, Disconnected
  <2>. QED
    BY <1>1, <1>2, <1>7, <1>8, <2>1 DEF ServingInv
<1>11. LateInv'
  BY <1>1, <1>2, <1>7 DEF LateInv
<1>12. BufferInv'
  <2>1. CASE driver = "await result" /\ toClient # <<>>
    BY <1>5, <2>1
  <2>2. CASE driver # "await result" \/ toClient = <<>>
    BY <1>1, <1>2, <2>2, BufferStays
  <2>. QED
    BY <2>1, <2>2
<1>. QED
  BY <1>1, <1>3, <1>4, <1>6, <1>9, <1>10, <1>11, <1>12

-------------------------------------------------------------------------------
(* The server *)

LEMMA StartServerInv == ASSUME ProtocolInv, StartServer PROVE ProtocolInv'
<1>. USE DEF ProtocolInv, LineInv
<1>1. /\ server = "absent" /\ server' = "waiting"
      /\ UNCHANGED <<driverVars, file, unwritten, toServer, toClient, history>>
  BY DEF StartServer
<1>2. /\ toClient = <<>> /\ Disconnected /\ OnlySyns /\ Disconnected' /\ OnlySyns'
      /\ UNCHANGED <<driver, request, count, late, kills, newest>>
  BY <1>1 DEF WaitingInv, Disconnected, OnlySyns, driverVars, history
<1>3. SDTypeOK'
  BY <1>1, TypesStay
<1>4. CallInv' /\ ServedInv' /\ AnswerInv'
  BY <1>1, <1>2 DEF CallInv, ServedInv, Calling, AnswerInv, Disconnected
<1>5. WaitingInv' /\ SyncingInv' /\ ServingInv'
  BY <1>1, <1>2 DEF WaitingInv, SyncingInv, ServingInv
<1>6. LateInv' /\ BufferInv'
  BY <1>1, <1>2, BufferStays DEF LateInv
<1>. QED
  BY <1>1, <1>3, <1>4, <1>5, <1>6

LEMMA RestartServerInv == ASSUME ProtocolInv, RestartServer PROVE ProtocolInv'
<1>. USE DEF ProtocolInv, LineInv
<1>1. /\ server \in {"killed", "gave up"} /\ toClient = <<>> /\ toClient' = <<>>
      /\ server' = "waiting" /\ toServer' = <<>>
      /\ UNCHANGED <<driverVars, file, unwritten, history>>
  BY DEF RestartServer
<1>2. UNCHANGED <<driver, request, count, late, kills, newest>>
  BY <1>1 DEF driverVars, history
<1>3. SDTypeOK'
  BY <1>1, TypesStay
<1>4. CallInv' /\ ServedInv' /\ AnswerInv'
  BY <1>1, <1>2 DEF CallInv, ServedInv, Calling, AnswerInv
<1>5. toServer' \in Seq(Message) /\ OnlySyns'
  BY <1>1, EmptyQueue DEF OnlySyns
<1>6. WaitingInv' /\ SyncingInv' /\ ServingInv'
  BY <1>1, <1>5 DEF WaitingInv, SyncingInv, ServingInv
<1>7. LateInv' /\ BufferInv'
  BY <1>1, <1>2, BufferStays DEF LateInv
<1>. QED
  BY <1>3, <1>4, <1>5, <1>6, <1>7

LEMMA WaitInv == ASSUME ProtocolInv, Wait PROVE ProtocolInv'
<1>. USE DEF ProtocolInv, LineInv
<1>1. /\ server = "waiting" /\ toServer # <<>> /\ toServer' = Tail(toServer)
      /\ UNCHANGED <<driverVars, file, unwritten, history>>
  BY DEF Wait, NextMessage
<1>2. /\ toClient = <<>> /\ UNCHANGED <<driver, request, count, late, kills, newest>>
      /\ Disconnected' = Disconnected
  BY <1>1 DEF WaitingInv, driverVars, history, Disconnected
<1>3. /\ toServer' \in Seq(Message)
      /\ OnlySyns => OnlySyns' /\ Head(toServer) = SYN
      /\ NoSyns => NoSyns' /\ Head(toServer) # SYN
  BY <1>1, FirstMessage DEF OnlySyns, NoSyns
<1>4. \/ Disconnected /\ OnlySyns
      \/ ~Disconnected /\ NoSyns /\ driver = "await result"
  BY <1>1 DEF WaitingInv, Disconnected
<1>5. CallInv'
  BY <1>2 DEF CallInv, Calling
<1>6. CASE Head(toServer) = SYN
  <2>1. server' = "syncing" /\ toClient' = <<ACK>> /\ Disconnected' /\ OnlySyns'
    BY <1>2, <1>3, <1>4, <1>6, SingleMessage DEF Wait, Reply
  <2>2. SDTypeOK'
    BY <1>1, <2>1, TypesStay
  <2>3. ServedInv' /\ AnswerInv'
    BY <1>2, <2>1 DEF ServedInv, AnswerInv, Calling, Disconnected
  <2>4. WaitingInv' /\ SyncingInv' /\ ServingInv'
    BY <2>1 DEF WaitingInv, SyncingInv, ServingInv
  <2>5. LateInv'
    <3>1. toServer = <<SYN>> => toServer' = <<>>
      BY <1>1, SingleMessage
    <3>. QED
      BY <1>1, <1>2, <2>1, <3>1 DEF LateInv
  <2>6. BufferInv'
    BY <1>1, <1>2, <2>1, BufferStays DEF Disconnected
  <2>. QED
    BY <1>3, <1>5, <2>2, <2>3, <2>4, <2>5, <2>6
<1>7. CASE Head(toServer) # SYN
  <2>1. server' = "waiting" /\ toClient' = <<>> /\ ~Disconnected' /\ NoSyns'
    BY <1>1, <1>2, <1>3, <1>4, <1>7 DEF Wait
  <2>2. SDTypeOK'
    BY <1>1, <2>1, TypesStay
  <2>3. ServedInv' /\ AnswerInv'
    BY <1>1, <1>2, <2>1 DEF ServedInv, AnswerInv, Calling
  <2>4. WaitingInv' /\ SyncingInv' /\ ServingInv'
    BY <1>2, <1>3, <1>4, <1>7, <2>1 DEF WaitingInv, SyncingInv, ServingInv
  <2>5. LateInv'
    BY <2>1 DEF LateInv
  <2>6. BufferInv'
    BY <1>1, <1>2, <2>1, BufferStays
  <2>. QED
    BY <1>3, <1>5, <2>2, <2>3, <2>4, <2>5, <2>6
<1>. QED
  BY <1>6, <1>7

LEMMA ConnectInv == ASSUME ProtocolInv, Connect PROVE ProtocolInv'
<1>. USE DEF ProtocolInv, LineInv
<1>1. /\ server = "syncing" /\ toServer # <<>> /\ toServer' = Tail(toServer)
      /\ UNCHANGED <<driverVars, toClient, history>>
  BY DEF Connect, NextMessage
<1>2. /\ UNCHANGED <<driver, request, count, late, kills, newest>>
      /\ Disconnected' = Disconnected
  BY <1>1 DEF driverVars, history, Disconnected
<1>3. toServer' \in Seq(Message) /\ (OnlySyns => Head(toServer) = SYN)
  BY <1>1, FirstMessage DEF OnlySyns
<1>4. /\ Disconnected \/ (driver = "await capacity" /\ toClient = <<>>)
      /\ driver \notin {"idle", "illegal", "next", "await result"}
  BY <1>1 DEF SyncingInv, Disconnected
<1>5. CallInv' /\ ServedInv' /\ AnswerInv'
  BY <1>1, <1>2, <1>4 DEF CallInv, ServedInv, AnswerInv, Calling, Disconnected
<1>6. CASE Head(toServer) = ACK
  <2>1. server' = "serving" /\ UNCHANGED <<file, unwritten>>
    BY <1>6 DEF Connect
  <2>2. toServer = Greeting /\ toClient = <<>> /\ ~Disconnected /\ driver = "await capacity"
    BY <1>1, <1>3, <1>6, MessageKinds DEF SyncingInv, Disconnected
  <2>3. toServer' = << <<"c">> >> /\ toClient' = <<>>
    BY <1>1, <2>2, GreetingMessages
  <2>4. SDTypeOK'
    BY <1>1, <2>1, TypesStay
  <2>5. WaitingInv' /\ SyncingInv' /\ ServingInv'
    BY <1>2, <2>1, <2>2, <2>3 DEF WaitingInv, SyncingInv, ServingInv, Asked
  <2>6. LateInv' /\ BufferInv'
    BY <1>2, <2>1, <2>2, <2>3, BufferStays DEF LateInv
  <2>. QED
    BY <1>3, <1>5, <2>4, <2>5, <2>6
<1>7. CASE Head(toServer) # ACK
  <2>1. server' = "gave up" /\ Flush
    BY <1>7 DEF Connect
  <2>2. SDTypeOK'
    BY <1>1, <2>1, FlushTypes
  <2>3. WaitingInv' /\ SyncingInv' /\ ServingInv'
    BY <2>1 DEF WaitingInv, SyncingInv, ServingInv
  <2>4. late'
    <3>1. toServer \notin {<<>>, Greeting}
      BY <1>1, <1>7, GreetingMessages
    <3>. QED
      BY <1>1, <1>2, <3>1 DEF LateInv
  <2>5. BufferInv'
    BY <2>1, BufferEmpty DEF Flush, AfterSeek
  <2>. QED
    BY <1>3, <1>5, <2>2, <2>3, <2>4, <2>5 DEF LateInv
<1>. QED
  BY <1>6, <1>7

\* What a serving server finds on the line.
LEMMA ServedMessage ==
  ASSUME ProtocolInv, server = "serving", toServer # <<>>
  PROVE  /\ toClient = <<>>
         /\ \/ Disconnected /\ OnlySyns /\ Head(toServer) = SYN /\ Head(toServer)[1] = "SYN"
            \/ /\ driver = "await capacity" /\ Tail(toServer) = <<>>
               /\ Head(toServer) = <<"c">> /\ Head(toServer) # SYN /\ Head(toServer)[1] = "c"
            \/ /\ driver = "await result" /\ Tail(toServer) = <<>>
               /\ Head(toServer) = Command /\ Head(toServer) # SYN
               /\ Command[1] = request.cmd
               /\ request.cmd \in {"r", "w"} /\ Command[2] = CurrentSector
<1>. USE DEF ProtocolInv, LineInv
<1>1. CASE Disconnected
  BY <1>1, FirstMessage, MessageKinds DEF ServingInv, OnlySyns
<1>2. CASE ~Disconnected
  <2>1. toClient = <<>> /\ toServer = Asked
    BY <1>2 DEF ServingInv
  <2>2. driver \in {"await capacity", "await result"}
    BY <1>2, <2>1 DEF Asked, Disconnected
  <2>3. CASE driver = "await capacity"
    BY <2>1, <2>3, MessageKinds, SingleMessage DEF Asked
  <2>4. CASE driver = "await result"
    <3>1. /\ Command[1] = request.cmd /\ request.cmd \in {"r", "w"}
          /\ Command[2] = CurrentSector
      BY <2>4, CommandFacts
    <3>2. Command # SYN
      BY <3>1, MessageKinds
    <3>. QED
      BY <2>1, <2>4, <3>1, <3>2, SingleMessage DEF Asked
  <2>. QED
    BY <2>2, <2>3, <2>4
<1>. QED
  BY <1>1, <1>2

\* The server answers a served client.
LEMMA AnswerStep ==
  ASSUME ProtocolInv, server = "serving", UNCHANGED <<driverVars, server, history>>,
         toServer # <<>>, toServer' = Tail(toServer), Head(toServer) # SYN,
         NEW m, Reply(m)
  PROVE  /\ toServer' = <<>> /\ toClient' = <<m>> /\ toServer' \in Seq(Message)
         /\ CallInv' /\ ServedInv'
         /\ WaitingInv' /\ SyncingInv' /\ ServingInv' /\ LateInv'
<1>. USE DEF ProtocolInv, LineInv
<1>1. UNCHANGED <<driver, request, count, late, kills, newest>> /\ Disconnected' = Disconnected
  BY DEF driverVars, history, Disconnected
<1>2. toServer' = <<>> /\ toClient' = <<m>> /\ ~Disconnected
  BY ServedMessage, SingleMessage, MessageKinds DEF Reply, Disconnected
<1>3. toServer' \in Seq(Message) /\ toClient' # <<>>
  BY <1>2, EmptyQueue, SingleMessage
<1>4. CallInv' /\ ServedInv'
  BY <1>1 DEF CallInv, ServedInv, Calling
<1>5. WaitingInv' /\ SyncingInv' /\ ServingInv'
  BY <1>1, <1>2, <1>3 DEF WaitingInv, SyncingInv, ServingInv
<1>6. LateInv'
  BY <1>1, <1>2 DEF LateInv
<1>. QED
  BY <1>2, <1>3, <1>4, <1>5, <1>6

LEMMA ResyncInv == ASSUME ProtocolInv, Resync PROVE ProtocolInv'
<1>. USE DEF ProtocolInv, LineInv
<1>1. /\ server = "serving" /\ toServer # <<>> /\ toServer' = Tail(toServer)
      /\ Head(toServer) = SYN /\ server' = "syncing" /\ Reply(ACK)
      /\ UNCHANGED <<driverVars, file, unwritten, history>>
  BY DEF Resync, NextMessage
<1>2. /\ UNCHANGED <<driver, request, count, late, kills, newest>>
      /\ Disconnected' = Disconnected
  BY <1>1 DEF driverVars, history, Disconnected
<1>3. /\ Disconnected /\ OnlySyns /\ toClient = <<>>
  BY <1>1, ServedMessage
<1>4. toServer' \in Seq(Message) /\ OnlySyns' /\ toClient' = <<ACK>>
  BY <1>1, <1>3, FirstMessage, SingleMessage DEF OnlySyns, Reply
<1>5. SDTypeOK'
  BY <1>1, TypesStay
<1>6. CallInv' /\ ServedInv' /\ AnswerInv'
  BY <1>2, <1>3, <1>4 DEF CallInv, ServedInv, Calling, AnswerInv, Disconnected
<1>7. WaitingInv' /\ SyncingInv' /\ ServingInv'
  BY <1>1, <1>2, <1>3, <1>4 DEF WaitingInv, SyncingInv, ServingInv
<1>8. LateInv'
  <2>1. toServer = <<SYN>> => toServer' = <<>>
    BY <1>1, SingleMessage
  <2>. QED
    BY <1>1, <1>2, <1>3, <2>1 DEF LateInv
<1>9. BufferInv'
  BY <1>1, <1>2, <1>3, BufferStays DEF Disconnected
<1>. QED
  BY <1>4, <1>5, <1>6, <1>7, <1>8, <1>9

LEMMA QueryInv == ASSUME ProtocolInv, Query PROVE ProtocolInv'
<1>. USE DEF ProtocolInv, LineInv
<1>1. /\ server = "serving" /\ toServer # <<>> /\ toServer' = Tail(toServer)
      /\ Head(toServer)[1] \notin {"SYN", "r", "w"}
      /\ Reply(IF Head(toServer) = <<"c">> THEN <<"OK", TOTAL>> ELSE <<"UNCMD">>)
      /\ UNCHANGED <<driverVars, serverVars, history>>
  BY DEF Query, NextMessage
<1>2. /\ driver = "await capacity" /\ Head(toServer) = <<"c">> /\ Head(toServer) # SYN
      /\ Reply(<<"OK", TOTAL>>) /\ driver' = driver
      /\ UNCHANGED <<server, file, unwritten, newest, kills>>
  BY <1>1, ServedMessage DEF driverVars, serverVars, history
<1>3. /\ toClient' = << <<"OK", TOTAL>> >> /\ toServer' \in Seq(Message)
      /\ CallInv' /\ ServedInv'
      /\ WaitingInv' /\ SyncingInv' /\ ServingInv' /\ LateInv'
  BY <1>1, <1>2, AnswerStep
<1>4. SDTypeOK'
  BY <1>1, <1>2, TypesStay
<1>5. AnswerInv' /\ BufferInv'
  BY <1>2, <1>3, BufferStays DEF AnswerInv
<1>. QED
  BY <1>3, <1>4, <1>5

\* A read, or a refused command: only the answer matters.
LEMMA ReplyInv ==
  ASSUME ProtocolInv, server = "serving", toServer # <<>>, toServer' = Tail(toServer),
         Head(toServer) # SYN, driver = "await result", UNCHANGED <<driverVars, server, history>>,
         NEW m, Reply(m), IsResult(m), IsResult(m)', SDTypeOK', BufferInv'
  PROVE  ProtocolInv'
<1>1. toClient' = <<m>> /\ Head(<<m>>) = m /\ driver' = "await result"
  BY AnswerStep, SingleMessage DEF driverVars
<1>2. AnswerInv'
  BY <1>1 DEF AnswerInv
<1>. QED
  BY <1>2, AnswerStep DEF ProtocolInv, LineInv

\* A command that is read or written, as the server finds it.
LEMMA CommandServed ==
  ASSUME ProtocolInv, server = "serving", toServer # <<>>, Head(toServer)[1] \in {"r", "w"}
  PROVE  /\ driver = "await result" /\ toClient = <<>> /\ Head(toServer) # SYN
         /\ Head(toServer)[1] = request.cmd /\ Head(toServer)[2] = CurrentSector
         /\ request.cmd = "w" => Head(toServer)[3] = mem[request.addr + count]
         /\ request \in Request /\ count < request.n
         /\ request.addr + count \in Location /\ mem[request.addr + count] \in Data
         /\ OnDisk(CurrentSector) <=> CurrentSector \in Sector
<1>1. /\ driver = "await result" /\ toClient = <<>> /\ Head(toServer) # SYN
      /\ Head(toServer) = Command
  BY ServedMessage
<1>2. SDTypeOK /\ CallInv
  BY DEF ProtocolInv
<1>3. /\ CurrentSector \in Nat /\ request.addr + count \in Location
      /\ request \in Request /\ count < request.n
      /\ Command[1] = request.cmd /\ Command[2] = CurrentSector
      /\ request.cmd = "w" => Command[3] = mem[request.addr + count]
  BY <1>1, <1>2, CommandFacts
<1>4. mem[request.addr + count] \in Data
  BY <1>2, <1>3 DEF SDTypeOK
<1>5. OnDisk(CurrentSector) <=> CurrentSector \in Sector
  BY <1>3, Bounds DEF OnDisk, Sector
<1>. QED
  BY <1>1, <1>3, <1>4, <1>5

\* A sector that is not on the disk is refused; nothing is written.
LEMMA Refused ==
  ASSUME ProtocolInv, server = "serving", toServer # <<>>, toServer' = Tail(toServer),
         Head(toServer)[1] \in {"r", "w"}, ~OnDisk(Head(toServer)[2]), Reply(<<"TOOBIG">>),
         UNCHANGED <<driverVars, server, file, unwritten, history>>
  PROVE  ProtocolInv'
<1>1. UNCHANGED <<driver, request, count, newest, kills>>
  BY DEF driverVars, history
<1>2. IsResult(<<"TOOBIG">>) /\ IsResult(<<"TOOBIG">>)'
  BY <1>1, CommandServed DEF IsResult, OnDisk, CurrentSector
<1>3. toClient' = << <<"TOOBIG">> >> /\ Head(toClient') = <<"TOOBIG">>
  BY CommandServed, SingleMessage DEF Reply
<1>4. SDTypeOK'
  BY TypesStay DEF ProtocolInv
<1>5. ~WriteReported /\ ~WriteReported'
  BY <1>3, CommandServed, MessageKinds DEF WriteReported
<1>6. BufferInv'
  BY <1>1, <1>5 DEF BufferInv, ProtocolInv
<1>. QED
  BY <1>2, <1>4, <1>6, CommandServed, ReplyInv

LEMMA ReadInv == ASSUME ProtocolInv, Read PROVE ProtocolInv'
<1>1. /\ server = "serving" /\ toServer # <<>> /\ toServer' = Tail(toServer)
      /\ Head(toServer)[1] = "r" /\ UNCHANGED <<driverVars, server, history>>
  BY DEF Read, NextMessage
<1>2. /\ UNCHANGED <<driver, request, count, kills>> /\ CurrentSector' = CurrentSector
      /\ Head(toServer)[2] = CurrentSector /\ request.cmd = "r"
  BY <1>1, CommandServed DEF driverVars, history, CurrentSector
<1>3. CASE OnDisk(Head(toServer)[2])
  <2>1. Flush /\ Reply(<<"OK", Image[CurrentSector]>>) /\ OnDisk(CurrentSector)
    BY <1>2, <1>3 DEF Read
  <2>2. SDTypeOK
    BY DEF ProtocolInv
  <2>3. Image' = Image /\ unwritten' = <<>>
    BY <2>1, <2>2, FlushEffect
  <2>4. Image[CurrentSector] \in Data
    BY <1>1, <2>1, <2>2, CommandServed, ImageType
  <2>5. /\ IsResult(<<"OK", Image[CurrentSector]>>)
        /\ IsResult(<<"OK", Image[CurrentSector]>>)'
    BY <1>2, <2>1, <2>3, <2>4, MessageKinds DEF IsResult, OnDisk
  <2>6. SDTypeOK'
    BY <1>1, <2>1, <2>2, FlushTypes
  <2>7. BufferInv'
    BY <2>3, BufferEmpty
  <2>. QED
    BY <1>1, <1>2, <2>1, <2>3, <2>5, <2>6, <2>7, CommandServed, ReplyInv
<1>4. CASE ~OnDisk(Head(toServer)[2])
  BY <1>1, <1>4, Refused DEF Read
<1>. QED
  BY <1>3, <1>4

\* The image after a write: the sector has the new data.
LEMMA WriteEffect ==
  ASSUME SDTypeOK, NEW s \in Sector, NEW d \in Data,
         file' = AfterSeek.file, unwritten' = Buffered(s, d)
  PROVE  /\ file' \in [Sector -> Data]
         /\ DOMAIN unwritten' = {s} /\ unwritten'[s] = d
         /\ Image' = [Image EXCEPT ![s] = d]
<1>1. file' = Image /\ AfterSeek.unwritten = <<>>
  BY DEF AfterSeek
<1>2. DOMAIN unwritten' = {s} /\ unwritten'[s] = d
  BY <1>1, EmptyQueue DEF Buffered
<1>3. Image' = [x \in Sector |-> IF x \in {s} THEN d ELSE Image[x]]
  BY <1>1, <1>2 DEF Image
<1>. QED
  BY <1>1, <1>2, <1>3, ImageType

LEMMA WriteInv == ASSUME ProtocolInv, Write PROVE ProtocolInv'
<1>1. /\ server = "serving" /\ toServer # <<>> /\ toServer' = Tail(toServer)
      /\ Head(toServer)[1] = "w" /\ UNCHANGED <<driverVars, server, history>>
  BY DEF Write, NextMessage
<1>2. /\ UNCHANGED <<driver, request, count, kills>> /\ CurrentSector' = CurrentSector
      /\ Head(toServer)[2] = CurrentSector /\ request.cmd = "w" /\ driver = "await result"
      /\ Head(toServer)[3] = mem[request.addr + count] /\ mem[request.addr + count] \in Data
      /\ Head(toServer) # SYN /\ (OnDisk(CurrentSector) <=> CurrentSector \in Sector)
  BY <1>1, CommandServed DEF driverVars, history, CurrentSector
<1>3. CASE OnDisk(Head(toServer)[2])
  <2>1. /\ Reply(<<"OK">>) /\ CurrentSector \in Sector /\ file' = AfterSeek.file
        /\ unwritten' = Buffered(CurrentSector, mem[request.addr + count])
    BY <1>2, <1>3 DEF Write
  <2>2. SDTypeOK
    BY DEF ProtocolInv
  <2>3. /\ file' \in [Sector -> Data] /\ DOMAIN unwritten' = {CurrentSector}
        /\ unwritten'[CurrentSector] \in Data
    BY <1>2, <2>1, <2>2, WriteEffect
  <2>4. SDTypeOK'
    <3>1. DOMAIN unwritten' \subseteq Sector /\ \A x \in DOMAIN unwritten' : unwritten'[x] \in Data
      BY <2>1, <2>3
    <3>. QED
      BY <1>1, <2>2, <2>3, <3>1 DEF SDTypeOK, driverVars, history
  <2>5. IsResult(<<"OK">>) /\ IsResult(<<"OK">>)'
    BY <1>2, <1>3, MessageKinds DEF IsResult, OnDisk
  <2>6. toClient' = << <<"OK">> >>
    BY <1>1, <2>1, CommandServed, SingleMessage DEF Reply
  <2>7. WriteReported'
    BY <1>2, <2>6, SingleMessage, MessageKinds DEF WriteReported
  <2>8. BufferInv'
    BY <1>2, <2>3, <2>7 DEF BufferInv
  <2>. QED
    BY <1>1, <1>2, <2>1, <2>4, <2>5, <2>8, ReplyInv
<1>4. CASE ~OnDisk(Head(toServer)[2])
  BY <1>1, <1>4, Refused DEF Write
<1>. QED
  BY <1>3, <1>4

LEMMA KillServerInv == ASSUME ProtocolInv, KillServer PROVE ProtocolInv'
<1>. USE DEF ProtocolInv, LineInv
<1>1. /\ server' = "killed" /\ unwritten' = <<>> /\ kills < MAX_KILLS /\ kills' = kills + 1
      /\ Running /\ toServer' \in {toServer, <<>>}
      /\ UNCHANGED <<driverVars, file, toClient, late, newest>>
  BY DEF KillServer
<1>2. UNCHANGED <<driver, request, count>> /\ Disconnected' = Disconnected
  BY <1>1 DEF driverVars, Disconnected
<1>3. kills' \in 0 .. MAX_KILLS /\ kills' # 0
  <2>1. kills \in 0 .. MAX_KILLS
    BY DEF SDTypeOK
  <2>. QED
    BY <1>1, <2>1, Bounds
<1>4. SDTypeOK'
  <2>1. DOMAIN unwritten' = {}
    BY <1>1, EmptyQueue
  <2>. QED
    BY <1>1, <1>3, <2>1 DEF SDTypeOK, driverVars
<1>5. CallInv' /\ ServedInv'
  BY <1>2, <1>3 DEF CallInv, ServedInv, Calling
<1>6. toServer' \in Seq(Message)
  BY <1>1, EmptyQueue
<1>7. AnswerInv'
  <2>1. IsResult(Head(toClient)) => IsResult(Head(toClient))'
    BY <1>1, <1>2, <1>3 DEF IsResult, CurrentSector
  <2>. QED
    BY <1>1, <1>2, <2>1 DEF AnswerInv
<1>8. WaitingInv' /\ SyncingInv' /\ ServingInv'
  BY <1>1 DEF WaitingInv, SyncingInv, ServingInv
<1>9. LateInv' /\ BufferInv'
  BY <1>1, <1>3, BufferEmpty DEF LateInv
<1>. QED
  BY <1>4, <1>5, <1>6, <1>7, <1>8, <1>9

-------------------------------------------------------------------------------
(* Every step *)

LEMMA StutterInv == ASSUME ProtocolInv, UNCHANGED sdvars PROVE ProtocolInv'
<1>1. UNCHANGED <<driver, tries, capacity, request, count, result, mem, server, file, unwritten,
                  toServer, toClient, late, kills, newest>>
  BY DEF sdvars, driverVars, serverVars, history
<1>2. SDTypeOK'
  BY <1>1 DEF ProtocolInv, SDTypeOK
<1>3. CallInv' /\ ServedInv' /\ LateInv'
  BY <1>1 DEF ProtocolInv, CallInv, Calling, ServedInv, LateInv, Disconnected
<1>4. BufferInv'
  BY <1>1 DEF ProtocolInv, BufferInv, WriteReported, CurrentSector
<1>5. LineInv'
  BY <1>1 DEF ProtocolInv, LineInv, AnswerInv, IsResult, WaitingInv, SyncingInv, ServingInv,
              Disconnected, OnlySyns, NoSyns, Asked, Command, CurrentSector, Image
<1>. QED
  BY <1>2, <1>3, <1>4, <1>5 DEF ProtocolInv

LEMMA StepProtocol == ProtocolInv /\ [SDNext]_sdvars => ProtocolInv'
<1>1. SUFFICES ASSUME ProtocolInv, [SDNext]_sdvars PROVE ProtocolInv'
  OBVIOUS
<1>2. CASE UNCHANGED sdvars
  BY <1>1, <1>2, StutterInv
<1>3. CASE CallCap
  BY <1>1, <1>3, CallCapInv
<1>4. CASE \E r \in Request : CallIo(r)
  BY <1>1, <1>4, CallIoInv
<1>5. CASE Client
  <2>1. CASE Illegal
    BY <1>1, <2>1, ReturnInv DEF Illegal
  <2>2. CASE NoMoreSectors
    BY <1>1, <2>2, ReturnInv DEF NoMoreSectors
  <2>. QED
    BY <1>1, <1>5, <2>1, <2>2, TimeoutInv, AnswerToSynInv, TakeCapacityInv, SendRequestInv,
       TakeResultInv DEF Client
<1>6. CASE ResetClient
  BY <1>1, <1>6, ResetClientInv
<1>7. CASE StartServer \/ RestartServer \/ KillServer
  BY <1>1, <1>7, StartServerInv, RestartServerInv, KillServerInv
<1>8. CASE Server
  BY <1>1, <1>8, WaitInv, ConnectInv, ResyncInv, QueryInv, ReadInv, WriteInv DEF Server
<1>. QED
  BY <1>1, <1>2, <1>3, <1>4, <1>5, <1>6, <1>7, <1>8 DEF SDNext

LEMMA ProtocolInvariant == SDSpec => []ProtocolInv
BY InitProtocol, StepProtocol, PTL DEF SDSpec

-------------------------------------------------------------------------------
(* Safety *)

\* Type correctness of the driver and the disk server, whatever is lost, late or
\* killed, and if the client is reset as in ResetClient.
THEOREM SerialDiskTypeCorrect == SDSpec => []SDTypeOK
BY ProtocolInvariant, PTL DEF ProtocolInv

\* The server gives up only if a SYN was sent before the one before it was done
\* with; a client that was reset while it was idle or the line quiet finds its way back
\* into the protocol.
THEOREM HandshakeSurvivesReset == SDSpec => []GivesUpOnlyIfLate
<1>1. ProtocolInv => GivesUpOnlyIfLate
  BY DEF ProtocolInv, LateInv, GivesUpOnlyIfLate
<1>. QED
  BY <1>1, ProtocolInvariant, PTL

\* Killing the server loses no write that the client was told of but the last.
THEOREM KillLosesTheLastWrite == SDSpec => []KillLosesOneSector
<1>1. ProtocolInv => KillLosesOneSector
  <2>. SUFFICES ASSUME ProtocolInv, kills = 0, NEW s \in Sector
                PROVE  \/ file[s] = Image[s] \/ s = newest
                       \/ (request.cmd = "w" /\ s = CurrentSector)
    BY DEF KillLosesOneSector
  <2>1. CASE s \notin DOMAIN unwritten
    BY <2>1, ImageType DEF ProtocolInv
  <2>2. CASE s \in DOMAIN unwritten
    <3>1. s = IF WriteReported THEN CurrentSector ELSE newest
      BY <2>2 DEF ProtocolInv, BufferInv
    <3>. QED
      BY <3>1 DEF WriteReported
  <2>. QED
    BY <2>1, <2>2
<1>. QED
  BY <1>1, ProtocolInvariant, PTL

-------------------------------------------------------------------------------
(* Driver and server are a block device *)

BlockStep == [kills' > 0 \/ Block!Next]_<<Block!vars, kills>>

LEMMA InitBlock == SDInit => Block!Init
<1>1. SUFFICES ASSUME SDInit PROVE Block!Init
  OBVIOUS
<1>2. Image \in [Sector -> Data] /\ Transferred = 0
  BY <1>1, InitProtocol, ImageType DEF ProtocolInv, SDInit, Transferred, WriteReported
<1>. QED
  BY <1>1, <1>2 DEF SDInit, Block!Init, Block!None, None

LEMMA PlusZero == \A n \in Nat : n + 0 = n
OBVIOUS

LEMMA NotReported ==
  ASSUME driver # "await result" \/ toClient = <<>>, count \in Nat
  PROVE  Transferred = count
<1>1. ~WriteReported
  BY DEF WriteReported
<1>2. (IF WriteReported THEN 1 ELSE 0) = 0
  BY <1>1
<1>. QED
  BY <1>2, PlusZero, Zenon DEF Transferred

LEMMA ReportedNext ==
  ASSUME driver' # "await result" \/ toClient' = <<>>, count' \in Nat
  PROVE  Transferred' = count'
<1>1. ~WriteReported'
  BY DEF WriteReported
<1>2. (IF WriteReported THEN 1 ELSE 0)' = 0
  BY <1>1
<1>3. Transferred' = count' + 0
  BY <1>2 DEF Transferred
<1>. QED
  BY <1>3, PlusZero, Zenon

\* Steps that the block device does not see.
LEMMA BlockStutter ==
  ASSUME Image' = Image, Transferred' = Transferred, UNCHANGED <<mem, request, result, kills>>
  PROVE  BlockStep
BY DEF BlockStep, Block!vars

LEMMA ImageStays == ASSUME UNCHANGED <<file, unwritten>> PROVE Image' = Image
BY DEF Image

LEMMA InvTypes ==
  ASSUME ProtocolInv
  PROVE  SDTypeOK /\ count \in Nat /\ kills \in Nat
<1>1. SDTypeOK
  BY DEF ProtocolInv
<1>2. count \in Nat
  BY <1>1 DEF SDTypeOK
<1>3. kills \in 0 .. MAX_KILLS
  BY <1>1 DEF SDTypeOK
<1>. QED
  BY <1>1, <1>2, <1>3

\* Connecting, and waiting for the server.
LEMMA ConnectingIsStutter ==
  ASSUME ProtocolInv, ProtocolInv',
         CallCap \/ Timeout \/ AnswerToSyn \/ TakeCapacity \/ SendRequest
  PROVE  BlockStep
<1>1. UNCHANGED <<mem, request, count, result, file, unwritten, kills>>
  BY DEF CallCap, Timeout, AnswerToSyn, TakeCapacity, SendRequest, serverVars, history
<1>2. driver # "await result" /\ (driver' # "await result" \/ driver = "next")
  BY DEF CallCap, Timeout, AnswerToSyn, TakeCapacity, SendRequest, Fail
<1>3. driver = "next" => toClient = <<>> /\ toClient' = <<>>
  BY AnswerFacts DEF ProtocolInv, LineInv, Disconnected, CallCap, Timeout, AnswerToSyn,
                     TakeCapacity, SendRequest
<1>4. Transferred' = Transferred
  BY <1>1, <1>2, <1>3, InvTypes, NotReported, ReportedNext
<1>. QED
  BY <1>1, <1>4, ImageStays, BlockStutter

LEMMA CallIsCall ==
  ASSUME ProtocolInv, ProtocolInv', NEW r \in Request, CallIo(r) PROVE BlockStep
<1>1. /\ driver = "idle" /\ request' = r /\ count' = 0 /\ result' = "none"
      /\ driver' \in {"next", "illegal"}
      /\ UNCHANGED <<mem, file, unwritten, kills>>
  BY DEF CallIo, serverVars, history
<1>2. request = None
  BY <1>1 DEF ProtocolInv, CallInv, Calling
<1>3. Transferred' = 0
  BY <1>1, ReportedNext
<1>4. Block!Call(r)
  BY <1>1, <1>2, <1>3, ImageStays DEF Block!Call, Block!None, None
<1>. QED
  BY <1>4 DEF BlockStep, Block!Next

LEMMA IllegalIsReturn == ASSUME ProtocolInv, ProtocolInv', Illegal PROVE BlockStep
<1>1. /\ driver = "illegal" /\ driver' = "idle" /\ request' = None /\ count' = 0
      /\ result' = "error" /\ UNCHANGED <<mem, file, unwritten, kills>>
  BY DEF Illegal, ReturnWith, serverVars, history
<1>2. request # None /\ request.cmd \notin {"r", "w"}
  BY <1>1, RequestFacts DEF ProtocolInv, CallInv, Calling
<1>3. Transferred' = 0
  BY <1>1, ReportedNext
<1>4. Block!Return("error")
  BY <1>1, <1>2, <1>3, ImageStays DEF Block!Return, Block!None, None
<1>. QED
  BY <1>4 DEF BlockStep, Block!Next

LEMMA EndIsReturn == ASSUME ProtocolInv, ProtocolInv', NoMoreSectors PROVE BlockStep
<1>1. /\ driver = "next" /\ driver' = "idle" /\ request' = None /\ count' = 0
      /\ result' = "ok" /\ count = request.n /\ UNCHANGED <<mem, file, unwritten, kills>>
  BY DEF NoMoreSectors, ReturnWith, serverVars, history
<1>2. request # None /\ request.cmd \in {"r", "w"}
  BY <1>1, RequestFacts DEF ProtocolInv, CallInv, Calling
<1>3. Transferred' = 0 /\ Transferred = count
  BY <1>1, InvTypes, ReportedNext, NotReported
<1>4. Block!Return("ok")
  BY <1>1, <1>2, <1>3, ImageStays DEF Block!Return, Block!None, None
<1>. QED
  BY <1>4 DEF BlockStep, Block!Next

LEMMA ResultIsStep ==
  ASSUME ProtocolInv, ProtocolInv', TakeResult, kills = 0 PROVE BlockStep
<1>1. /\ driver = "await result" /\ toClient # <<>> /\ toClient' = Tail(toClient)
      /\ UNCHANGED <<serverVars, toServer, late, kills, file, unwritten>>
  BY DEF TakeResult, serverVars
<1>2. Tail(toClient) = <<>> /\ IsResult(Head(toClient)) /\ Image' = Image
  BY <1>1, AnswerFacts, ImageStays DEF ProtocolInv, LineInv
<1>3. /\ request \in Request /\ request # None /\ request.cmd \in {"r", "w"} /\ count \in Nat
      /\ request.n \in Nat /\ count < request.n /\ CurrentSector \in Nat
      /\ OnDisk(CurrentSector) <=> CurrentSector \in Sector
  <2>1. SDTypeOK /\ CallInv /\ count \in Nat
    BY InvTypes DEF ProtocolInv
  <2>2. /\ request \in Request /\ request.cmd \in {"r", "w"} /\ CurrentSector \in Nat
        /\ request.n \in Nat /\ count < request.n
    BY <1>1, <2>1, CommandFacts
  <2>3. OnDisk(CurrentSector) <=> CurrentSector \in Sector
    BY <2>2, Bounds DEF OnDisk, Sector
  <2>. QED
    BY <2>1, <2>2, <2>3, RequestFacts
<1>4. Transferred' = count'
  BY <1>1, <1>2, InvTypes, ReportedNext DEF ProtocolInv, SDTypeOK
<1>5. CASE IsOK(Head(toClient))
  <2>1. count' = count + 1 /\ UNCHANGED <<request, result>>
    BY <1>5 DEF TakeResult
  <2>2. CASE request.cmd = "r"
    <3>1. mem' = [mem EXCEPT ![request.addr + count] = Head(toClient)[2]]
      BY <1>5, <2>2 DEF TakeResult
    <3>2. Head(toClient)[2] = Image[CurrentSector] /\ CurrentSector \in Sector
      BY <1>2, <1>3, <1>5, <2>2, MessageKinds DEF IsResult
    <3>3. Transferred = count
      BY <1>3, <2>2 DEF Transferred, WriteReported
    <3>4. Block!Transfer
      BY <1>2, <1>3, <1>4, <2>1, <2>2, <3>1, <3>2, <3>3 DEF Block!Transfer, CurrentSector
    <3>. QED
      BY <3>4 DEF BlockStep, Block!Next
  <2>3. CASE request.cmd = "w"
    <3>1. mem' = mem
      BY <1>5, <2>3 DEF TakeResult
    <3>2. Transferred = count + 1
      BY <1>1, <1>5, <2>3 DEF Transferred, WriteReported
    <3>. QED
      BY <1>1, <1>2, <1>4, <2>1, <3>1, <3>2, BlockStutter
  <2>. QED
    BY <1>3, <2>2, <2>3
<1>6. CASE ~IsOK(Head(toClient))
  <2>1. /\ request' = None /\ count' = 0 /\ result' = "error" /\ UNCHANGED mem
    BY <1>6 DEF TakeResult, ReturnWith
  <2>2. CurrentSector \notin Sector
    BY <1>2, <1>3, <1>6 DEF IsResult
  <2>3. Transferred = count
    BY <1>3, <1>6 DEF Transferred, WriteReported
  <2>4. Block!Return("error")
    BY <1>2, <1>3, <1>4, <2>1, <2>2, <2>3
       DEF Block!Return, Block!None, None, CurrentSector
  <2>. QED
    BY <2>4 DEF BlockStep, Block!Next
<1>. QED
  BY <1>5, <1>6

\* A client is never reset in the middle of a call, unless the server was killed.
LEMMA ResetIsStutter ==
  ASSUME ProtocolInv, ProtocolInv', ResetClient, kills = 0 PROVE BlockStep
<1>1. /\ driver' = "start" /\ request' = None /\ count' = 0
      /\ UNCHANGED <<result, mem, server, file, unwritten, kills>>
      /\ \/ driver \in {"idle", "no disk"}
         \/ ~Running \/ server # "serving"
  BY DEF ResetClient, serverVars, history
<1>2. ~Calling
  BY <1>1 DEF ProtocolInv, ServedInv, Running, Calling
<1>3. request = None /\ count = 0 /\ driver # "await result"
  BY <1>2 DEF ProtocolInv, CallInv, Calling
<1>4. Transferred = 0 /\ Transferred' = 0
  BY <1>1, <1>3, NotReported, ReportedNext
<1>. QED
  BY <1>1, <1>3, <1>4, ImageStays, BlockStutter

\* Starting the server, and its handshake.
LEMMA ServerHandshakeIsStutter ==
  ASSUME ProtocolInv, ProtocolInv',
         StartServer \/ RestartServer \/ Wait \/ Connect \/ Resync \/ Query
  PROVE  BlockStep
<1>1. UNCHANGED <<mem, request, count, result, driver, kills>>
  BY DEF StartServer, RestartServer, Wait, Connect, Resync, Query, driverVars, history
<1>2. UNCHANGED <<file, unwritten>> \/ Flush
  BY DEF StartServer, RestartServer, Wait, Connect, Resync, Query, serverVars
<1>3. Image' = Image
  BY <1>2, ImageStays, FlushEffect, InvTypes
<1>4. driver = "await result" => UNCHANGED toClient
  <2>1. CASE StartServer \/ RestartServer \/ Connect
    BY <2>1 DEF StartServer, RestartServer, Connect
  <2>2. CASE Wait
    BY <2>2, FirstMessage, MessageKinds
       DEF Wait, NextMessage, ProtocolInv, LineInv, WaitingInv, NoSyns, Disconnected
  <2>3. CASE Resync \/ Query
    BY <2>3, ServedMessage DEF Resync, Query, NextMessage, Disconnected
  <2>. QED
    BY <2>1, <2>2, <2>3
<1>5. Transferred' = Transferred
  BY <1>1, <1>4 DEF Transferred, WriteReported
<1>. QED
  BY <1>1, <1>3, <1>5, BlockStutter

LEMMA ReadIsStutter == ASSUME ProtocolInv, ProtocolInv', Read PROVE BlockStep
<1>1. /\ server = "serving" /\ toServer # <<>> /\ Head(toServer)[1] = "r"
      /\ UNCHANGED <<mem, request, count, result, driver, kills>>
      /\ UNCHANGED <<file, unwritten>> \/ Flush
  BY DEF Read, NextMessage, driverVars, history
<1>2. Image' = Image
  BY <1>1, ImageStays, FlushEffect, InvTypes
<1>3. request.cmd = "r"
  BY <1>1, CommandServed
<1>4. Transferred' = Transferred
  BY <1>1, <1>3 DEF Transferred, WriteReported
<1>. QED
  BY <1>1, <1>2, <1>4, BlockStutter

LEMMA WriteIsTransfer == ASSUME ProtocolInv, ProtocolInv', Write PROVE BlockStep
<1>1. /\ server = "serving" /\ toServer # <<>> /\ Head(toServer)[1] = "w"
      /\ UNCHANGED <<mem, request, count, result, driver, kills>>
  BY DEF Write, NextMessage, driverVars, history
<1>2. /\ driver = "await result" /\ toClient = <<>> /\ request.cmd = "w"
      /\ Head(toServer)[2] = CurrentSector
      /\ Head(toServer)[3] = mem[request.addr + count] /\ mem[request.addr + count] \in Data
      /\ count < request.n /\ (OnDisk(CurrentSector) <=> CurrentSector \in Sector)
  BY <1>1, CommandServed
<1>3. count \in Nat /\ SDTypeOK /\ Transferred = count
  BY <1>2, InvTypes, NotReported
<1>4. CASE OnDisk(Head(toServer)[2])
  <2>1. /\ toClient' = << <<"OK">> >> /\ file' = AfterSeek.file
        /\ unwritten' = Buffered(CurrentSector, mem[request.addr + count])
    BY <1>2, <1>4, SingleMessage DEF Write, Reply
  <2>2. Image' = [Image EXCEPT ![CurrentSector] = mem[request.addr + count]]
    BY <1>2, <1>3, <1>4, <2>1, WriteEffect
  <2>3. Transferred' = count + 1
    BY <1>1, <1>2, <2>1, SingleMessage, MessageKinds DEF Transferred, WriteReported
  <2>4. Block!Transfer
    BY <1>1, <1>2, <1>3, <1>4, <2>2, <2>3 DEF Block!Transfer, CurrentSector
  <2>. QED
    BY <2>4 DEF BlockStep, Block!Next
<1>5. CASE ~OnDisk(Head(toServer)[2])
  <2>1. toClient' = << <<"TOOBIG">> >> /\ UNCHANGED <<file, unwritten>>
    BY <1>2, <1>5, SingleMessage DEF Write, Reply
  <2>2. ~WriteReported'
    BY <2>1, SingleMessage, MessageKinds DEF WriteReported
  <2>3. Transferred' = count
    BY <1>1, <1>3, <2>2 DEF Transferred
  <2>. QED
    BY <1>1, <1>3, <2>1, <2>3, ImageStays, BlockStutter
<1>. QED
  BY <1>4, <1>5

LEMMA StepIsBlockStep ==
  ASSUME ProtocolInv, ProtocolInv', [SDNext]_sdvars PROVE BlockStep
<1>1. CASE kills' > 0
  BY <1>1 DEF BlockStep
<1>2. CASE ~(kills' > 0) /\ UNCHANGED sdvars
  <2>1. /\ UNCHANGED <<driver, request, count, result, mem, file, unwritten, toClient, kills>>
    BY <1>2 DEF sdvars, driverVars, serverVars, history
  <2>2. Image' = Image /\ Transferred' = Transferred
    BY <2>1, ImageStays DEF Transferred, WriteReported
  <2>. QED
    BY <2>1, <2>2, BlockStutter
<1>3. CASE ~(kills' > 0) /\ SDNext
  <2>1. kills' = 0 /\ kills \in Nat
    <3>1. SDTypeOK'
      BY DEF ProtocolInv
    <3>2. kills' \in 0 .. MAX_KILLS
      BY <3>1 DEF SDTypeOK
    <3>. QED
      BY <1>3, <3>2, InvTypes
  <2>2. ~KillServer
    BY <2>1 DEF KillServer
  <2>3. kills = 0
    BY <1>3, <2>1, <2>2
       DEF SDNext, Client, Server, CallCap, CallIo, Timeout, AnswerToSyn, TakeCapacity, Illegal,
           NoMoreSectors, SendRequest, TakeResult, ResetClient, StartServer, RestartServer,
           Wait, Connect, Resync, Query, Read, Write, history
  <2>. QED
    BY <1>3, <2>2, <2>3, ConnectingIsStutter, CallIsCall, IllegalIsReturn, EndIsReturn,
       ResultIsStep, ResetIsStutter, ServerHandshakeIsStutter, ReadIsStutter, WriteIsTransfer
       DEF SDNext, Client, Server
<1>. QED
  BY <1>1, <1>2, <1>3

\* As long as the server is not killed, driver and server copy exactly the sectors asked
\* for, however late answers come, if the client is reset only between two calls or on a
\* quiet line with no server in a transfer: a reset during a transfer is excluded
\* (ResetClient), since the server then waits for the rest of it (diskserv.c:270).
THEOREM SerialDiskIsBlockDevice == SDSpec => ImplementsBlockDevice
<1>1. ProtocolInv /\ ProtocolInv' /\ [SDNext]_sdvars
        => [kills' > 0 \/ Block!Next]_<<Block!vars, kills>>
  BY StepIsBlockStep DEF BlockStep
<1>. QED
  BY <1>1, InitBlock, ProtocolInvariant, PTL DEF SDSpec, ImplementsBlockDevice
=============================================================================

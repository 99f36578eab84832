-------------------------- MODULE InputDeviceProofs --------------------------
(***************************************************************************)
(* Proofs about keyboard and mouse: for any number of window threads, any  *)
(* scan codes and commands and any size of the ring buffer.                *)
(***************************************************************************)
EXTENDS InputDevice, Integers, SequenceTheorems, TLAPS

-------------------------------------------------------------------------------
(* The interrupt line *)

IrqInv == ctrl \in Ctrl /\ irq \in BOOLEAN /\ NoSpuriousIrq

LEMMA ResetType == CtrlReset \in Ctrl /\ ~CtrlReset.rcvrRdy /\ ~CtrlReset.xmtrIen
BY DEF CtrlReset, Ctrl

LEMMA IInitIrq == IInit => IrqInv
BY ResetType DEF IInit, IrqInv, NoSpuriousIrq

LEMMA StepIrq == IrqInv /\ [INext]_ivars => IrqInv'
<1>. SUFFICES ASSUME IrqInv, [INext]_ivars PROVE IrqInv'
  OBVIOUS
<1>. ctrl \in Ctrl /\ irq \in BOOLEAN /\ (irq => Wanted)
  BY DEF IrqInv, NoSpuriousIrq
<1>1. CASE UNCHANGED <<ctrl, irq>>
  BY <1>1 DEF IrqInv, NoSpuriousIrq, Wanted
<1>2. CASE XmtrDone
  BY <1>2 DEF XmtrDone, Raise, IrqInv, NoSpuriousIrq, Wanted, Ctrl
<1>3. CASE ResetDone
  BY <1>3 DEF ResetDone, CtrlReset, IrqInv, NoSpuriousIrq, Wanted, Ctrl
<1>4. CASE RcvrCallback
  BY <1>4 DEF RcvrCallback, Raise, IrqInv, NoSpuriousIrq, Wanted, Ctrl
<1>5. CASE ReadData
  BY <1>5 DEF ReadData, Lower, IrqInv, NoSpuriousIrq, Wanted, Ctrl
<1>6. ASSUME NEW rien \in BOOLEAN, NEW xien \in XmtrIen, WriteCtrl(rien, xien)
      PROVE  IrqInv'
  <2>1. xien \in BOOLEAN
    BY InputAssumption
  <2>. QED
    BY <1>6, <2>1 DEF WriteCtrl, Assigned, IrqInv, NoSpuriousIrq, Wanted, Ctrl
<1>7. ASSUME NEW c \in Command, WriteData(c)
      PROVE  IrqInv'
  BY <1>7 DEF WriteData, Lower, IrqInv, NoSpuriousIrq, Wanted, Ctrl
<1>8. CASE ClearWritePtr \/ ClearReadPtr \/ WriteAnswer \/ XmtrCallback \/ DeviceReset
  BY <1>1, <1>8 DEF ClearWritePtr, ClearReadPtr, WriteAnswer, XmtrCallback, DeviceReset, regs
<1>9. CASE WriterStep \/ (\E t \in Window, p \in Event : WindowEvent(t, p)) \/ UNCHANGED ivars
  BY <1>1, <1>9 DEF WriterStep, Lock, Critical, Compare, Reject, Accept, Put, Bump, WindowEvent,
                    ivars, regs
<1>. QED
  BY <1>2, <1>3, <1>4, <1>5, <1>6, <1>7, <1>8, <1>9 DEF INext, CpuStep

LEMMA IrqInvariant == ISpec => []IrqInv
BY IInitIrq, StepIrq, PTL DEF ISpec

\* Keyboard and mouse never interrupt for nothing, whatever software enables and
\* whenever it resets them.
THEOREM InputIrqIsJustified == ISpec => []NoSpuriousIrq
BY IrqInvariant, PTL DEF IrqInv

ExactInv == ctrl \in Ctrl /\ irq \in BOOLEAN /\ ~ctrl.xmtrIen /\ IrqIfWanted

LEMMA StepExact ==
  ASSUME TRUE \notin XmtrIen
  PROVE  ExactInv /\ [INext]_ivars => ExactInv'
<1>. SUFFICES ASSUME ExactInv, [INext]_ivars PROVE ExactInv'
  OBVIOUS
<1>. ctrl \in Ctrl /\ irq \in BOOLEAN /\ ~ctrl.xmtrIen /\ (Wanted => irq)
  BY DEF ExactInv, IrqIfWanted
<1>1. CASE UNCHANGED <<ctrl, irq>>
  BY <1>1 DEF ExactInv, IrqIfWanted, Wanted
<1>2. CASE XmtrDone
  BY <1>2 DEF XmtrDone, Raise, ExactInv, IrqIfWanted, Wanted, Ctrl
<1>3. CASE ResetDone
  BY <1>3 DEF ResetDone, CtrlReset, ExactInv, IrqIfWanted, Wanted, Ctrl
<1>4. CASE RcvrCallback
  BY <1>4 DEF RcvrCallback, Raise, ExactInv, IrqIfWanted, Wanted, Ctrl
<1>5. CASE ReadData
  BY <1>5 DEF ReadData, Lower, ExactInv, IrqIfWanted, Wanted, Ctrl
<1>6. ASSUME NEW rien \in BOOLEAN, NEW xien \in XmtrIen, WriteCtrl(rien, xien)
      PROVE  ExactInv'
  <2>1. xien = FALSE
    BY InputAssumption
  <2>. QED
    BY <1>6, <2>1 DEF WriteCtrl, Assigned, ExactInv, IrqIfWanted, Wanted, Ctrl
<1>7. ASSUME NEW c \in Command, WriteData(c)
      PROVE  ExactInv'
  BY <1>7 DEF WriteData, Lower, ExactInv, IrqIfWanted, Wanted, Ctrl
<1>8. CASE ClearWritePtr \/ ClearReadPtr \/ WriteAnswer \/ XmtrCallback \/ DeviceReset
  BY <1>1, <1>8 DEF ClearWritePtr, ClearReadPtr, WriteAnswer, XmtrCallback, DeviceReset, regs
<1>9. CASE WriterStep \/ (\E t \in Window, p \in Event : WindowEvent(t, p)) \/ UNCHANGED ivars
  BY <1>1, <1>9 DEF WriterStep, Lock, Critical, Compare, Reject, Accept, Put, Bump, WindowEvent,
                    ivars, regs
<1>. QED
  BY <1>2, <1>3, <1>4, <1>5, <1>6, <1>7, <1>8, <1>9 DEF INext, CpuStep

\* With the transmitter's interrupt never enabled the line is exact; this is what
\* software has to keep to, as the run that expects a violation shows.
THEOREM InputIrqIsExact ==
  ASSUME TRUE \notin XmtrIen
  PROVE  ISpec => []IrqIfWanted
<1>1. IInit => ExactInv
  BY ResetType DEF IInit, ExactInv, IrqIfWanted, Wanted
<1>. QED
  BY <1>1, StepExact, PTL DEF ISpec, ExactInv

-------------------------------------------------------------------------------
(* Types, and the mutex *)

Packets == Event \cup {<<b>> : b \in Byte}

Critically == {"check", "free", "put", "bump"}

\* Who is between lock and unlock holds the mutex, and knows what to write.
MutexInv ==
  \A t \in Thread :
    /\ writer[t].at \in Critically <=> holder = t
    /\ writer[t].at \in {"lock", "check", "free"} => writer[t].packet \in Packets
    /\ writer[t].at \in {"put", "bump"} => writer[t].packet # <<>>

\* The steps of the CPU thread that matter here by name.
StoreWrite == <<"clear write">>
StoreRead == <<"clear read">>
EndXmtr == <<"xmtr done">>
EndReset == <<"reset done">>

\* The two stores of kbdBufInit follow each other ...
Steps(w) ==
  /\ w \in Seq(Work)
  /\ \A i \in DOMAIN w :
       /\ w[i] = StoreWrite => i + 1 \in DOMAIN w /\ w[i + 1] = StoreRead
       /\ w[i] = StoreRead /\ i # 1 => w[i - 1] = StoreWrite

\* ... and a reset finds no timer of the transmitter running.
WorkInv ==
  /\ Steps(todo)
  /\ \A i \in DOMAIN todo : todo[i] = EndReset => xmtrTimers = 0
  /\ xmtrTimers > 0 => xmtrData \in Command

IInv == ITypeOK /\ MutexInv /\ WorkInv

Clearing == todo # <<>> /\ Head(todo) = StoreRead

Used == (BUF_MAX + writePtr - First) % BUF_MAX

\* The ring buffer while it is only reset when nobody writes: what is accepted
\* fits, and between the two stores of a reset stays clear of the old pointer.
RingInv ==
  /\ Used + Len(InFlight) < BUF_MAX
  /\ \A t \in Thread :
       /\ writer[t].at = "free" /\ writer[t].ahead => readPtr <= writePtr
       /\ writer[t].at = "bump" => /\ writer[t].ptr = writePtr
                                   /\ buf[writePtr] = Head(writer[t].packet)
  /\ Clearing => readPtr = 0 \/ writePtr + Len(InFlight) < readPtr

-------------------------------------------------------------------------------
(* Each step preserves types and mutex *)

LEMMA Constants ==
  /\ BUF_MAX \in Nat /\ BUF_MAX # 0 /\ BUF_MIN_FREE \in Nat /\ BUF_MIN_FREE # 0
  /\ MAX_TIMERS \in Nat /\ MAX_TIMERS # 0
  /\ CPU \in Thread /\ CPU \notin Window /\ "none" \notin Thread
  /\ 0 \in 0 .. BUF_MAX - 1
BY InputAssumption DEF Thread

LEMMA PacketTypes ==
  ASSUME NEW p \in Packets
  PROVE  p \in Seq(Byte) /\ p # <<>> /\ Len(p) \in 1 .. BUF_MIN_FREE
<1>1. CASE p \in Event
  <2>1. p \in Seq(Byte) /\ Len(p) \in 1 .. BUF_MIN_FREE
    BY <1>1, InputAssumption
  <2>. QED
    BY <2>1, Constants, EmptySeq
<1>2. CASE p \in {<<b>> : b \in Byte}
  <2>1. PICK b \in Byte : p = <<b>>
    BY <1>2
  <2>2. p \in Seq(Byte) /\ Len(p) = 1 /\ p # <<>>
    BY <2>1
  <2>. QED
    BY <2>2, Constants
<1>. QED
  BY <1>1, <1>2 DEF Packets

LEMMA NextInRing ==
  ASSUME NEW p \in 0 .. BUF_MAX - 1
  PROVE  NEXT(p) \in 0 .. BUF_MAX - 1 /\ NEXT(p) = IF p = BUF_MAX - 1 THEN 0 ELSE p + 1
<1>1. BUF_MAX \in Nat \ {0}
  BY Constants
<1>2. CASE p = BUF_MAX - 1
  <2>1. p + 1 = BUF_MAX
    BY <1>1, <1>2
  <2>2. BUF_MAX % BUF_MAX = 0
    BY <1>1
  <2>. QED
    BY <1>1, <1>2, <2>1, <2>2 DEF NEXT
<1>3. CASE p # BUF_MAX - 1
  <2>1. p + 1 \in 0 .. BUF_MAX - 1
    BY <1>1, <1>3
  <2>2. (p + 1) % BUF_MAX = p + 1
    BY <1>1, <2>1
  <2>. QED
    BY <1>3, <2>1, <2>2 DEF NEXT
<1>. QED
  BY <1>2, <1>3

LEMMA NotWritingType == NotWriting \in Progress
BY EmptySeq, Constants DEF NotWriting, Progress

\* One thread's progress changes, and with it perhaps the holder of the mutex.
LEMMA ThreadMoves ==
  ASSUME IInv, NEW t \in Thread, NEW r \in Progress,
         writer' = [writer EXCEPT ![t] = r],
         holder' \in Thread \cup {"none"},
         r.at \in Critically <=> holder' = t,
         \A u \in Thread \ {t} : holder' = u <=> holder = u,
         r.at \in {"lock", "check", "free"} => r.packet \in Packets,
         r.at \in {"put", "bump"} => r.packet # <<>>
  PROVE  writer' \in [Thread -> Progress] /\ MutexInv'
<1>1. writer' \in [Thread -> Progress]
  BY DEF IInv, ITypeOK
<1>2. writer'[t] = r /\ \A u \in Thread \ {t} : writer'[u] = writer[u]
  BY DEF IInv, ITypeOK
<1>. QED
  BY <1>1, <1>2 DEF IInv, MutexInv

LEMMA ThreadsUnmoved ==
  ASSUME IInv, UNCHANGED <<writer, holder>>
  PROVE  MutexInv'
BY DEF IInv, MutexInv

LEMMA WorkUnmoved ==
  ASSUME IInv, UNCHANGED <<todo, xmtrTimers, xmtrData>>
  PROVE  WorkInv'
BY DEF IInv, WorkInv

LEMMA WindowEventInv ==
  ASSUME IInv, NEW t \in Window, NEW p \in Event, WindowEvent(t, p)
  PROVE  IInv'
<1>. DEFINE r == [NotWriting EXCEPT !.at = "lock", !.packet = p]
<1>1. t \in Thread /\ p \in Packets /\ p \in Seq(Byte)
  BY PacketTypes DEF Thread, Packets
<1>2. r \in Progress /\ r.at = "lock" /\ r.packet = p
  BY <1>1, NotWritingType DEF NotWriting, Progress
<1>3. writer' = [writer EXCEPT ![t] = r] /\ writer[t].at = "idle"
      /\ UNCHANGED <<ring, holder, todo, regs>>
  BY DEF WindowEvent
<1>. HIDE DEF r
<1>4. holder # t /\ holder \in Thread \cup {"none"}
  BY <1>1, <1>3 DEF IInv, ITypeOK, MutexInv, Critically
<1>5. writer' \in [Thread -> Progress] /\ MutexInv'
  BY <1>1, <1>2, <1>3, <1>4, ThreadMoves DEF Critically
<1>6. ITypeOK'
  BY <1>3, <1>5 DEF IInv, ITypeOK, ring, regs
<1>7. WorkInv'
  BY <1>3, WorkUnmoved DEF regs
<1>. QED
  BY <1>5, <1>6, <1>7 DEF IInv

LEMMA LockInv ==
  ASSUME IInv, NEW t \in Thread, Lock(t)
  PROVE  IInv'
<1>. DEFINE r == [writer[t] EXCEPT !.at = "check"]
<1>1. writer[t] \in Progress /\ writer[t].at = "lock" /\ writer[t].packet \in Packets
  BY DEF IInv, ITypeOK, Lock, MutexInv
<1>2. r \in Progress /\ r.at = "check" /\ r.packet = writer[t].packet
  BY <1>1 DEF Progress
<1>3. writer' = [writer EXCEPT ![t] = r] /\ holder = "none" /\ holder' = t
      /\ UNCHANGED <<ring, todo, regs>>
  BY DEF Lock, Unlocked
<1>. HIDE DEF r
<1>5. writer' \in [Thread -> Progress] /\ MutexInv'
  BY <1>1, <1>2, <1>3, Constants, ThreadMoves DEF Critically
<1>6. ITypeOK'
  BY <1>3, <1>5 DEF IInv, ITypeOK, ring, regs
<1>7. WorkInv'
  BY <1>3, WorkUnmoved DEF regs
<1>. QED
  BY <1>5, <1>6, <1>7 DEF IInv

LEMMA CompareInv ==
  ASSUME IInv, NEW t \in Thread, Compare(t)
  PROVE  IInv'
<1>1. writer[t] \in Progress /\ writer[t].at = "check" /\ writer[t].packet \in Packets
      /\ holder = t /\ writer \in [Thread -> Progress] /\ holder \in Thread \cup {"none"}
  BY DEF IInv, ITypeOK, Compare, MutexInv, Critically
<1>2. PICK b \in BOOLEAN : writer' = [writer EXCEPT ![t].at = "free", ![t].ahead = b]
  <2>1. (readPtr <= writePtr) \in BOOLEAN
    BY DEF IInv, ITypeOK
  <2>. QED
    BY <2>1, Zenon DEF Compare
<1>. DEFINE r == [writer[t] EXCEPT !.at = "free", !.ahead = b]
<1>3. r \in Progress /\ r.at = "free" /\ r.packet = writer[t].packet
  BY <1>1 DEF Progress
<1>4. writer' = [writer EXCEPT ![t] = r] /\ UNCHANGED <<ring, holder, todo, regs>>
  BY <1>1, <1>2 DEF Compare
<1>. HIDE DEF r
<1>5. writer' \in [Thread -> Progress] /\ MutexInv'
  BY <1>1, <1>3, <1>4, ThreadMoves DEF Critically
<1>6. ITypeOK'
  BY <1>4, <1>5 DEF IInv, ITypeOK, ring, regs
<1>7. WorkInv'
  BY <1>4, WorkUnmoved DEF regs
<1>. QED
  BY <1>5, <1>6, <1>7 DEF IInv

LEMMA DecideInv ==
  ASSUME IInv, NEW t \in Thread, Reject(t) \/ Accept(t)
  PROVE  IInv'
<1>1. writer[t] \in Progress /\ writer[t].at = "free" /\ writer[t].packet \in Packets
      /\ holder = t /\ holder \in Thread \cup {"none"} /\ UNCHANGED <<ring, todo, regs>>
  BY DEF IInv, ITypeOK, Reject, Accept, MutexInv, Critically
<1>2. writer' \in [Thread -> Progress] /\ MutexInv' /\ holder' \in Thread \cup {"none"}
  <2>1. CASE Reject(t)
    <3>1. writer' = [writer EXCEPT ![t] = NotWriting] /\ holder' = "none"
      BY <2>1 DEF Reject, Released
    <3>2. NotWriting.at = "idle"
      BY DEF NotWriting
    <3>. QED
      BY <1>1, <3>1, <3>2, Constants, NotWritingType, ThreadMoves DEF Critically
  <2>2. CASE Accept(t)
    <3>. DEFINE r == [writer[t] EXCEPT !.at = "put"]
    <3>1. writer' = [writer EXCEPT ![t] = r] /\ UNCHANGED holder
      BY <2>2 DEF Accept
    <3>2. r \in Progress /\ r.at = "put" /\ r.packet = writer[t].packet
      BY <1>1 DEF Progress
    <3>3. r.packet # <<>>
      BY <1>1, <3>2, PacketTypes
    <3>. HIDE DEF r
    <3>. QED
      BY <1>1, <3>1, <3>2, <3>3, ThreadMoves DEF Critically
  <2>. QED
    BY <2>1, <2>2
<1>3. ITypeOK'
  BY <1>1, <1>2 DEF IInv, ITypeOK, ring, regs
<1>4. WorkInv'
  BY <1>1, WorkUnmoved DEF regs
<1>. QED
  BY <1>2, <1>3, <1>4 DEF IInv

LEMMA PutInv ==
  ASSUME IInv, NEW t \in Thread, Put(t)
  PROVE  IInv'
<1>. DEFINE r == [writer[t] EXCEPT !.at = "bump", !.ptr = writePtr]
<1>1. writer[t] \in Progress /\ writer[t].at = "put" /\ writer[t].packet # <<>>
      /\ holder = t /\ writePtr \in 0 .. BUF_MAX - 1
  BY DEF IInv, ITypeOK, Put, MutexInv, Critically
<1>2. r \in Progress /\ r.at = "bump" /\ r.packet = writer[t].packet
  BY <1>1 DEF Progress
<1>3. writer' = [writer EXCEPT ![t] = r]
      /\ buf' = [buf EXCEPT ![writePtr] = Head(writer[t].packet)]
      /\ UNCHANGED <<writePtr, readPtr, holder, todo, regs>>
  BY <1>1 DEF Put, IInv, ITypeOK
<1>. HIDE DEF r
<1>4. Head(writer[t].packet) \in Byte
  BY <1>1, HeadTailProperties DEF Progress
<1>5. writer' \in [Thread -> Progress] /\ MutexInv'
  BY <1>1, <1>2, <1>3, ThreadMoves DEF Critically
<1>6. ITypeOK'
  BY <1>3, <1>4, <1>5 DEF IInv, ITypeOK, regs
<1>7. WorkInv'
  BY <1>3, WorkUnmoved DEF regs
<1>. QED
  BY <1>5, <1>6, <1>7 DEF IInv

LEMMA BumpInv ==
  ASSUME IInv, NEW t \in Thread, Bump(t)
  PROVE  IInv'
<1>. DEFINE left == Tail(writer[t].packet)
<1>1. writer[t] \in Progress /\ writer[t].at = "bump" /\ writer[t].packet # <<>>
      /\ holder = t /\ writer[t].ptr \in 0 .. BUF_MAX - 1
  BY DEF IInv, ITypeOK, Bump, MutexInv, Critically, Progress
<1>2. left \in Seq(Byte)
  BY <1>1, HeadTailProperties DEF Progress
<1>3. writePtr' = NEXT(writer[t].ptr) /\ UNCHANGED <<buf, readPtr, todo, regs>>
  BY DEF Bump
<1>4. writePtr' \in 0 .. BUF_MAX - 1
  BY <1>1, <1>3, NextInRing
<1>5. writer' \in [Thread -> Progress] /\ MutexInv' /\ holder' \in Thread \cup {"none"}
  <2>1. CASE left = <<>>
    <3>1. writer' = [writer EXCEPT ![t] = NotWriting] /\ holder' = "none"
      BY <2>1 DEF Bump
    <3>2. NotWriting.at = "idle"
      BY DEF NotWriting
    <3>. QED
      BY <1>1, <3>1, <3>2, Constants, NotWritingType, ThreadMoves DEF Critically
  <2>2. CASE left # <<>>
    <3>. DEFINE r == [writer[t] EXCEPT !.at = "put", !.packet = left]
    <3>1. writer' = [writer EXCEPT ![t] = r] /\ UNCHANGED holder
      BY <1>1, <2>2 DEF Bump, IInv, ITypeOK
    <3>2. r \in Progress /\ r.at = "put" /\ r.packet = left
      BY <1>1, <1>2 DEF Progress
    <3>. HIDE DEF r, left
    <3>. QED
      BY <1>1, <2>2, <3>1, <3>2, ThreadMoves DEF Critically
  <2>. QED
    BY <2>1, <2>2
<1>6. ITypeOK'
  BY <1>3, <1>4, <1>5 DEF IInv, ITypeOK, regs
<1>7. WorkInv'
  BY <1>3, WorkUnmoved DEF regs
<1>. QED
  BY <1>5, <1>6, <1>7 DEF IInv

LEMMA StepsTail ==
  ASSUME NEW w, Steps(w), w # <<>>
  PROVE  /\ Steps(Tail(w))
         /\ \A i \in DOMAIN Tail(w) : i + 1 \in DOMAIN w /\ Tail(w)[i] = w[i + 1]
<1>. DEFINE v == Tail(w)
<1>1. w \in Seq(Work) /\ Len(w) \in Nat /\ DOMAIN w = 1 .. Len(w)
  BY LenProperties DEF Steps
<1>2. /\ v \in Seq(Work) /\ Len(v) = Len(w) - 1
      /\ DOMAIN v = 1 .. Len(w) - 1
      /\ \A i \in 1 .. Len(w) - 1 : v[i] = w[i + 1]
  BY <1>1, HeadTailProperties
<1>. HIDE DEF v
<1>3. ASSUME NEW i \in DOMAIN v
      PROVE  /\ i + 1 \in DOMAIN w /\ v[i] = w[i + 1]
             /\ v[i] = StoreWrite => i + 1 \in DOMAIN v /\ v[i + 1] = StoreRead
             /\ v[i] = StoreRead /\ i # 1 => v[i - 1] = StoreWrite
  <2>. DEFINE j == i + 1
  <2>1. i \in Nat /\ j \in DOMAIN w /\ j # 1 /\ v[i] = w[j]
    BY <1>1, <1>2, <1>3
  <2>2. /\ w[j] = StoreWrite => j + 1 \in DOMAIN w /\ w[j + 1] = StoreRead
        /\ w[j] = StoreRead => w[j - 1] = StoreWrite
    BY <2>1 DEF Steps
  <2>3. j - 1 = i /\ (i # 1 => i - 1 \in 1 .. Len(w) - 1 /\ (i - 1) + 1 = i)
    BY <1>1, <1>2, <1>3
  <2>4. j + 1 \in DOMAIN w => i + 1 \in 1 .. Len(w) - 1 /\ v[i + 1] = w[j + 1]
    BY <1>1, <1>2, <2>1
  <2>5. i # 1 => v[i - 1] = w[i]
    BY <1>2, <2>3
  <2>6. j = i + 1
    OBVIOUS
  <2>. HIDE DEF j
  <2>. QED
    BY <1>2, <2>1, <2>2, <2>3, <2>4, <2>5, <2>6
<1>. QED
  BY <1>2, <1>3 DEF Steps, v

LEMMA WorkTail ==
  ASSUME IInv, todo # <<>>, todo' = Tail(todo), UNCHANGED <<xmtrTimers, xmtrData>>
  PROVE  todo' \in Seq(Work) /\ WorkInv'
<1>1. Steps(todo) /\ \A i \in DOMAIN todo : todo[i] = EndReset => xmtrTimers = 0
  BY DEF IInv, WorkInv
<1>2. Steps(todo') /\ \A i \in DOMAIN todo' : i + 1 \in DOMAIN todo /\ todo'[i] = todo[i + 1]
  BY <1>1, StepsTail
<1>. QED
  BY <1>1, <1>2 DEF IInv, WorkInv, Steps

\* The handlers that write answers queue up the two stores of kbdBufInit or none,
\* the answers' bytes, and what follows them.
Laid(w, S, front, mid, x) ==
  /\ w \in Seq(S) /\ Len(w) = Len(front) + Len(mid) + 1
  /\ DOMAIN w = 1 .. Len(front) + Len(mid) + 1
  /\ \A i \in DOMAIN w :
       w[i] = IF i <= Len(front) THEN front[i]
              ELSE IF i <= Len(front) + Len(mid) THEN mid[i - Len(front)] ELSE x

LEMMA ThreeParts ==
  ASSUME NEW S, NEW front \in Seq(S), NEW mid \in Seq(S), NEW x \in S
  PROVE  Laid(front \o mid \o <<x>>, S, front, mid, x)
<1>. DEFINE u == front \o mid
            v == <<x>>
            w == u \o v
<1>1. Len(front) \in Nat /\ Len(mid) \in Nat
  OBVIOUS
<1>2. u \in Seq(S) /\ Len(u) = Len(front) + Len(mid)
      /\ \A i \in 1 .. Len(front) + Len(mid) :
           u[i] = IF i <= Len(front) THEN front[i] ELSE mid[i - Len(front)]
  BY ConcatProperties
<1>3. v \in Seq(S) /\ Len(v) = 1 /\ v[1] = x
  OBVIOUS
<1>. HIDE DEF u, v
<1>0. w \in Seq(S) /\ Len(w) = Len(u) + Len(v)
      /\ \A i \in 1 .. Len(u) + Len(v) : w[i] = IF i <= Len(u) THEN u[i] ELSE v[i - Len(u)]
  <2>1. u \in Seq(S) /\ v \in Seq(S)
    BY <1>2, <1>3
  <2>. QED
    BY <2>1, ConcatProperties
<1>. HIDE DEF w
<1>4. w \in Seq(S) /\ Len(w) = Len(front) + Len(mid) + 1
      /\ \A i \in 1 .. Len(front) + Len(mid) + 1 :
           w[i] = IF i <= Len(front) + Len(mid) THEN u[i]
                  ELSE v[i - (Len(front) + Len(mid))]
  BY <1>0, <1>1, <1>2, <1>3
<1>5. DOMAIN w = 1 .. Len(front) + Len(mid) + 1
  BY <1>4, LenProperties
<1>6. ASSUME NEW i \in DOMAIN w
      PROVE  w[i] = IF i <= Len(front) THEN front[i]
                    ELSE IF i <= Len(front) + Len(mid) THEN mid[i - Len(front)] ELSE x
  <2>1. i \in Nat /\ i \in 1 .. Len(front) + Len(mid) + 1
    BY <1>1, <1>5, <1>6
  <2>2. CASE i <= Len(front) + Len(mid)
    <3>1. i \in 1 .. Len(front) + Len(mid)
      BY <1>1, <2>1, <2>2
    <3>. QED
      BY <1>2, <1>4, <2>1, <2>2, <3>1
  <2>3. CASE ~(i <= Len(front) + Len(mid))
    <3>1. i - (Len(front) + Len(mid)) = 1 /\ ~(i <= Len(front))
      BY <1>1, <2>1, <2>3
    <3>. QED
      BY <1>3, <1>4, <2>1, <2>3, <3>1
  <2>. QED
    BY <2>2, <2>3
<1>7. Laid(w, S, front, mid, x)
  BY <1>4, <1>5, <1>6 DEF Laid
<1>. QED
  BY <1>7, Zenon DEF u, v, w

LEMMA PairsStay ==
  ASSUME NEW front \in Seq(Work), NEW mid \in Seq(Work), NEW x \in Work, NEW w,
         Laid(w, Work, front, mid, x),
         front = <<>> \/ (Len(front) = 2 /\ front[1] = StoreWrite /\ front[2] = StoreRead),
         \A i \in 1 .. Len(mid) : mid[i] \notin {StoreWrite, StoreRead, EndReset},
         x # StoreWrite, x # StoreRead,
         StoreWrite # StoreRead, StoreWrite # EndReset, StoreRead # EndReset
  PROVE  /\ Steps(w) /\ w # <<>>
         /\ Head(w) # StoreRead
         /\ \A i \in DOMAIN w : w[i] = EndReset => x = EndReset
<1>1. Len(mid) \in Nat /\ Len(front) \in Nat
  OBVIOUS
<1>5. /\ w \in Seq(Work) /\ Len(w) = Len(front) + Len(mid) + 1
      /\ DOMAIN w = 1 .. Len(front) + Len(mid) + 1
      /\ \A i \in DOMAIN w :
           w[i] = IF i <= Len(front) THEN front[i]
                  ELSE IF i <= Len(front) + Len(mid) THEN mid[i - Len(front)] ELSE x
  BY DEF Laid
<1>4. \/ Len(front) = 0 /\ front = <<>>
      \/ Len(front) = 2 /\ front[1] = StoreWrite /\ front[2] = StoreRead
  BY EmptySeq
<1>6. ASSUME NEW i \in DOMAIN w
      PROVE  /\ w[i] = StoreWrite => i + 1 \in DOMAIN w /\ w[i + 1] = StoreRead
             /\ w[i] = StoreRead => i # 1 /\ w[i - 1] = StoreWrite
             /\ w[i] = EndReset => x = EndReset
  <2>1. i \in Nat /\ i \in 1 .. Len(front) + Len(mid) + 1
    BY <1>1, <1>4, <1>5, <1>6
  <2>2. CASE i <= Len(front)
    <3>1. Len(front) = 2 /\ front[1] = StoreWrite /\ front[2] = StoreRead
      BY <1>4, <2>1, <2>2
    <3>2. 1 \in DOMAIN w /\ 2 \in DOMAIN w /\ i \in {1, 2}
      BY <1>1, <1>5, <2>1, <2>2, <3>1
    <3>3. w[1] = front[1] /\ w[2] = front[2]
      BY <1>5, <3>1, <3>2
    <3>. QED
      BY <3>1, <3>2, <3>3
  <2>3. CASE ~(i <= Len(front)) /\ i <= Len(front) + Len(mid)
    <3>1. i - Len(front) \in 1 .. Len(mid)
      BY <1>1, <1>4, <2>1, <2>3
    <3>2. w[i] = mid[i - Len(front)]
      BY <1>5, <2>3
    <3>. QED
      BY <1>1, <3>1, <3>2
  <2>4. CASE ~(i <= Len(front)) /\ ~(i <= Len(front) + Len(mid))
    <3>1. w[i] = x
      BY <1>5, <2>4
    <3>. QED
      BY <3>1
  <2>. QED
    BY <1>1, <1>4, <2>1, <2>2, <2>3, <2>4
<1>7. w # <<>> /\ Head(w) # StoreRead
  <2>1. w # <<>> /\ 1 \in DOMAIN w /\ Head(w) = w[1]
    BY <1>1, <1>4, <1>5, HeadTailProperties, EmptySeq
  <2>. QED
    BY <1>6, <2>1
<1>. QED
  BY <1>5, <1>6, <1>7 DEF Steps

LEMMA StepTypes ==
  /\ {StoreWrite, StoreRead, EndXmtr, EndReset} \subseteq Work
  /\ StoreWrite # StoreRead /\ StoreWrite # EndReset /\ StoreRead # EndReset
  /\ EndXmtr # StoreWrite /\ EndXmtr # StoreRead /\ EndXmtr # EndReset
  /\ \A b : <<"write", b>> \notin {StoreWrite, StoreRead, EndXmtr, EndReset}
<1>1. {StoreWrite, StoreRead, EndXmtr, EndReset} \subseteq Work
  BY DEF Work, StoreWrite, StoreRead, EndXmtr, EndReset
<1>2. /\ StoreWrite # StoreRead /\ StoreWrite # EndReset /\ StoreRead # EndReset
      /\ EndXmtr # StoreWrite /\ EndXmtr # StoreRead /\ EndXmtr # EndReset
  BY DEF StoreWrite, StoreRead, EndXmtr, EndReset
<1>3. \A b : <<"write", b>> \notin {StoreWrite, StoreRead, EndXmtr, EndReset}
  BY DEF StoreWrite, StoreRead, EndXmtr, EndReset
<1>. QED
  BY <1>1, <1>2, <1>3

LEMMA AnswerTypes ==
  ASSUME NEW a \in Seq(Byte)
  PROVE  Answers(a) \in Seq(Work) /\ Len(Answers(a)) = Len(a)
         /\ \A i \in 1 .. Len(a) : Answers(a)[i] \notin {StoreWrite, StoreRead, EndReset}
<1>. DEFINE mid == Answers(a)
<1>1. DOMAIN a = 1 .. Len(a) /\ Len(a) \in Nat /\ \A i \in 1 .. Len(a) : a[i] \in Byte
  BY LenProperties, ElementOfSeq
<1>2. mid = [i \in 1 .. Len(a) |-> <<"write", a[i]>>]
  BY <1>1, Zenon DEF Answers
<1>3. \A b \in Byte : <<"write", b>> \in Work
  BY Zenon DEF Work
<1>4. mid \in [1 .. Len(a) -> Work] /\ \A i \in 1 .. Len(a) : mid[i] = <<"write", a[i]>>
  BY <1>1, <1>2, <1>3, Zenon
<1>. HIDE DEF mid
<1>5. mid \in Seq(Work) /\ Len(mid) = Len(a)
  BY <1>1, <1>4
<1>6. \A i \in 1 .. Len(a) : mid[i] \notin {StoreWrite, StoreRead, EndReset}
  BY <1>4, StepTypes, Zenon
<1>. QED
  BY <1>5, <1>6, Zenon DEF mid

LEMMA BufInitType ==
  /\ BufInit \in Seq(Work) /\ BufInit # <<>> /\ <<>> \in Seq(Work)
  /\ Len(BufInit) = 2 /\ BufInit[1] = StoreWrite /\ BufInit[2] = StoreRead
<1>1. BufInit = <<StoreWrite, StoreRead>>
  BY Zenon DEF BufInit, StoreWrite, StoreRead
<1>. QED
  BY <1>1, StepTypes

Queued(w, x) ==
  /\ Steps(w) /\ w # <<>>
  /\ Head(w) # StoreRead
  /\ \A i \in DOMAIN w : w[i] = EndReset => x = EndReset

LEMMA StepsQueued ==
  ASSUME NEW front \in {BufInit, <<>>}, NEW a \in Seq(Byte), NEW x \in {EndXmtr, EndReset}
  PROVE  Queued(front \o Answers(a) \o <<x>>, x)
<1>1. PICK mid \in Seq(Work) :
        /\ mid = Answers(a)
        /\ \A i \in 1 .. Len(mid) : mid[i] \notin {StoreWrite, StoreRead, EndReset}
  BY AnswerTypes, Zenon
<1>2. x \in Work /\ x # StoreWrite /\ x # StoreRead
      /\ StoreWrite # StoreRead /\ StoreWrite # EndReset /\ StoreRead # EndReset
  BY StepTypes
<1>3. front \in Seq(Work)
      /\ (front = <<>> \/ (Len(front) = 2 /\ front[1] = StoreWrite /\ front[2] = StoreRead))
  BY BufInitType, Zenon
<1>4. PICK w : w = front \o mid \o <<x>>
  OBVIOUS
<1>5. Laid(w, Work, front, mid, x)
  BY <1>1, <1>2, <1>3, <1>4, ThreeParts, Zenon
<1>6. Queued(w, x)
  BY <1>1, <1>2, <1>3, <1>5, PairsStay DEF Queued
<1>. QED
  BY <1>1, <1>4, <1>6, Zenon

LEMMA ResetQueued == Queued(ResetWork, EndReset)
<1>1. ResetAnswer \in Seq(Byte)
  BY InputAssumption
<1>2. ResetWork = BufInit \o Answers(ResetAnswer) \o <<EndReset>>
  BY Zenon DEF ResetWork, EndReset
<1>. QED
  BY <1>1, <1>2, StepsQueued, Zenon

\* Handlers that leave the threads alone, and change the rest within its types.
LEMMA QuietStep ==
  ASSUME IInv, UNCHANGED <<buf, writer, holder>>,
         writePtr' \in 0 .. BUF_MAX - 1, readPtr' \in 0 .. BUF_MAX - 1,
         ctrl' \in Ctrl, irq' \in BOOLEAN,
         rcvrData' \in Byte \cup Command \cup {NoByte},
         xmtrData' \in Byte \cup Command \cup {NoByte},
         xmtrTimers' \in 0 .. MAX_TIMERS,
         WorkInv'
  PROVE  IInv'
<1>1. todo' \in Seq(Work)
  BY DEF WorkInv, Steps
<1>2. MutexInv'
  BY ThreadsUnmoved
<1>. QED
  BY <1>1, <1>2 DEF IInv, ITypeOK

LEMMA CpuFreeInv ==
  ASSUME IInv, CpuFree, UNCHANGED todo, xmtrTimers' > 0 => xmtrData' \in Command
  PROVE  WorkInv'
<1>1. \A i \in DOMAIN todo' : FALSE
  BY DEF CpuFree
<1>. QED
  BY <1>1 DEF IInv, WorkInv, Steps

LEMMA StoreStepsInv ==
  ASSUME IInv, ClearWritePtr \/ ClearReadPtr
  PROVE  IInv'
<1>1. todo # <<>> /\ todo' = Tail(todo) /\ UNCHANGED <<buf, holder, writer, regs>>
      /\ writePtr' \in 0 .. BUF_MAX - 1 /\ readPtr' \in 0 .. BUF_MAX - 1
  BY Constants DEF ClearWritePtr, ClearReadPtr, Working, IInv, ITypeOK
<1>2. WorkInv'
  BY <1>1, WorkTail DEF regs
<1>. QED
  BY <1>1, <1>2, QuietStep DEF IInv, ITypeOK, regs

LEMMA WriteAnswerInv ==
  ASSUME IInv, WriteAnswer
  PROVE  IInv'
<1>1. todo # <<>> /\ Head(todo)[1] = "write" /\ writer[CPU].at = "idle"
      /\ todo' = Tail(todo) /\ UNCHANGED <<ring, holder, regs>>
  BY DEF WriteAnswer, Working
<1>2. PICK b \in Byte : Head(todo) = <<"write", b>>
  <2>1. Head(todo) \in Work
    BY <1>1, HeadTailProperties DEF IInv, ITypeOK
  <2>2. \A s \in {"clear write", "clear read", "xmtr done", "reset done"} : <<s>>[1] # "write"
    OBVIOUS
  <2>. QED
    BY <1>1, <2>1, <2>2, Zenon DEF Work
<1>3. Head(todo)[2] = b /\ <<b>> \in Packets
  <2>1. <<"write", b>>[2] = b
    OBVIOUS
  <2>. QED
    BY <1>2, <2>1, Zenon DEF Packets
<1>. DEFINE r == [NotWriting EXCEPT !.at = "lock", !.packet = <<b>>]
<1>4. r \in Progress /\ r.at = "lock" /\ r.packet = <<b>>
  <2>1. <<b>> \in Seq(Byte)
    OBVIOUS
  <2>. QED
    BY <2>1, NotWritingType DEF NotWriting, Progress
<1>5. writer' = [writer EXCEPT ![CPU] = r]
  BY <1>3, Zenon DEF WriteAnswer
<1>. HIDE DEF r
<1>6. holder # CPU /\ holder \in Thread \cup {"none"} /\ CPU \in Thread
  BY <1>1, Constants DEF IInv, ITypeOK, MutexInv, Critically
<1>7. writer' \in [Thread -> Progress] /\ MutexInv'
  BY <1>1, <1>3, <1>4, <1>5, <1>6, ThreadMoves DEF Critically
<1>8. todo' \in Seq(Work) /\ WorkInv'
  BY <1>1, WorkTail DEF regs
<1>9. ITypeOK'
  BY <1>1, <1>7, <1>8 DEF IInv, ITypeOK, ring, regs
<1>. QED
  BY <1>7, <1>8, <1>9 DEF IInv

LEMMA XmtrDoneInv ==
  ASSUME IInv, XmtrDone
  PROVE  IInv'
<1>1. todo # <<>> /\ todo' = Tail(todo)
      /\ UNCHANGED <<ring, holder, writer, rcvrData, xmtrData, xmtrTimers>>
  BY DEF XmtrDone, Working
<1>2. WorkInv'
  BY <1>1, WorkTail
<1>3. ctrl' \in Ctrl /\ irq' \in BOOLEAN
  BY DEF XmtrDone, Raise, IInv, ITypeOK, Ctrl
<1>. QED
  BY <1>1, <1>2, <1>3, QuietStep DEF IInv, ITypeOK, ring

LEMMA ResetDoneInv ==
  ASSUME IInv, ResetDone
  PROVE  IInv'
<1>1. todo # <<>> /\ todo' = Tail(todo) /\ UNCHANGED <<ring, holder, writer, xmtrTimers>>
      /\ ctrl' \in Ctrl /\ irq' \in BOOLEAN /\ rcvrData' = NoByte /\ xmtrData' = NoByte
  BY ResetType DEF ResetDone, Working
<1>2. Head(todo) = EndReset
  <2>1. Head(todo) \in Work /\ Head(todo)[1] = "reset done"
    BY <1>1, HeadTailProperties DEF ResetDone, Working, IInv, ITypeOK
  <2>2. /\ \A b : <<"write", b>>[1] # "reset done"
        /\ \A s \in {"clear write", "clear read", "xmtr done"} : <<s>>[1] # "reset done"
    OBVIOUS
  <2>. QED
    BY <2>1, <2>2, Zenon DEF Work, EndReset
<1>3. Len(todo) \in Nat \ {0} /\ 1 \in DOMAIN todo /\ todo[1] = Head(todo)
      /\ todo \in Seq(Work)
  BY <1>1, EmptySeq, LenProperties DEF IInv, ITypeOK
<1>4. xmtrTimers = 0
  BY <1>2, <1>3 DEF IInv, WorkInv
<1>6. WorkInv'
  <2>1. Steps(todo')
    BY <1>1, <1>3, StepsTail DEF IInv, WorkInv
  <2>2. xmtrTimers' = 0 /\ ~(xmtrTimers' > 0)
    BY <1>1, <1>4
  <2>. QED
    BY <2>1, <2>2 DEF WorkInv
<1>. QED
  BY <1>1, <1>6, QuietStep DEF IInv, ITypeOK, ring

LEMMA RcvrCallbackInv ==
  ASSUME IInv, RcvrCallback
  PROVE  IInv'
<1>1. CpuFree /\ UNCHANGED <<buf, writePtr, threads, xmtrData, xmtrTimers>>
      /\ rcvrData' = buf[readPtr] /\ readPtr' = NEXT(readPtr)
      /\ ctrl' \in Ctrl /\ irq' \in BOOLEAN
  BY DEF RcvrCallback, Raise, IInv, ITypeOK, Ctrl
<1>2. rcvrData' \in Byte \cup {NoByte} /\ readPtr' \in 0 .. BUF_MAX - 1
  BY <1>1, NextInRing DEF IInv, ITypeOK
<1>3. WorkInv'
  BY <1>1, CpuFreeInv DEF threads, IInv, WorkInv
<1>. QED
  BY <1>1, <1>2, <1>3, QuietStep DEF IInv, ITypeOK, threads

LEMMA XmtrCallbackInv ==
  ASSUME IInv, XmtrCallback
  PROVE  IInv'
<1>1. CpuFree /\ xmtrTimers > 0 /\ xmtrTimers' = xmtrTimers - 1
      /\ UNCHANGED <<ring, holder, writer, ctrl, rcvrData, xmtrData, irq>>
  BY Zenon DEF XmtrCallback
<1>2. xmtrTimers' \in 0 .. MAX_TIMERS
  BY <1>1, Constants DEF IInv, ITypeOK
<1>3. xmtrData \in Command /\ Answer[xmtrData] \in Seq(Byte)
  BY <1>1, InputAssumption DEF IInv, WorkInv
<1>4. PICK front \in {BufInit, <<>>} : todo' = front \o Answers(Answer[xmtrData]) \o <<EndXmtr>>
  BY Zenon DEF XmtrCallback, EndXmtr
<1>5. Queued(todo', EndXmtr) /\ EndXmtr # EndReset
  BY <1>3, <1>4, StepsQueued, StepTypes, Zenon
<1>6. WorkInv'
  <2>1. xmtrData' \in Command
    BY <1>1, <1>3
  <2>. QED
    BY <1>5, <2>1 DEF Queued, WorkInv
<1>. QED
  BY <1>1, <1>2, <1>6, QuietStep DEF IInv, ITypeOK, ring

LEMMA ReadWriteInv ==
  ASSUME IInv,
         ReadData \/ (\E rien \in BOOLEAN, xien \in XmtrIen : WriteCtrl(rien, xien))
  PROVE  IInv'
<1>1. CpuFree /\ UNCHANGED <<ring, threads, rcvrData, xmtrData, xmtrTimers>>
  BY DEF ReadData, WriteCtrl
<1>2. ctrl' \in Ctrl /\ irq' \in BOOLEAN
  <2>1. CASE ReadData
    BY <2>1 DEF ReadData, Lower, IInv, ITypeOK, Ctrl
  <2>2. ASSUME NEW rien \in BOOLEAN, NEW xien \in XmtrIen, WriteCtrl(rien, xien)
        PROVE  ctrl' \in Ctrl /\ irq' \in BOOLEAN
    <3>1. xien \in BOOLEAN
      BY InputAssumption
    <3>. QED
      BY <2>2, <3>1 DEF WriteCtrl, Assigned, IInv, ITypeOK, Ctrl
  <2>. QED
    BY <2>1, <2>2
<1>3. WorkInv'
  BY <1>1, CpuFreeInv DEF threads, IInv, WorkInv
<1>. QED
  BY <1>1, <1>2, <1>3, QuietStep DEF IInv, ITypeOK, threads, ring

LEMMA WriteDataInv ==
  ASSUME IInv, NEW c \in Command, WriteData(c)
  PROVE  IInv'
<1>1. CpuFree /\ UNCHANGED <<ring, threads, rcvrData>> /\ xmtrData' = c
      /\ ctrl' \in Ctrl /\ irq' \in BOOLEAN
  BY DEF WriteData, Lower, IInv, ITypeOK, Ctrl
<1>2. xmtrTimers' \in 0 .. MAX_TIMERS
  BY Constants DEF WriteData, IInv, ITypeOK
<1>3. WorkInv'
  BY <1>1, CpuFreeInv DEF threads
<1>. QED
  BY <1>1, <1>2, <1>3, QuietStep DEF IInv, ITypeOK, threads, ring

LEMMA DeviceResetInv ==
  ASSUME IInv, DeviceReset
  PROVE  IInv'
<1>1. xmtrTimers' = 0 /\ todo' = ResetWork
      /\ UNCHANGED <<ring, holder, writer, ctrl, rcvrData, xmtrData, irq>>
  BY DEF DeviceReset
<1>2. Steps(todo') /\ ~(xmtrTimers' > 0) /\ xmtrTimers' \in 0 .. MAX_TIMERS
  BY <1>1, ResetQueued, Constants DEF Queued
<1>3. WorkInv'
  BY <1>1, <1>2 DEF WorkInv
<1>. QED
  BY <1>1, <1>2, <1>3, QuietStep DEF IInv, ITypeOK, ring

LEMMA IInitInv == IInit => IInv
<1>. SUFFICES ASSUME IInit PROVE IInv
  OBVIOUS
<1>1. Steps(todo) /\ todo \in Seq(Work) /\ xmtrTimers = 0 /\ ~(xmtrTimers > 0)
  BY ResetQueued DEF IInit, Queued, Steps
<1>2. ITypeOK
  BY <1>1, ResetType, NotWritingType, Constants DEF IInit, ITypeOK
<1>3. NotWriting.at = "idle"
  BY DEF NotWriting
<1>4. MutexInv
  BY <1>3, Constants DEF IInit, MutexInv, Critically
<1>. QED
  BY <1>1, <1>2, <1>4 DEF IInv, WorkInv

LEMMA StepInv == IInv /\ [INext]_ivars => IInv'
<1>. SUFFICES ASSUME IInv, [INext]_ivars PROVE IInv'
  OBVIOUS
<1>1. CASE CpuStep
  BY <1>1, StoreStepsInv, WriteAnswerInv, XmtrDoneInv, ResetDoneInv, RcvrCallbackInv,
     XmtrCallbackInv, ReadWriteInv, WriteDataInv, DeviceResetInv DEF CpuStep
<1>2. CASE WriterStep
  BY <1>2, LockInv, CompareInv, DecideInv, PutInv, BumpInv DEF WriterStep, Critical
<1>3. CASE \E t \in Window, p \in Event : WindowEvent(t, p)
  BY <1>3, WindowEventInv
<1>4. CASE UNCHANGED ivars
  <2>1. UNCHANGED <<ring, threads, regs>>
    BY <1>4 DEF ivars
  <2>2. MutexInv' /\ WorkInv'
    BY <2>1, ThreadsUnmoved, WorkUnmoved DEF threads, regs
  <2>. QED
    BY <2>1, <2>2 DEF IInv, ITypeOK, ring, threads, regs
<1>. QED
  BY <1>1, <1>2, <1>3, <1>4 DEF INext

LEMMA Invariant == ISpec => []IInv
BY IInitInv, StepInv, PTL DEF ISpec

\* Types, for any threads, commands and ring size: every index stays inside the
\* ring buffer, whichever way the unlocked reset falls between a writer's steps.
THEOREM InputTypeCorrect == ISpec => []ITypeOK
BY Invariant, PTL DEF IInv

\* The mutex of the ring buffer is held by exactly the thread that is between
\* lock and unlock, so two threads are never inside kbdBufWrite at once, and a
\* dropped packet gives it back too.
THEOREM OneWriter ==
  ISpec => [](\A t, u \in Thread :
                writer[t].at \in Critically /\ writer[u].at \in Critically => t = u)
<1>1. IInv => \A t, u \in Thread :
                writer[t].at \in Critically /\ writer[u].at \in Critically => t = u
  BY DEF IInv, MutexInv
<1>. QED
  BY <1>1, Invariant, PTL

-------------------------------------------------------------------------------
(* The ring buffer is a queue *)

Count(f, w) == (BUF_MAX + w - f) % BUF_MAX
Slot(f, i) == (f + i - 1) % BUF_MAX
Stored(b, f, w) == [i \in 1 .. Count(f, w) |-> b[Slot(f, i)]]

Index == 0 .. BUF_MAX - 1
Ring == [Index -> Byte \cup {NoByte}]

LEMMA Wrap ==
  ASSUME NEW n \in Nat \ {0}, NEW x \in 0 .. 2 * n - 1
  PROVE  x % n = IF x < n THEN x ELSE x - n
<1>1. CASE x < n
  BY <1>1
<1>2. CASE ~(x < n)
  <2>. DEFINE y == x - n
  <2>1. y \in 0 .. n - 1 /\ x = y + n
    BY <1>2
  <2>2. (y + n) % n = y
    <3>. HIDE DEF y
    <3>. QED
      BY <2>1
  <2>. QED
    BY <1>2, <2>1, <2>2
<1>. QED
  BY <1>1, <1>2

LEMMA CountIs ==
  ASSUME NEW f \in Index, NEW w \in Index
  PROVE  Count(f, w) \in Index /\ Count(f, w) = IF f <= w THEN w - f ELSE BUF_MAX + w - f
<1>1. BUF_MAX \in Nat \ {0} /\ f \in 0 .. BUF_MAX - 1 /\ w \in 0 .. BUF_MAX - 1
  BY Constants DEF Index
<1>. DEFINE x == BUF_MAX + w - f
<1>2. x \in 0 .. 2 * BUF_MAX - 1
  BY <1>1
<1>3. x % BUF_MAX = IF x < BUF_MAX THEN x ELSE x - BUF_MAX
  <2>. HIDE DEF x
  <2>. QED
    BY <1>1, <1>2, Wrap
<1>4. Count(f, w) = IF f <= w THEN w - f ELSE BUF_MAX + w - f
  <2>1. CASE f <= w
    BY <1>1, <1>3, <2>1 DEF Count
  <2>2. CASE ~(f <= w)
    BY <1>1, <1>3, <2>2 DEF Count
  <2>. QED
    BY <2>1, <2>2
<1>5. Count(f, w) \in Index
  BY <1>1, <1>4 DEF Index
<1>. QED
  BY <1>4, <1>5

LEMMA SlotIs ==
  ASSUME NEW f \in Index, NEW i \in 1 .. BUF_MAX
  PROVE  /\ Slot(f, i) \in Index
         /\ Slot(f, i) = IF f + i - 1 < BUF_MAX THEN f + i - 1 ELSE f + i - 1 - BUF_MAX
<1>1. BUF_MAX \in Nat \ {0} /\ f \in 0 .. BUF_MAX - 1
  BY Constants DEF Index
<1>. DEFINE x == f + i - 1
<1>2. x \in 0 .. 2 * BUF_MAX - 1
  BY <1>1
<1>3. x % BUF_MAX = IF x < BUF_MAX THEN x ELSE x - BUF_MAX
  <2>. HIDE DEF x
  <2>. QED
    BY <1>1, <1>2, Wrap
<1>. QED
  BY <1>1, <1>2, <1>3 DEF Slot, Index

LEMMA StoredType ==
  ASSUME NEW b \in Ring, NEW f \in Index, NEW w \in Index
  PROVE  /\ Stored(b, f, w) \in Seq(Byte \cup {NoByte})
         /\ Len(Stored(b, f, w)) = Count(f, w)
         /\ \A i \in 1 .. Count(f, w) : Stored(b, f, w)[i] = b[Slot(f, i)]
<1>1. Count(f, w) \in Nat /\ Count(f, w) < BUF_MAX /\ BUF_MAX \in Nat
  BY CountIs, Constants DEF Index
<1>2. \A i \in 1 .. Count(f, w) : b[Slot(f, i)] \in Byte \cup {NoByte}
  <2>. SUFFICES ASSUME NEW i \in 1 .. Count(f, w)
                PROVE  b[Slot(f, i)] \in Byte \cup {NoByte}
    OBVIOUS
  <2>1. i \in 1 .. BUF_MAX
    BY <1>1
  <2>. QED
    BY <2>1, SlotIs DEF Ring
<1>. DEFINE n == Count(f, w)
<1>. HIDE DEF n
<1>3. [i \in 1 .. n |-> b[Slot(f, i)]] \in Seq(Byte \cup {NoByte})
      /\ Len([i \in 1 .. n |-> b[Slot(f, i)]]) = n
  BY <1>1, <1>2 DEF n
<1>4. Stored(b, f, w) = [i \in 1 .. n |-> b[Slot(f, i)]]
  BY DEF Stored, n
<1>. QED
  BY <1>3, <1>4 DEF n

\* Two sequences that agree on length and elements.
LEMMA SameSeq ==
  ASSUME NEW S, NEW s \in Seq(S), NEW t \in Seq(S), Len(s) = Len(t),
         \A i \in 1 .. Len(s) : s[i] = t[i]
  PROVE  s = t
OBVIOUS

\* The slot at the write pointer is free: a store there is not visible yet ...
LEMMA StorePut ==
  ASSUME NEW b \in Ring, NEW f \in Index, NEW w \in Index, NEW x \in Byte
  PROVE  Stored([b EXCEPT ![w] = x], f, w) = Stored(b, f, w)
<1>. DEFINE c == [b EXCEPT ![w] = x]
<1>1. c \in Ring
  BY DEF Ring
<1>2. BUF_MAX \in Nat \ {0} /\ f \in 0 .. BUF_MAX - 1 /\ w \in 0 .. BUF_MAX - 1
  BY Constants DEF Index
<1>3. \A i \in 1 .. Count(f, w) : Slot(f, i) # w /\ Slot(f, i) \in Index
  <2>. SUFFICES ASSUME NEW i \in 1 .. Count(f, w)
                PROVE  Slot(f, i) # w /\ Slot(f, i) \in Index
    OBVIOUS
  <2>0. Count(f, w) \in Nat /\ Count(f, w) < BUF_MAX
    BY <1>2, CountIs DEF Index
  <2>1. i \in 1 .. BUF_MAX
    BY <1>2, <2>0
  <2>2. i \in Nat /\ i >= 1 /\ i <= Count(f, w)
        /\ Count(f, w) = IF f <= w THEN w - f ELSE BUF_MAX + w - f
    BY <2>0, CountIs
  <2>3. Slot(f, i) \in Index
        /\ Slot(f, i) = IF f + i - 1 < BUF_MAX THEN f + i - 1 ELSE f + i - 1 - BUF_MAX
    BY <2>1, SlotIs
  <2>4. CASE f <= w
    BY <1>2, <2>2, <2>3, <2>4
  <2>5. CASE ~(f <= w)
    BY <1>2, <2>2, <2>3, <2>5
  <2>. QED
    BY <2>4, <2>5
<1>4. \A i \in 1 .. Count(f, w) : c[Slot(f, i)] = b[Slot(f, i)]
  BY <1>3 DEF Ring
<1>. HIDE DEF c
<1>5. \A i \in 1 .. Count(f, w) : Stored(c, f, w)[i] = Stored(b, f, w)[i]
  BY <1>1, <1>4, StoredType
<1>6. Stored(c, f, w) = Stored(b, f, w)
  BY <1>1, <1>5, StoredType, SameSeq
<1>. QED
  BY <1>6 DEF c

\* ... until the pointer moves, which appends what was stored ...
LEMMA StoreBump ==
  ASSUME NEW b \in Ring, NEW f \in Index, NEW w \in Index, Count(f, w) + 1 < BUF_MAX
  PROVE  /\ Count(f, NEXT(w)) = Count(f, w) + 1
         /\ Stored(b, f, NEXT(w)) = Append(Stored(b, f, w), b[w])
<1>. DEFINE v == NEXT(w)
            n == Count(f, w)
<1>1. BUF_MAX \in Nat \ {0} /\ f \in 0 .. BUF_MAX - 1 /\ w \in 0 .. BUF_MAX - 1
  BY Constants DEF Index
<1>2. v \in Index /\ v \in 0 .. BUF_MAX - 1 /\ v = IF w = BUF_MAX - 1 THEN 0 ELSE w + 1
  BY NextInRing DEF Index
<1>. HIDE DEF v
<1>3. n \in Nat /\ n = (IF f <= w THEN w - f ELSE BUF_MAX + w - f)
  BY CountIs DEF Index
<1>4. Count(f, v) = IF f <= v THEN v - f ELSE BUF_MAX + v - f
  BY <1>2, CountIs
<1>5. n + 1 < BUF_MAX
  OBVIOUS
<1>. HIDE DEF n
<1>6. Count(f, v) = n + 1
  <2>1. CASE w = BUF_MAX - 1
    <3>1. v = 0 /\ f <= w /\ n = BUF_MAX - 1 - f
      BY <1>1, <1>2, <1>3, <2>1
    <3>2. f # 0
      BY <1>1, <1>5, <3>1
    <3>. QED
      BY <1>1, <1>4, <3>1, <3>2
  <2>2. CASE w # BUF_MAX - 1
    BY <1>1, <1>2, <1>3, <1>4, <1>5, <2>2
  <2>. QED
    BY <2>1, <2>2
<1>7. Slot(f, n + 1) = w
  <2>1. n + 1 \in 1 .. BUF_MAX
    BY <1>1, <1>3, <1>5
  <2>2. Slot(f, n + 1) = IF f + (n + 1) - 1 < BUF_MAX THEN f + (n + 1) - 1
                         ELSE f + (n + 1) - 1 - BUF_MAX
    BY <2>1, SlotIs
  <2>. QED
    BY <1>1, <1>3, <2>2
<1>. DEFINE s == Stored(b, f, w)
            t == Stored(b, f, v)
<1>8. s \in Seq(Byte \cup {NoByte}) /\ Len(s) = n /\ \A i \in 1 .. n : s[i] = b[Slot(f, i)]
  BY StoredType DEF n
<1>9. t \in Seq(Byte \cup {NoByte}) /\ Len(t) = n + 1
      /\ \A i \in 1 .. n + 1 : t[i] = b[Slot(f, i)]
  <2>1. t \in Seq(Byte \cup {NoByte}) /\ Len(t) = Count(f, v)
        /\ \A i \in 1 .. Count(f, v) : t[i] = b[Slot(f, i)]
    BY <1>2, StoredType
  <2>. QED
    BY <1>6, <2>1, Zenon
<1>10. b[w] \in Byte \cup {NoByte}
  BY DEF Ring
<1>. HIDE DEF s, t
<1>11. t = Append(s, b[w])
  <2>1. Append(s, b[w]) \in Seq(Byte \cup {NoByte}) /\ Len(Append(s, b[w])) = n + 1
        /\ \A i \in 1 .. n + 1 : Append(s, b[w])[i] = IF i <= n THEN s[i] ELSE b[w]
    BY <1>3, <1>8, <1>10
  <2>2. \A i \in 1 .. n + 1 : t[i] = Append(s, b[w])[i]
    <3>. SUFFICES ASSUME NEW i \in 1 .. n + 1 PROVE t[i] = Append(s, b[w])[i]
      OBVIOUS
    <3>1. CASE i <= n
      BY <1>3, <1>8, <1>9, <2>1, <3>1
    <3>2. CASE i = n + 1
      BY <1>3, <1>7, <1>9, <2>1, <3>2
    <3>3. n \in Nat
      BY <1>3
    <3>4. i <= n \/ i = n + 1
      BY <3>3
    <3>. QED
      BY <3>1, <3>2, <3>4
  <2>. QED
    BY <1>9, <2>1, <2>2, SameSeq
<1>. QED
  BY <1>6, <1>11 DEF s, t, v, n

\* ... and a read takes the first.
LEMMA StoreLatch ==
  ASSUME NEW b \in Ring, NEW f \in Index, NEW w \in Index, w # f
  PROVE  /\ Count(f, w) > 0 /\ Count(NEXT(f), w) = Count(f, w) - 1
         /\ Stored(b, f, w) # <<>> /\ Head(Stored(b, f, w)) = b[f]
         /\ Stored(b, NEXT(f), w) = Tail(Stored(b, f, w))
<1>. DEFINE g == NEXT(f)
            n == Count(f, w)
<1>1. BUF_MAX \in Nat \ {0} /\ f \in 0 .. BUF_MAX - 1 /\ w \in 0 .. BUF_MAX - 1
  BY Constants DEF Index
<1>2. g \in Index /\ g \in 0 .. BUF_MAX - 1 /\ g = IF f = BUF_MAX - 1 THEN 0 ELSE f + 1
  BY NextInRing DEF Index
<1>. HIDE DEF g
<1>3. n \in Nat /\ n = (IF f <= w THEN w - f ELSE BUF_MAX + w - f) /\ n < BUF_MAX
  BY <1>1, CountIs DEF Index
<1>4. Count(g, w) = IF g <= w THEN w - g ELSE BUF_MAX + w - g
  BY <1>2, CountIs
<1>. HIDE DEF n
<1>5. n > 0
  BY <1>1, <1>3
<1>6. Count(g, w) = n - 1
  <2>1. CASE f = BUF_MAX - 1
    BY <1>1, <1>2, <1>3, <1>4, <2>1
  <2>2. CASE f # BUF_MAX - 1
    BY <1>1, <1>2, <1>3, <1>4, <2>2
  <2>. QED
    BY <2>1, <2>2
<1>7. \A i \in 1 .. n - 1 : Slot(g, i) = Slot(f, i + 1)
  <2>. SUFFICES ASSUME NEW i \in 1 .. n - 1 PROVE Slot(g, i) = Slot(f, i + 1)
    OBVIOUS
  <2>1. i \in Nat /\ i >= 1 /\ i \in 1 .. BUF_MAX /\ i + 1 \in 1 .. BUF_MAX /\ i + 1 <= n
    BY <1>1, <1>3
  <2>2. Slot(g, i) = IF g + i - 1 < BUF_MAX THEN g + i - 1 ELSE g + i - 1 - BUF_MAX
    BY <1>2, <2>1, SlotIs
  <2>3. Slot(f, i + 1) = IF f + (i + 1) - 1 < BUF_MAX THEN f + (i + 1) - 1
                         ELSE f + (i + 1) - 1 - BUF_MAX
    BY <2>1, SlotIs
  <2>4. CASE f = BUF_MAX - 1
    BY <1>1, <1>2, <1>3, <2>1, <2>2, <2>3, <2>4
  <2>5. CASE f # BUF_MAX - 1
    BY <1>1, <1>2, <1>3, <2>1, <2>2, <2>3, <2>5
  <2>. QED
    BY <2>4, <2>5
<1>8. Slot(f, 1) = f
  <2>1. 1 \in 1 .. BUF_MAX
    BY <1>1
  <2>2. Slot(f, 1) = IF f + 1 - 1 < BUF_MAX THEN f + 1 - 1 ELSE f + 1 - 1 - BUF_MAX
    BY <2>1, SlotIs
  <2>. QED
    BY <1>1, <2>2
<1>. DEFINE s == Stored(b, f, w)
            t == Stored(b, g, w)
<1>9. s \in Seq(Byte \cup {NoByte}) /\ Len(s) = n /\ \A i \in 1 .. n : s[i] = b[Slot(f, i)]
  BY StoredType DEF n
<1>10. t \in Seq(Byte \cup {NoByte}) /\ Len(t) = n - 1
      /\ \A i \in 1 .. n - 1 : t[i] = b[Slot(g, i)]
  <2>1. t \in Seq(Byte \cup {NoByte}) /\ Len(t) = Count(g, w)
        /\ \A i \in 1 .. Count(g, w) : t[i] = b[Slot(g, i)]
    BY <1>2, StoredType
  <2>. QED
    BY <1>6, <2>1, Zenon
<1>. HIDE DEF s, t
<1>11. s # <<>> /\ Head(s) = s[1]
  BY <1>3, <1>5, <1>9
<1>12. Head(s) = b[f]
  BY <1>3, <1>5, <1>8, <1>9, <1>11
<1>13. t = Tail(s)
  <2>1. Tail(s) \in Seq(Byte \cup {NoByte}) /\ Len(Tail(s)) = n - 1
        /\ \A i \in 1 .. n - 1 : Tail(s)[i] = s[i + 1]
    BY <1>9, <1>11, HeadTailProperties
  <2>2. \A i \in 1 .. n - 1 : t[i] = Tail(s)[i]
    <3>. SUFFICES ASSUME NEW i \in 1 .. n - 1 PROVE t[i] = Tail(s)[i]
      OBVIOUS
    <3>1. i + 1 \in 1 .. n
      BY <1>3
    <3>. QED
      BY <1>7, <1>9, <1>10, <2>1, <3>1
  <2>. QED
    BY <1>10, <2>1, <2>2, SameSeq
<1>. QED
  BY <1>5, <1>6, <1>11, <1>12, <1>13 DEF s, t, g, n

LEMMA StoreEmpty ==
  ASSUME NEW b \in Ring
  PROVE  Count(0, 0) = 0 /\ Stored(b, 0, 0) = <<>>
<1>1. 0 \in Index
  BY Constants DEF Index
<1>2. Count(0, 0) = 0
  BY <1>1, CountIs
<1>3. Stored(b, 0, 0) \in Seq(Byte \cup {NoByte}) /\ Len(Stored(b, 0, 0)) = 0
  BY <1>1, <1>2, StoredType
<1>. QED
  BY <1>2, <1>3, EmptySeq

-------------------------------------------------------------------------------
(* Keyboard and mouse implement the queue *)

RInv == IInv /\ RingInv

Shapes ==
  /\ buf \in Ring /\ writePtr \in Index /\ readPtr \in Index /\ First \in Index
  /\ First = (IF Clearing THEN 0 ELSE readPtr)
  /\ Contents = Stored(buf, First, writePtr) /\ Contents \in Seq(Byte \cup {NoByte})
  /\ Used = Count(First, writePtr) /\ Used \in Index /\ Len(Contents) = Used
  /\ holder = "none" => InFlight = <<>>
  /\ \A t \in Thread : holder = t =>
       InFlight = IF writer[t].at \in {"put", "bump"} THEN writer[t].packet ELSE <<>>
  /\ InFlight \in Seq(Byte) /\ Len(InFlight) \in Nat

LEMMA ShapesHold == IInv => Shapes
<1>. SUFFICES ASSUME IInv PROVE Shapes
  OBVIOUS
<1>1. buf \in Ring /\ writePtr \in Index /\ readPtr \in Index /\ todo \in Seq(Work)
      /\ holder \in Thread \cup {"none"} /\ writer \in [Thread -> Progress]
  BY DEF IInv, ITypeOK, Ring, Index
<1>2. ASSUME todo # <<>>
      PROVE  Head(todo)[1] = "clear read" <=> Head(todo) = StoreRead
  <2>1. Head(todo) \in Work
    BY <1>1, <1>2, HeadTailProperties
  <2>2. /\ \A b : <<"write", b>>[1] # "clear read"
        /\ \A s \in {"clear write", "xmtr done", "reset done"} : <<s>>[1] # "clear read"
        /\ <<"clear read">>[1] = "clear read"
    OBVIOUS
  <2>. QED
    BY <2>1, <2>2, Zenon DEF Work, StoreRead
<1>3. First = IF Clearing THEN 0 ELSE readPtr
  <2>1. CASE todo = <<>>
    BY <2>1, Zenon DEF First, Clearing
  <2>2. CASE todo # <<>>
    BY <1>2, <2>2, Zenon DEF First, Clearing
  <2>. QED
    BY <2>1, <2>2
<1>4. First \in Index
  BY <1>1, <1>3, Constants DEF Index
<1>5. Contents = Stored(buf, First, writePtr) /\ Used = Count(First, writePtr)
  BY Zenon DEF Contents, Stored, Used, Count, Slot
<1>6. Contents \in Seq(Byte \cup {NoByte}) /\ Len(Contents) = Used /\ Used \in Index
  BY <1>1, <1>4, <1>5, StoredType, CountIs
<1>7. /\ holder = "none" => InFlight = <<>>
      /\ \A t \in Thread : holder = t =>
           InFlight = IF writer[t].at \in {"put", "bump"} THEN writer[t].packet ELSE <<>>
  BY Constants DEF InFlight
<1>8. InFlight \in Seq(Byte)
  <2>1. <<>> \in Seq(Byte)
    OBVIOUS
  <2>2. \A t \in Thread : writer[t].packet \in Seq(Byte)
    BY <1>1 DEF Progress
  <2>. QED
    BY <1>1, <1>7, <2>1, <2>2
<1>9. Len(InFlight) \in Nat
  BY <1>8, LenProperties
<1>. QED
  BY <1>1, <1>3, <1>4, <1>5, <1>6, <1>7, <1>8, <1>9 DEF Shapes

LEMMA ShapesNext == IInv' => Shapes'
BY ShapesHold, PTL

Stutter == /\ UNCHANGED <<Contents, InFlight, rcvrData>>
           /\ ctrl'.rcvrRdy = ctrl.rcvrRdy

LEMMA StutterIsAllowed ==
  ASSUME Stutter
  PROVE  [Queue!Next]_(Queue!vars)
BY DEF Stutter, Queue!vars

\* Steps of a writer that touch neither the buffer nor what is on its way into it.
LEMMA WriterStutters ==
  ASSUME RInv, IInv', NEW t \in Thread, NEW r, writer' = [writer EXCEPT ![t] = r],
         UNCHANGED <<buf, writePtr, readPtr, todo, ctrl, rcvrData, InFlight>>,
         r.at # "bump", r.at = "free" /\ r.ahead => readPtr <= writePtr
  PROVE  RingInv' /\ Stutter
<1>1. Used' = Used /\ Contents' = Contents /\ (Clearing' <=> Clearing)
  BY DEF Used, Contents, First, Clearing
<1>2. Stutter
  BY <1>1 DEF Stutter
<1>3. ASSUME NEW u \in Thread
      PROVE  /\ writer'[u].at = "free" /\ writer'[u].ahead => readPtr' <= writePtr'
             /\ writer'[u].at = "bump" => /\ writer'[u].ptr = writePtr'
                                          /\ buf'[writePtr'] = Head(writer'[u].packet)
  <2>1. CASE u = t
    BY <2>1 DEF RInv, IInv, ITypeOK
  <2>2. CASE u # t
    <3>1. writer'[u] = writer[u]
      BY <2>2 DEF RInv, IInv, ITypeOK
    <3>. QED
      BY <3>1 DEF RInv, RingInv
  <2>. QED
    BY <2>1, <2>2
<1>. QED
  BY <1>1, <1>2, <1>3 DEF RInv, RingInv

LEMMA WindowEventSim ==
  ASSUME RInv, IInv', NEW t \in Window, NEW p \in Event, WindowEvent(t, p)
  PROVE  RingInv' /\ Stutter
<1>. DEFINE r == [NotWriting EXCEPT !.at = "lock", !.packet = p]
<1>1. t \in Thread /\ writer[t].at = "idle" /\ writer' = [writer EXCEPT ![t] = r]
      /\ UNCHANGED <<ring, holder, todo, regs>>
  BY DEF WindowEvent, Thread
<1>2. r.at = "lock"
  BY DEF NotWriting
<1>. HIDE DEF r
<1>3. holder # t
  BY <1>1 DEF RInv, IInv, MutexInv, Critically
<1>4. InFlight' = InFlight
  BY <1>1, <1>3, Constants DEF InFlight, RInv, IInv, ITypeOK
<1>. QED
  BY <1>1, <1>2, <1>4, WriterStutters DEF ring, regs

LEMMA LockSim ==
  ASSUME RInv, IInv', NEW t \in Thread, Lock(t)
  PROVE  RingInv' /\ Stutter
<1>. DEFINE r == [writer[t] EXCEPT !.at = "check"]
<1>1. writer' = [writer EXCEPT ![t] = r] /\ holder = "none" /\ holder' = t
      /\ UNCHANGED <<ring, todo, regs>>
  BY DEF Lock, Unlocked
<1>2. writer[t] \in Progress /\ writer'[t] = r
  BY <1>1 DEF RInv, IInv, ITypeOK
<1>3. r.at = "check"
  BY <1>2 DEF Progress
<1>. HIDE DEF r
<1>4. InFlight = <<>>
  BY <1>1, ShapesHold DEF Shapes, RInv
<1>5. InFlight' = <<>>
  BY <1>1, <1>2, <1>3, ShapesNext DEF Shapes
<1>. QED
  BY <1>1, <1>3, <1>4, <1>5, WriterStutters DEF ring, regs

LEMMA CompareSim ==
  ASSUME RInv, IInv', NEW t \in Thread, Compare(t)
  PROVE  RingInv' /\ Stutter
<1>1. writer[t] \in Progress /\ writer[t].at = "check" /\ holder = t
      /\ writer \in [Thread -> Progress]
  BY DEF RInv, IInv, ITypeOK, Compare, MutexInv, Critically
<1>2. PICK b \in BOOLEAN : /\ writer' = [writer EXCEPT ![t].at = "free", ![t].ahead = b]
                           /\ b => readPtr <= writePtr
  <2>1. (readPtr <= writePtr) \in BOOLEAN
    BY DEF RInv, IInv, ITypeOK
  <2>. QED
    BY <2>1, Zenon DEF Compare
<1>. DEFINE r == [writer[t] EXCEPT !.at = "free", !.ahead = b]
<1>3. r.at = "free" /\ (r.ahead => readPtr <= writePtr)
  BY <1>1, <1>2 DEF Progress
<1>4. writer' = [writer EXCEPT ![t] = r] /\ writer'[t] = r
      /\ UNCHANGED <<ring, holder, todo, regs>>
  BY <1>1, <1>2 DEF Compare
<1>. HIDE DEF r
<1>5. InFlight = <<>>
  BY <1>1, ShapesHold DEF Shapes, RInv
<1>6. InFlight' = <<>>
  BY <1>1, <1>3, <1>4, ShapesNext DEF Shapes
<1>. QED
  BY <1>3, <1>4, <1>5, <1>6, WriterStutters DEF ring, regs

LEMMA RejectSim ==
  ASSUME RInv, IInv', NEW t \in Thread, Reject(t)
  PROVE  RingInv' /\ Stutter
<1>1. writer[t].at = "free" /\ holder = t /\ holder' = "none"
      /\ writer' = [writer EXCEPT ![t] = NotWriting] /\ UNCHANGED <<ring, todo, regs>>
  BY DEF RInv, IInv, Reject, Released, MutexInv, Critically
<1>2. NotWriting.at = "idle"
  BY DEF NotWriting
<1>3. InFlight = <<>>
  BY <1>1, ShapesHold DEF Shapes, RInv
<1>4. InFlight' = <<>>
  BY <1>1, ShapesNext DEF Shapes
<1>. QED
  BY <1>1, <1>2, <1>3, <1>4, WriterStutters DEF ring, regs

\* Nobody but the thread that holds the mutex is past the lock.
LEMMA OthersWait ==
  ASSUME IInv, NEW t \in Thread, holder = t
  PROVE  \A u \in Thread \ {t} : writer[u].at # "free" /\ writer[u].at # "bump"
BY DEF IInv, MutexInv, Critically

LEMMA AcceptSim ==
  ASSUME RInv, IInv', NEW t \in Thread, Accept(t)
  PROVE  /\ RingInv'
         /\ \E p \in Event \cup {<<b>> : b \in Byte} : Queue!Enqueue(p)
<1>. DEFINE r == [writer[t] EXCEPT !.at = "put"]
            p == writer[t].packet
<1>1. writer[t] \in Progress /\ writer[t].at = "free" /\ p \in Packets
      /\ holder = t /\ writer \in [Thread -> Progress]
      /\ EnoughFree(writer[t].ahead) /\ writer[t].ahead \in BOOLEAN
  BY DEF RInv, IInv, ITypeOK, Accept, MutexInv, Critically, Progress
<1>2. writer' = [writer EXCEPT ![t] = r] /\ writer'[t] = r
      /\ r.at = "put" /\ r.packet = p /\ UNCHANGED <<ring, holder, todo, regs>>
  BY <1>1 DEF Accept, Progress
<1>3. p \in Seq(Byte) /\ Len(p) \in Nat /\ Len(p) <= BUF_MIN_FREE /\ Len(p) >= 1
  BY <1>1, PacketTypes, Constants
<1>. HIDE DEF r, p
<1>4. InFlight = <<>> /\ InFlight' = p
  BY <1>1, <1>2, ShapesHold, ShapesNext DEF Shapes, RInv
<1>5. Used' = Used /\ Contents' = Contents /\ First' = First /\ (Clearing' <=> Clearing)
      /\ UNCHANGED <<buf, writePtr, readPtr>>
  BY <1>2 DEF Used, Contents, First, Clearing, ring
<1>6. /\ writePtr \in 0 .. BUF_MAX - 1 /\ readPtr \in 0 .. BUF_MAX - 1
      /\ First = (IF Clearing THEN 0 ELSE readPtr)
      /\ Used = (IF First <= writePtr THEN writePtr - First ELSE BUF_MAX + writePtr - First)
      /\ Contents \in Seq(Byte \cup {NoByte}) /\ Len(Contents) = Used
  BY ShapesHold, CountIs DEF Shapes, RInv, Index
<1>7. writer[t].ahead => readPtr <= writePtr
  BY <1>1 DEF RInv, RingInv
<1>8. Clearing => readPtr = 0 \/ writePtr < readPtr
  BY <1>4, <1>6 DEF RInv, RingInv
<1>9. /\ writer[t].ahead => BUF_MAX + readPtr >= Len(p) + writePtr + 1
      /\ ~writer[t].ahead => readPtr >= Len(p) + writePtr + 1
  <2>1. BUF_MIN_FREE \in Nat /\ BUF_MAX \in Nat
    BY Constants
  <2>2. CASE writer[t].ahead
    <3>1. BUF_MAX + readPtr >= BUF_MIN_FREE + writePtr + 1
      BY <1>1, <2>2 DEF EnoughFree
    <3>. QED
      BY <1>3, <1>6, <2>1, <2>2, <3>1
  <2>3. CASE ~writer[t].ahead
    <3>1. readPtr >= BUF_MIN_FREE + writePtr + 1
      BY <1>1, <2>3 DEF EnoughFree
    <3>. QED
      BY <1>3, <1>6, <2>1, <2>3, <3>1
  <2>. QED
    BY <2>2, <2>3
<1>10. Used + Len(p) < BUF_MAX
  <2>1. BUF_MAX \in Nat
    BY Constants
  <2>2. CASE Clearing
    <3>1. First = 0 /\ Used = writePtr
      BY <1>6, <2>2
    <3>2. CASE writer[t].ahead
      BY <1>3, <1>6, <1>7, <1>8, <1>9, <2>1, <2>2, <3>1, <3>2
    <3>3. CASE ~writer[t].ahead
      BY <1>3, <1>6, <1>9, <2>1, <3>1, <3>3
    <3>. QED
      BY <3>2, <3>3
  <2>3. CASE ~Clearing
    <3>1. First = readPtr
      BY <1>6, <2>3
    <3>2. CASE writer[t].ahead
      BY <1>3, <1>6, <1>7, <1>9, <2>1, <3>1, <3>2
    <3>3. CASE ~writer[t].ahead
      BY <1>3, <1>6, <1>9, <2>1, <3>1, <3>3
    <3>. QED
      BY <3>2, <3>3
  <2>. QED
    BY <2>2, <2>3
<1>11. Clearing => readPtr = 0 \/ writePtr + Len(p) < readPtr
  <2>1. CASE writer[t].ahead
    BY <1>6, <1>7, <1>8, <2>1
  <2>2. CASE ~writer[t].ahead
    BY <1>3, <1>6, <1>9, <2>2
  <2>. QED
    BY <2>1, <2>2
<1>12. \A u \in Thread : writer'[u].at # "free" /\ writer'[u].at # "bump"
  <2>1. \A u \in Thread \ {t} : writer'[u] = writer[u]
    BY <1>1, <1>2
  <2>. QED
    BY <1>1, <1>2, <2>1, OthersWait DEF RInv
<1>13. RingInv'
  BY <1>4, <1>5, <1>10, <1>11, <1>12 DEF RingInv
<1>14. Queue!Enqueue(p)
  <2>1. Contents \o InFlight = Contents /\ (Contents \o InFlight)' = Contents \o p
    BY <1>4, <1>5, <1>6
  <2>2. Len(Contents) + Len(p) <= BUF_MAX - 1
    <3>1. BUF_MAX \in Nat /\ Used \in Int
      BY <1>6, Constants
    <3>. QED
      BY <1>3, <1>6, <1>10, <3>1
  <2>3. ctrl'.rcvrRdy = ctrl.rcvrRdy /\ rcvrData' = rcvrData
    BY <1>2 DEF regs
  <2>. QED
    BY <2>1, <2>2, <2>3, Zenon DEF Queue!Enqueue
<1>. QED
  BY <1>1, <1>13, <1>14 DEF Packets

LEMMA PutSim ==
  ASSUME RInv, IInv', NEW t \in Thread, Put(t)
  PROVE  RingInv' /\ Stutter
<1>. DEFINE r == [writer[t] EXCEPT !.at = "bump", !.ptr = writePtr]
            p == writer[t].packet
<1>1. writer[t] \in Progress /\ writer[t].at = "put" /\ p # <<>> /\ p \in Seq(Byte)
      /\ holder = t /\ writer \in [Thread -> Progress]
  BY DEF RInv, IInv, ITypeOK, Put, MutexInv, Critically, Progress
<1>2. writer' = [writer EXCEPT ![t] = r] /\ writer'[t] = r /\ r.at = "bump"
      /\ r.packet = p /\ r.ptr = writePtr
      /\ buf' = [buf EXCEPT ![writePtr] = Head(p)]
      /\ UNCHANGED <<writePtr, readPtr, holder, todo, regs>>
  BY <1>1 DEF Put, Progress
<1>3. Head(p) \in Byte
  BY <1>1, HeadTailProperties
<1>. HIDE DEF r, p
<1>4. InFlight = p /\ InFlight' = p
  <2>1. writer[t].packet = p
    BY DEF p
  <2>. QED
    BY <1>1, <1>2, <2>1, ShapesHold, ShapesNext DEF Shapes, RInv
<1>5. Used' = Used /\ First' = First /\ (Clearing' <=> Clearing)
      /\ UNCHANGED <<writePtr, readPtr>>
  BY <1>2 DEF Used, First, Clearing
<1>6. Contents' = Contents
  <2>1. buf \in Ring /\ First \in Index /\ writePtr \in Index
        /\ Contents = Stored(buf, First, writePtr)
    BY ShapesHold DEF Shapes, RInv
  <2>2. Contents' = Stored(buf', First', writePtr')
    BY ShapesNext DEF Shapes
  <2>3. Stored(buf', First, writePtr) = Stored(buf, First, writePtr)
    BY <1>2, <1>3, <2>1, StorePut
  <2>. QED
    BY <1>5, <2>1, <2>2, <2>3
<1>7. buf'[writePtr'] = Head(p)
  BY <1>2, ShapesHold DEF Shapes, RInv, Ring
<1>8. \A u \in Thread \ {t} : writer'[u].at # "free" /\ writer'[u].at # "bump"
  <2>1. \A u \in Thread \ {t} : writer'[u] = writer[u]
    BY <1>1, <1>2
  <2>. QED
    BY <1>1, <2>1, OthersWait DEF RInv
<1>9. RingInv'
  <2>1. \A u \in Thread :
          /\ writer'[u].at = "free" /\ writer'[u].ahead => readPtr' <= writePtr'
          /\ writer'[u].at = "bump" => /\ writer'[u].ptr = writePtr'
                                       /\ buf'[writePtr'] = Head(writer'[u].packet)
    BY <1>2, <1>7, <1>8
  <2>. QED
    BY <1>4, <1>5, <2>1 DEF RInv, RingInv
<1>. QED
  BY <1>2, <1>4, <1>6, <1>9 DEF Stutter, regs

LEMMA Reassociate ==
  ASSUME NEW S, NEW s \in Seq(S), NEW x \in S, NEW t \in Seq(S)
  PROVE  Append(s, x) \o t = s \o (<<x>> \o t)
<1>. DEFINE u == <<x>> \o t
            v == Append(s, x)
<1>1. u \in Seq(S) /\ Len(u) = Len(t) + 1
      /\ \A i \in 1 .. Len(t) + 1 : u[i] = IF i = 1 THEN x ELSE t[i - 1]
  OBVIOUS
<1>2. v \in Seq(S) /\ Len(v) = Len(s) + 1
      /\ \A i \in 1 .. Len(s) + 1 : v[i] = IF i <= Len(s) THEN s[i] ELSE x
  OBVIOUS
<1>3. Len(s) \in Nat /\ Len(t) \in Nat
  OBVIOUS
<1>. HIDE DEF u, v
<1>4. /\ v \o t \in Seq(S) /\ Len(v \o t) = Len(s) + 1 + Len(t)
      /\ \A i \in 1 .. Len(s) + 1 + Len(t) :
           (v \o t)[i] = IF i <= Len(s) + 1 THEN v[i] ELSE t[i - (Len(s) + 1)]
  <2>1. /\ v \o t \in Seq(S) /\ Len(v \o t) = Len(v) + Len(t)
        /\ \A i \in 1 .. Len(v) + Len(t) :
             (v \o t)[i] = IF i <= Len(v) THEN v[i] ELSE t[i - Len(v)]
    BY <1>2, ConcatProperties
  <2>. QED
    BY <1>2, <1>3, <2>1
<1>5. /\ s \o u \in Seq(S) /\ Len(s \o u) = Len(s) + 1 + Len(t)
      /\ \A i \in 1 .. Len(s) + 1 + Len(t) :
           (s \o u)[i] = IF i <= Len(s) THEN s[i] ELSE u[i - Len(s)]
  <2>1. /\ s \o u \in Seq(S) /\ Len(s \o u) = Len(s) + Len(u)
        /\ \A i \in 1 .. Len(s) + Len(u) :
             (s \o u)[i] = IF i <= Len(s) THEN s[i] ELSE u[i - Len(s)]
    BY <1>1, ConcatProperties
  <2>2. Len(s) + Len(u) = Len(s) + 1 + Len(t)
    BY <1>1, <1>3
  <2>. QED
    BY <2>1, <2>2, Zenon
<1>6. ASSUME NEW i \in 1 .. Len(s) + 1 + Len(t)
      PROVE  (v \o t)[i] = (s \o u)[i]
  <2>1. i \in Nat /\ i >= 1 /\ i <= Len(s) + 1 + Len(t)
    BY <1>3
  <2>2. CASE i <= Len(s)
    BY <1>2, <1>3, <1>4, <1>5, <2>1, <2>2
  <2>3. CASE i = Len(s) + 1
    <3>1. i - Len(s) = 1 /\ ~(i <= Len(s)) /\ i <= Len(s) + 1
      BY <1>3, <2>3
    <3>2. v[i] = x
      BY <1>2, <1>3, <2>3, <3>1
    <3>3. u[1] = x
      BY <1>1, <1>3
    <3>. QED
      BY <1>4, <1>5, <3>1, <3>2, <3>3
  <2>4. CASE i > Len(s) + 1
    <3>1. i - Len(s) \in 1 .. Len(t) + 1 /\ i - Len(s) # 1
          /\ (i - Len(s)) - 1 = i - (Len(s) + 1)
          /\ ~(i <= Len(s)) /\ ~(i <= Len(s) + 1)
      BY <1>3, <2>1, <2>4
    <3>2. u[i - Len(s)] = t[i - (Len(s) + 1)]
      BY <1>1, <3>1
    <3>. QED
      BY <1>4, <1>5, <3>1, <3>2
  <2>5. i <= Len(s) \/ i = Len(s) + 1 \/ i > Len(s) + 1
    BY <1>3, <2>1
  <2>. QED
    BY <2>2, <2>3, <2>4, <2>5
<1>7. v \o t = s \o u
  BY <1>4, <1>5, <1>6, SameSeq
<1>. QED
  BY <1>7 DEF u, v

LEMMA BumpSim ==
  ASSUME RInv, IInv', NEW t \in Thread, Bump(t)
  PROVE  RingInv' /\ (Contents \o InFlight)' = Contents \o InFlight
         /\ UNCHANGED <<ctrl, rcvrData>>
<1>. DEFINE p == writer[t].packet
            left == Tail(p)
<1>1. writer[t] \in Progress /\ writer[t].at = "bump" /\ p # <<>> /\ p \in Seq(Byte)
      /\ holder = t /\ writer \in [Thread -> Progress]
  BY DEF RInv, IInv, ITypeOK, Bump, MutexInv, Critically, Progress
<1>2. writer[t].ptr = writePtr /\ buf[writePtr] = Head(p)
  BY <1>1 DEF RInv, RingInv
<1>3. writePtr' = NEXT(writePtr) /\ UNCHANGED <<buf, readPtr, todo, regs>>
  BY <1>2 DEF Bump
<1>4. left \in Seq(Byte) /\ Len(p) \in Nat /\ Len(left) = Len(p) - 1 /\ Head(p) \in Byte
      /\ Len(left) \in Nat
  BY <1>1, HeadTailProperties, EmptySeq
<1>5. InFlight = p
  BY <1>1, ShapesHold DEF Shapes, RInv
<1>6. InFlight' = left
      /\ \A u \in Thread : writer'[u].at # "free" /\ writer'[u].at # "bump"
  <2>1. CASE left = <<>>
    <3>1. writer' = [writer EXCEPT ![t] = NotWriting] /\ holder' = "none"
      BY <2>1 DEF Bump
    <3>2. NotWriting.at = "idle" /\ InFlight' = <<>>
      BY <3>1, ShapesNext DEF NotWriting, Shapes
    <3>3. \A u \in Thread : writer'[u] = IF u = t THEN NotWriting ELSE writer[u]
      BY <1>1, <3>1
    <3>. QED
      BY <1>1, <2>1, <3>2, <3>3, OthersWait DEF RInv
  <2>2. CASE left # <<>>
    <3>. DEFINE r == [writer[t] EXCEPT !.at = "put", !.packet = left]
    <3>1. writer' = [writer EXCEPT ![t] = r] /\ UNCHANGED holder
      BY <1>1, <2>2 DEF Bump
    <3>2. r.at = "put" /\ r.packet = left
      BY <1>1 DEF Progress
    <3>. HIDE DEF r, left
    <3>3. \A u \in Thread : writer'[u] = IF u = t THEN r ELSE writer[u]
      BY <1>1, <3>1
    <3>4. InFlight' = left
      BY <1>1, <3>1, <3>2, <3>3, ShapesNext DEF Shapes
    <3>. QED
      BY <1>1, <3>2, <3>3, <3>4, OthersWait DEF RInv
  <2>. QED
    BY <2>1, <2>2
<1>7. p = <<Head(p)>> \o left
  BY <1>1, <1>4
<1>. HIDE DEF p, left
<1>8. /\ buf \in Ring /\ First \in Index /\ writePtr \in Index /\ readPtr \in Index
      /\ Contents = Stored(buf, First, writePtr) /\ Used = Count(First, writePtr)
      /\ Contents \in Seq(Byte \cup {NoByte}) /\ Used \in Nat
      /\ First = (IF Clearing THEN 0 ELSE readPtr)
  BY ShapesHold, Constants DEF Shapes, RInv, Index
<1>9. Contents' = Stored(buf', First', writePtr') /\ Used' = Count(First', writePtr')
  BY ShapesNext DEF Shapes
<1>10. First' = First /\ (Clearing' <=> Clearing)
  BY <1>3 DEF First, Clearing
<1>11. Used + Len(p) < BUF_MAX /\ BUF_MAX \in Nat
  BY <1>5, Constants DEF RInv, RingInv
<1>12. Len(p) >= 1
  BY <1>4
<1>13. Used + 1 < BUF_MAX
  BY <1>4, <1>8, <1>11, <1>12
<1>14. Used' = Used + 1 /\ Contents' = Append(Contents, Head(p))
  BY <1>2, <1>3, <1>8, <1>9, <1>10, <1>13, StoreBump DEF p
<1>15. Contents' \o left = Contents \o p
  <2>1. left \in Seq(Byte \cup {NoByte}) /\ Head(p) \in Byte \cup {NoByte}
    BY <1>4
  <2>2. Append(Contents, Head(p)) \o left = Contents \o (<<Head(p)>> \o left)
    BY <1>8, <2>1, Reassociate
  <2>. QED
    BY <1>7, <1>14, <2>2, Zenon
<1>16. Used' + Len(left) < BUF_MAX
  BY <1>4, <1>8, <1>11, <1>14
<1>17. Clearing => readPtr = 0 \/ writePtr' + Len(left) < readPtr
  <2>1. Clearing => readPtr = 0 \/ writePtr + Len(p) < readPtr
    BY <1>5 DEF RInv, RingInv
  <2>2. writePtr' = IF writePtr = BUF_MAX - 1 THEN 0 ELSE writePtr + 1
    BY <1>3, <1>8, NextInRing DEF Index
  <2>. QED
    BY <1>4, <1>8, <1>11, <1>12, <2>1, <2>2 DEF Index
<1>18. RingInv'
  BY <1>3, <1>6, <1>10, <1>16, <1>17 DEF RingInv
<1>. QED
  BY <1>3, <1>5, <1>6, <1>15, <1>18 DEF regs

\* Steps of the CPU thread that leave the ring alone, outside a reset of it.
LEMMA CpuStutters ==
  ASSUME RInv, IInv', UNCHANGED <<buf, writePtr, readPtr, InFlight>>,
         \A u \in Thread : writer'[u].at \in {"free", "bump"} => writer'[u] = writer[u],
         ~Clearing, ~Clearing'
  PROVE  RingInv' /\ UNCHANGED Contents
<1>1. First = readPtr /\ First' = readPtr
  BY ShapesHold, ShapesNext DEF Shapes, RInv
<1>2. Used' = Used /\ Contents' = Contents
  BY <1>1 DEF Used, Contents
<1>3. \A u \in Thread :
        /\ writer'[u].at = "free" /\ writer'[u].ahead => readPtr' <= writePtr'
        /\ writer'[u].at = "bump" => /\ writer'[u].ptr = writePtr'
                                     /\ buf'[writePtr'] = Head(writer'[u].packet)
  BY DEF RInv, RingInv
<1>. QED
  BY <1>2, <1>3 DEF RInv, RingInv

LEMMA HeadIsFirst ==
  ASSUME NEW S, NEW s \in Seq(S), s # <<>>
  PROVE  /\ Len(s) \in Nat \ {0} /\ Head(s) = s[1] /\ DOMAIN s = 1 .. Len(s)
         /\ 1 \in DOMAIN s
<1>1. Len(s) \in Nat \ {0} /\ DOMAIN s = 1 .. Len(s)
  BY EmptySeq, LenProperties
<1>2. Head(s) = s[1]
  BY <1>1
<1>. QED
  BY <1>1, <1>2

\* What follows a step other than the first store of a reset is not the second.
LEMMA NoSecondStore ==
  ASSUME IInv, todo # <<>>, Head(todo) # StoreWrite, todo' = Tail(todo)
  PROVE  ~Clearing'
<1>. SUFFICES ASSUME todo' # <<>>, Head(todo') = StoreRead PROVE FALSE
  BY DEF Clearing
<1>1. todo \in Seq(Work) /\ todo' \in Seq(Work) /\ Len(todo') = Len(todo) - 1
      /\ \A i \in 1 .. Len(todo') : todo'[i] = todo[i + 1]
  BY HeadTailProperties DEF IInv, ITypeOK
<1>2. Len(todo) \in Nat /\ Len(todo') \in Nat \ {0} /\ Head(todo') = todo'[1]
      /\ Head(todo) = todo[1] /\ DOMAIN todo = 1 .. Len(todo)
  <2>1. Head(todo) = todo[1] /\ DOMAIN todo = 1 .. Len(todo) /\ Len(todo) \in Nat
    BY <1>1, HeadIsFirst
  <2>2. Head(todo') = todo'[1] /\ Len(todo') \in Nat \ {0}
    BY <1>1, HeadIsFirst
  <2>. QED
    BY <2>1, <2>2
<1>3. 2 \in DOMAIN todo /\ todo[2] = StoreRead
  <2>1. 1 \in 1 .. Len(todo') /\ 2 \in 1 .. Len(todo)
    BY <1>1, <1>2
  <2>2. todo'[1] = todo[1 + 1]
    BY <1>1, <2>1, Zenon
  <2>. QED
    BY <1>2, <2>1, <2>2
<1>4. todo[1] = StoreWrite
  <2>1. todo[2 - 1] = StoreWrite
    BY <1>3, 2 # 1 DEF IInv, WorkInv, Steps
  <2>. QED
    BY <2>1
<1>. QED
  BY <1>2, <1>4

LEMMA FirstWords ==
  StoreWrite[1] = "clear write" /\ StoreRead[1] = "clear read"
BY DEF StoreWrite, StoreRead

LEMMA FinishSim ==
  ASSUME RInv, IInv', XmtrDone \/ ResetDone
  PROVE  RingInv' /\ UNCHANGED <<Contents, InFlight>>
<1>1. todo # <<>> /\ Head(todo)[1] \in {"xmtr done", "reset done"} /\ todo' = Tail(todo)
      /\ UNCHANGED <<ring, holder, writer>>
  BY DEF XmtrDone, ResetDone, Working
<1>2. Head(todo) # StoreWrite /\ Head(todo) # StoreRead
  BY <1>1, FirstWords
<1>3. ~Clearing /\ ~Clearing'
  BY <1>1, <1>2, NoSecondStore DEF Clearing, RInv
<1>4. InFlight' = InFlight
  BY <1>1 DEF InFlight
<1>. QED
  BY <1>1, <1>3, <1>4, CpuStutters DEF ring

LEMMA WriteAnswerSim ==
  ASSUME RInv, IInv', WriteAnswer
  PROVE  RingInv' /\ Stutter
<1>1. todo # <<>> /\ Head(todo)[1] = "write" /\ todo' = Tail(todo)
      /\ writer[CPU].at = "idle" /\ UNCHANGED <<ring, holder, regs>>
  BY DEF WriteAnswer, Working
<1>. DEFINE r == [NotWriting EXCEPT !.at = "lock", !.packet = <<Head(todo)[2]>>]
<1>2. writer' = [writer EXCEPT ![CPU] = r]
  BY Zenon DEF WriteAnswer
<1>3. r.at = "lock"
  BY DEF NotWriting
<1>. HIDE DEF r
<1>4. Head(todo) # StoreWrite /\ Head(todo) # StoreRead
  BY <1>1, FirstWords
<1>5. ~Clearing /\ ~Clearing'
  BY <1>1, <1>4, NoSecondStore DEF Clearing, RInv
<1>6. CPU \in Thread /\ holder # CPU /\ holder \in Thread \cup {"none"}
      /\ writer \in [Thread -> Progress]
  BY <1>1, Constants DEF RInv, IInv, ITypeOK, MutexInv, Critically
<1>7. \A u \in Thread : writer'[u] = IF u = CPU THEN r ELSE writer[u]
  BY <1>2, <1>6
<1>8. InFlight' = InFlight
  BY <1>1, <1>6, <1>7 DEF InFlight
<1>9. \A u \in Thread : writer'[u].at \in {"free", "bump"} => writer'[u] = writer[u]
  BY <1>3, <1>7
<1>. QED
  BY <1>1, <1>5, <1>8, <1>9, CpuStutters DEF ring, regs, Stutter

LEMMA HandlerSim ==
  ASSUME RInv, IInv', CpuFree, UNCHANGED <<ring, holder, writer>>,
         todo' = <<>> \/ Head(todo') # StoreRead
  PROVE  RingInv' /\ UNCHANGED <<Contents, InFlight>>
<1>1. ~Clearing /\ ~Clearing'
  BY DEF Clearing, CpuFree
<1>2. InFlight' = InFlight
  BY DEF InFlight
<1>. QED
  BY <1>1, <1>2, CpuStutters DEF ring

LEMMA QuietHandlers ==
  ASSUME RInv, IInv',
         \/ XmtrCallback \/ DeviceReset \/ ReadData
         \/ \E rien \in BOOLEAN, xien \in XmtrIen : WriteCtrl(rien, xien)
         \/ \E c \in Command : WriteData(c)
  PROVE  RingInv' /\ UNCHANGED <<Contents, InFlight, rcvrData>>
         /\ ctrl'.rcvrRdy \in {ctrl.rcvrRdy, FALSE}
         /\ (~ReadData => ctrl'.rcvrRdy = ctrl.rcvrRdy)
<1>1. CpuFree /\ UNCHANGED <<ring, holder, writer, rcvrData>>
  BY Zenon DEF XmtrCallback, DeviceReset, ReadData, WriteCtrl, WriteData, threads
<1>2. todo' = <<>> \/ Head(todo') # StoreRead
  <2>1. CASE XmtrCallback
    <3>1. PICK front \in {BufInit, <<>>} :
            todo' = front \o Answers(Answer[xmtrData]) \o <<EndXmtr>>
      BY <2>1, Zenon DEF XmtrCallback, EndXmtr
    <3>2. Answer[xmtrData] \in Seq(Byte)
      BY <2>1, InputAssumption DEF XmtrCallback, RInv, IInv, WorkInv
    <3>3. Queued(todo', EndXmtr)
      BY <3>1, <3>2, StepsQueued, Zenon
    <3>. QED
      BY <3>3 DEF Queued
  <2>2. CASE DeviceReset
    BY <2>2, ResetQueued DEF DeviceReset, Queued
  <2>3. CASE ReadData \/ (\E rien \in BOOLEAN, xien \in XmtrIen : WriteCtrl(rien, xien))
             \/ \E c \in Command : WriteData(c)
    BY <1>1, <2>3, Zenon DEF ReadData, WriteCtrl, WriteData, threads, CpuFree
  <2>. QED
    BY <2>1, <2>2, <2>3
<1>3. RingInv' /\ UNCHANGED <<Contents, InFlight>>
  BY <1>1, <1>2, HandlerSim
<1>4. ctrl'.rcvrRdy \in {ctrl.rcvrRdy, FALSE} /\ (~ReadData => ctrl'.rcvrRdy = ctrl.rcvrRdy)
  <2>. ctrl \in Ctrl
    BY DEF RInv, IInv, ITypeOK
  <2>1. CASE XmtrCallback
    BY <2>1, Zenon DEF XmtrCallback
  <2>2. CASE DeviceReset
    BY <2>2 DEF DeviceReset
  <2>3. CASE ReadData
    BY <2>3 DEF ReadData, Ctrl
  <2>4. CASE \E rien \in BOOLEAN, xien \in XmtrIen : WriteCtrl(rien, xien)
    BY <2>4 DEF WriteCtrl, Ctrl
  <2>5. CASE \E c \in Command : WriteData(c)
    BY <2>5 DEF WriteData, Ctrl
  <2>. QED
    BY <2>1, <2>2, <2>3, <2>4, <2>5
<1>. QED
  BY <1>1, <1>3, <1>4

LEMMA ClearWriteSim ==
  ASSUME RInv, IInv', RacingResets = FALSE, ClearWritePtr
  PROVE  RingInv' /\ Queue!Clear
<1>1. todo # <<>> /\ Head(todo)[1] = "clear write" /\ todo' = Tail(todo) /\ holder = "none"
      /\ writePtr' = 0 /\ UNCHANGED <<buf, readPtr, holder, writer, regs>>
  BY DEF ClearWritePtr, Working
<1>2. Head(todo) = StoreWrite
  <2>1. Head(todo) \in Work
    BY <1>1, HeadTailProperties DEF RInv, IInv, ITypeOK
  <2>2. /\ \A b : <<"write", b>>[1] # "clear write"
        /\ \A s \in {"clear read", "xmtr done", "reset done"} : <<s>>[1] # "clear write"
    OBVIOUS
  <2>. QED
    BY <1>1, <2>1, <2>2, Zenon DEF Work, StoreWrite
<1>3. todo' # <<>> /\ Head(todo') = StoreRead
  <2>1. todo \in Seq(Work) /\ todo' \in Seq(Work) /\ Len(todo') = Len(todo) - 1
        /\ \A i \in 1 .. Len(todo') : todo'[i] = todo[i + 1]
    BY <1>1, HeadTailProperties DEF RInv, IInv, ITypeOK
  <2>2. Len(todo) \in Nat \ {0} /\ Head(todo) = todo[1] /\ DOMAIN todo = 1 .. Len(todo)
    BY <1>1, <2>1, HeadIsFirst, Zenon
  <2>3. 2 \in DOMAIN todo /\ todo[2] = StoreRead
    <3>1. 1 \in DOMAIN todo /\ todo[1] = StoreWrite
      BY <1>2, <2>2
    <3>2. 1 + 1 \in DOMAIN todo /\ todo[1 + 1] = StoreRead
      BY <3>1 DEF RInv, IInv, WorkInv, Steps
    <3>. QED
      BY <3>2
  <2>4. Len(todo') \in Nat \ {0} /\ 1 \in 1 .. Len(todo')
    BY <2>1, <2>2, <2>3
  <2>. QED
    BY <2>1, <2>3, <2>4
<1>4. Clearing' /\ First' = 0
  BY <1>3, ShapesNext DEF Clearing, Shapes
<1>5. Contents' = <<>> /\ Used' = 0 /\ readPtr \in Index
  <2>1. buf' \in Ring /\ Contents' = Stored(buf', 0, 0) /\ Used' = Count(0, 0)
    BY <1>1, <1>4, ShapesNext DEF Shapes
  <2>. QED
    BY <2>1, StoreEmpty, ShapesHold DEF Shapes, RInv
<1>6. InFlight' = <<>>
  BY <1>1, ShapesNext DEF Shapes
<1>7. \A u \in Thread : writer'[u].at # "free" /\ writer'[u].at # "bump"
  BY <1>1, Constants DEF RInv, IInv, MutexInv, Critically
<1>8. RingInv'
  <2>1. Len(InFlight') = 0 /\ BUF_MAX \in Nat \ {0} /\ readPtr \in 0 .. BUF_MAX - 1
    BY <1>5, <1>6, Constants DEF Index
  <2>2. Used' + Len(InFlight') < BUF_MAX
    BY <1>5, <2>1
  <2>3. writePtr' = 0 /\ readPtr' = readPtr
    BY <1>1, Zenon
  <2>4. readPtr' = 0 \/ writePtr' + Len(InFlight') < readPtr'
    BY <2>1, <2>3
  <2>. QED
    BY <1>7, <2>2, <2>4 DEF RingInv
<1>9. (Contents \o InFlight)' = <<>>
  BY <1>5, <1>6
<1>. QED
  BY <1>1, <1>8, <1>9, Zenon DEF regs, Queue!Clear

LEMMA ClearReadSim ==
  ASSUME RInv, IInv', ClearReadPtr
  PROVE  RingInv' /\ Stutter
<1>1. todo # <<>> /\ Head(todo)[1] = "clear read" /\ todo' = Tail(todo)
      /\ readPtr' = 0 /\ UNCHANGED <<buf, writePtr, holder, writer, regs>>
  BY DEF ClearReadPtr, Working
<1>2. First = 0 /\ First' = 0
  BY <1>1, ShapesNext DEF First, Shapes
<1>3. Used' = Used /\ Contents' = Contents /\ InFlight' = InFlight
  BY <1>1, <1>2 DEF Used, Contents, InFlight
<1>4. writePtr \in 0 .. BUF_MAX - 1
  BY DEF RInv, IInv, ITypeOK
<1>5. RingInv'
  <2>0. UNCHANGED <<buf, writePtr, writer>> /\ readPtr' = 0
    BY <1>1, Zenon
  <2>1. \A u \in Thread :
          /\ writer'[u].at = "free" /\ writer'[u].ahead => readPtr' <= writePtr'
          /\ writer'[u].at = "bump" => /\ writer'[u].ptr = writePtr'
                                       /\ buf'[writePtr'] = Head(writer'[u].packet)
    BY <1>4, <2>0 DEF RInv, RingInv
  <2>2. Used' + Len(InFlight') < BUF_MAX
    BY <1>3 DEF RInv, RingInv
  <2>. QED
    BY <2>0, <2>1, <2>2 DEF RingInv
<1>. QED
  BY <1>1, <1>3, <1>5 DEF Stutter, regs

LEMMA TakeFirst ==
  ASSUME NEW S, NEW s \in Seq(S), NEW t \in Seq(S), s # <<>>
  PROVE  /\ s \o t # <<>> /\ Head(s \o t) = Head(s)
         /\ Tail(s \o t) = Tail(s) \o t
<1>. DEFINE u == s \o t
            v == Tail(s)
<1>1. Len(s) \in Nat \ {0} /\ Len(t) \in Nat /\ Head(s) = s[1]
  BY EmptySeq
<1>2. u \in Seq(S) /\ Len(u) = Len(s) + Len(t)
      /\ \A i \in 1 .. Len(s) + Len(t) : u[i] = IF i <= Len(s) THEN s[i] ELSE t[i - Len(s)]
  BY ConcatProperties
<1>3. v \in Seq(S) /\ Len(v) = Len(s) - 1 /\ \A i \in 1 .. Len(s) - 1 : v[i] = s[i + 1]
  BY HeadTailProperties
<1>. HIDE DEF u, v
<1>4. u # <<>> /\ Head(u) = u[1] /\ u[1] = s[1]
  <2>1. Len(u) # 0 /\ 1 \in 1 .. Len(s) + Len(t) /\ 1 <= Len(s)
    BY <1>1, <1>2
  <2>2. u # <<>> /\ Head(u) = u[1]
    BY <1>2, <2>1
  <2>. QED
    BY <1>2, <2>1, <2>2
<1>5. /\ Tail(u) \in Seq(S) /\ Len(Tail(u)) = Len(s) + Len(t) - 1
      /\ \A i \in 1 .. Len(s) + Len(t) - 1 : Tail(u)[i] = u[i + 1]
  BY <1>2, <1>4, HeadTailProperties
<1>6. /\ v \o t \in Seq(S) /\ Len(v \o t) = Len(s) + Len(t) - 1
      /\ \A i \in 1 .. Len(s) + Len(t) - 1 :
           (v \o t)[i] = IF i <= Len(s) - 1 THEN v[i] ELSE t[i - (Len(s) - 1)]
  <2>1. /\ v \o t \in Seq(S) /\ Len(v \o t) = Len(v) + Len(t)
        /\ \A i \in 1 .. Len(v) + Len(t) :
             (v \o t)[i] = IF i <= Len(v) THEN v[i] ELSE t[i - Len(v)]
    BY <1>3, ConcatProperties
  <2>. QED
    BY <1>1, <1>3, <2>1
<1>7. ASSUME NEW i \in 1 .. Len(s) + Len(t) - 1
      PROVE  Tail(u)[i] = (v \o t)[i]
  <2>1. i \in Nat /\ i >= 1 /\ i + 1 \in 1 .. Len(s) + Len(t)
        /\ (i <= Len(s) - 1 \/ i > Len(s) - 1)
    BY <1>1
  <2>2. CASE i <= Len(s) - 1
    <3>1. i \in 1 .. Len(s) - 1 /\ i + 1 <= Len(s)
      BY <1>1, <2>1, <2>2
    <3>. QED
      BY <1>2, <1>3, <1>5, <1>6, <2>1, <2>2, <3>1
  <2>3. CASE i > Len(s) - 1
    <3>1. ~(i + 1 <= Len(s)) /\ ~(i <= Len(s) - 1) /\ (i + 1) - Len(s) = i - (Len(s) - 1)
      BY <1>1, <2>1, <2>3
    <3>. QED
      BY <1>2, <1>5, <1>6, <2>1, <3>1
  <2>. QED
    BY <2>1, <2>2, <2>3
<1>8. Tail(u) = v \o t
  BY <1>5, <1>6, <1>7, SameSeq
<1>. QED
  BY <1>1, <1>4, <1>8 DEF u, v

LEMMA RcvrCallbackSim ==
  ASSUME RInv, IInv', RcvrCallback
  PROVE  RingInv' /\ Queue!Latch
<1>1. CpuFree /\ writePtr # readPtr /\ ~ctrl.rcvrRdy /\ rcvrData' = buf[readPtr]
      /\ readPtr' = NEXT(readPtr) /\ ctrl' = [ctrl EXCEPT !.rcvrRdy = TRUE]
      /\ UNCHANGED <<buf, writePtr, threads>>
  BY DEF RcvrCallback
<1>2. ~Clearing /\ ~Clearing' /\ InFlight' = InFlight /\ UNCHANGED <<holder, writer, todo>>
  BY <1>1 DEF Clearing, CpuFree, threads, InFlight
<1>3. First = readPtr /\ First' = NEXT(readPtr)
  BY <1>1, <1>2, ShapesHold, ShapesNext DEF Shapes, RInv
<1>4. /\ buf \in Ring /\ writePtr \in Index /\ readPtr \in Index
      /\ Contents = Stored(buf, readPtr, writePtr) /\ Used = Count(readPtr, writePtr)
      /\ Contents' = Stored(buf, NEXT(readPtr), writePtr)
      /\ Used' = Count(NEXT(readPtr), writePtr)
      /\ Contents \in Seq(Byte \cup {NoByte}) /\ InFlight \in Seq(Byte)
      /\ Len(InFlight) \in Nat /\ Used \in Index
  BY <1>1, <1>3, ShapesHold, ShapesNext DEF Shapes, RInv
<1>5. /\ Used > 0 /\ Used' = Used - 1 /\ Contents # <<>>
      /\ Head(Contents) = buf[readPtr] /\ Contents' = Tail(Contents)
  BY <1>1, <1>4, StoreLatch
<1>6. /\ Contents \o InFlight # <<>> /\ Head(Contents \o InFlight) = Head(Contents)
      /\ Tail(Contents \o InFlight) = Tail(Contents) \o InFlight
  <2>1. InFlight \in Seq(Byte \cup {NoByte})
    BY <1>4
  <2>. QED
    BY <1>4, <1>5, <2>1, TakeFirst
<1>7. (Contents \o InFlight)' = Tail(Contents \o InFlight)
  BY <1>2, <1>5, <1>6
<1>8. RingInv'
  <2>1. Used' + Len(InFlight') < BUF_MAX
    <3>1. Used + Len(InFlight) < BUF_MAX /\ Used \in Nat /\ BUF_MAX \in Nat
      BY <1>4, Constants DEF RInv, RingInv, Index
    <3>. QED
      BY <1>2, <1>4, <1>5, <3>1
  <2>2. ASSUME NEW u \in Thread
        PROVE  /\ writer'[u].at = "free" /\ writer'[u].ahead => readPtr' <= writePtr'
               /\ writer'[u].at = "bump" => /\ writer'[u].ptr = writePtr'
                                            /\ buf'[writePtr'] = Head(writer'[u].packet)
    <3>1. /\ writer[u].at = "free" /\ writer[u].ahead => readPtr <= writePtr
          /\ writer[u].at = "bump" => /\ writer[u].ptr = writePtr
                                      /\ buf[writePtr] = Head(writer[u].packet)
      BY DEF RInv, RingInv
    <3>2. readPtr <= writePtr => NEXT(readPtr) <= writePtr
      <4>1. NEXT(readPtr) = IF readPtr = BUF_MAX - 1 THEN 0 ELSE readPtr + 1
        BY <1>4, NextInRing DEF Index
      <4>2. BUF_MAX \in Nat /\ readPtr \in 0 .. BUF_MAX - 1 /\ writePtr \in 0 .. BUF_MAX - 1
        BY <1>4, Constants DEF Index
      <4>. QED
        BY <1>1, <4>1, <4>2
    <3>. QED
      BY <1>1, <1>2, <3>1, <3>2
  <2>. QED
    BY <1>2, <2>1, <2>2 DEF RingInv
<1>9. ctrl'.rcvrRdy = TRUE
  BY <1>1 DEF RInv, IInv, ITypeOK, Ctrl
<1>. QED
  BY <1>1, <1>5, <1>6, <1>7, <1>8, <1>9, Zenon DEF Queue!Latch

LEMMA RInitInv == IInit => RInv /\ Queue!Init
<1>. SUFFICES ASSUME IInit PROVE RInv /\ Queue!Init
  OBVIOUS
<1>1. IInv
  BY IInitInv
<1>2. ~Clearing
  BY ResetQueued DEF IInit, Queued, Clearing
<1>3. /\ InFlight = <<>> /\ First = 0 /\ buf \in Ring
      /\ Contents = Stored(buf, 0, 0) /\ Used = Count(0, 0)
  BY <1>1, <1>2, ShapesHold DEF Shapes, IInit
<1>4. Contents = <<>> /\ Used = 0
  BY <1>3, StoreEmpty
<1>5. \A u \in Thread : writer[u].at = "idle"
  BY DEF IInit, NotWriting
<1>6. RingInv
  <2>1. Len(InFlight) = 0 /\ BUF_MAX \in Nat \ {0}
    BY <1>3, Constants
  <2>. QED
    BY <1>2, <1>4, <1>5, <2>1 DEF RingInv
<1>7. Contents \o InFlight = <<>>
  BY <1>3, <1>4
<1>8. ctrl.rcvrRdy = FALSE /\ rcvrData = NoByte
  BY DEF IInit, CtrlReset
<1>. QED
  BY <1>1, <1>6, <1>7, <1>8 DEF RInv, Queue!Init

LEMMA RStep ==
  ASSUME RacingResets = FALSE
  PROVE  RInv /\ [INext]_ivars => RInv' /\ [Queue!Next]_(Queue!vars)
<1>. SUFFICES ASSUME RInv, [INext]_ivars PROVE RInv' /\ [Queue!Next]_(Queue!vars)
  OBVIOUS
<1>1. IInv'
  BY StepInv DEF RInv
<1>2. SUFFICES RingInv' /\ [Queue!Next]_(Queue!vars)
  BY <1>1 DEF RInv
<1>3. CASE ClearWritePtr
  BY <1>1, <1>3, ClearWriteSim DEF Queue!Next
<1>4. CASE RcvrCallback
  BY <1>1, <1>4, RcvrCallbackSim DEF Queue!Next
<1>5. CASE ClearReadPtr \/ WriteAnswer
  BY <1>1, <1>5, ClearReadSim, WriteAnswerSim, StutterIsAllowed
<1>6. CASE XmtrDone
  <2>1. UNCHANGED rcvrData /\ ctrl'.rcvrRdy = ctrl.rcvrRdy
    BY <1>6 DEF XmtrDone, RInv, IInv, ITypeOK, Ctrl
  <2>. QED
    BY <1>1, <1>6, <2>1, FinishSim, StutterIsAllowed DEF Stutter
<1>7. CASE ResetDone
  <2>1. rcvrData' = NoByte /\ ctrl'.rcvrRdy = FALSE
    BY <1>7 DEF ResetDone, CtrlReset
  <2>2. RingInv' /\ UNCHANGED <<Contents, InFlight>>
    BY <1>1, <1>7, FinishSim
  <2>3. Queue!Unlatch
    BY <2>1, <2>2 DEF Queue!Unlatch
  <2>. QED
    BY <2>2, <2>3 DEF Queue!Next
<1>8. CASE \/ XmtrCallback \/ DeviceReset \/ ReadData
           \/ \E rien \in BOOLEAN, xien \in XmtrIen : WriteCtrl(rien, xien)
           \/ \E c \in Command : WriteData(c)
  <2>1. /\ RingInv' /\ UNCHANGED <<Contents, InFlight, rcvrData>>
        /\ ctrl'.rcvrRdy \in {ctrl.rcvrRdy, FALSE}
    BY <1>1, <1>8, QuietHandlers
  <2>2. CASE ctrl'.rcvrRdy = ctrl.rcvrRdy
    BY <2>1, <2>2, StutterIsAllowed DEF Stutter
  <2>3. CASE ctrl'.rcvrRdy = FALSE
    <3>1. Queue!Take
      BY <2>1, <2>3 DEF Queue!Take
    <3>. QED
      BY <2>1, <3>1 DEF Queue!Next
  <2>. QED
    BY <2>1, <2>2, <2>3
<1>9. ASSUME NEW t \in Thread, Lock(t) \/ Compare(t) \/ Reject(t) \/ Put(t)
      PROVE  RingInv' /\ [Queue!Next]_(Queue!vars)
  BY <1>1, <1>9, LockSim, CompareSim, RejectSim, PutSim, StutterIsAllowed
<1>10. ASSUME NEW t \in Thread, Accept(t)
       PROVE  RingInv' /\ [Queue!Next]_(Queue!vars)
  BY <1>1, <1>10, AcceptSim DEF Queue!Next
<1>11. ASSUME NEW t \in Thread, Bump(t)
       PROVE  RingInv' /\ [Queue!Next]_(Queue!vars)
  BY <1>1, <1>11, BumpSim DEF Queue!vars
<1>12. CASE \E t \in Window, p \in Event : WindowEvent(t, p)
  BY <1>1, <1>12, WindowEventSim, StutterIsAllowed
<1>13. CASE UNCHANGED ivars
  <2>1. /\ UNCHANGED <<buf, writePtr, readPtr, holder, writer, todo, ctrl, rcvrData>>
    BY <1>13 DEF ivars, ring, threads, regs
  <2>2. Used' = Used /\ Contents' = Contents /\ InFlight' = InFlight
        /\ (Clearing' <=> Clearing)
    BY <2>1 DEF Used, Contents, First, InFlight, Clearing
  <2>3. RingInv'
    BY <2>1, <2>2 DEF RInv, RingInv
  <2>. QED
    BY <2>1, <2>2, <2>3, StutterIsAllowed DEF Stutter
<1>. QED
  BY <1>3, <1>4, <1>5, <1>6, <1>7, <1>8, <1>9, <1>10, <1>11, <1>12, <1>13
     DEF INext, CpuStep, WriterStep, Critical

\* Without a reset under a writer's feet the ring buffer, filled under a mutex and
\* emptied without one, is a bounded queue of whole packets, for any number of
\* threads, any packets and any sizes of the buffer and of its reserve.
THEOREM InputIsQueue ==
  ASSUME RacingResets = FALSE
  PROVE  ISpec => ImplementsInputQueue
<1>1. ISpec => Queue!Init /\ [][Queue!Next]_(Queue!vars)
  BY RInitInv, RStep, PTL DEF ISpec
<1>. QED
  BY <1>1 DEF ImplementsInputQueue, Queue!Spec
=============================================================================

------------------------------ MODULE InputDevice ------------------------------
(***************************************************************************)
(* The keyboard, sim/kbd.c, and the device half of the mouse, sim/mouse.c, *)
(* which is the same program with other commands: a ring buffer filled by  *)
(* the threads that handle the window events and by the commands' answers, *)
(* emptied by a timer callback of the CPU thread into a receiver register. *)
(*                                                                         *)
(* The threads meet in the ring buffer.  Writers hold a mutex; the CPU     *)
(* thread reads the buffer, and resets it, without the mutex, so a writer  *)
(* is modelled one load or store of a shared pointer at a time.            *)
(***************************************************************************)
EXTENDS Naturals, Sequences

CONSTANTS
  Window,       \* the threads that handle window events (graph1.c, graph2.c)
  CPU,          \* the thread that executes instructions
  Event,        \* packets of window events: scan codes, mouse movements
  Command,      \* bytes software may send to the device
  Answer,       \* Answer[c]: the bytes the device answers to command c
  ResetAnswer,  \* the bytes it sends after a reset
  ResetCommand, \* the commands that also empty the buffer
  NoByte,       \* the contents of a register after a reset
  BUF_MAX,      \* slots of the ring buffer (1000, 3000)
  BUF_MIN_FREE, \* a packet is dropped if fewer slots are free (20, 12)
  MAX_TIMERS,   \* bound on outstanding transmitter timers
  XmtrIen,      \* values software writes to the transmitter interrupt enable
  RacingResets  \* may a window thread be writing while the buffer is reset?

Byte == UNION {{p[i] : i \in DOMAIN p} : p \in Event \cup {ResetAnswer}
                                      \cup {Answer[c] : c \in Command}}

ASSUME InputAssumption ==
  /\ CPU \notin Window /\ "none" \notin Window \cup {CPU}
  /\ ResetCommand \subseteq Command
  /\ XmtrIen \subseteq BOOLEAN /\ RacingResets \in BOOLEAN
  /\ {BUF_MAX, BUF_MIN_FREE, MAX_TIMERS} \subseteq Nat \ {0}
  /\ Event \subseteq Seq(Byte) /\ \A p \in Event : Len(p) \in 1 .. BUF_MIN_FREE
  /\ Answer \in [Command -> Seq(Byte)] /\ ResetAnswer \in Seq(Byte)

VARIABLES
  buf, writePtr, readPtr,   \* the ring buffer
  holder,                   \* the thread that holds the mutex, or "none"
  writer,                   \* writer[t]: thread t's progress in kbdBufWrite
  todo,                     \* what is left of the CPU thread's handler
  ctrl,                     \* the control register's four bits
  rcvrData, xmtrData,       \* the data registers
  xmtrTimers,               \* started timers with callback kbdXmtrCallback
  irq                       \* is the device's interrupt line raised?

ring == <<buf, writePtr, readPtr>>
threads == <<holder, writer, todo>>
regs == <<ctrl, rcvrData, xmtrData, xmtrTimers, irq>>
ivars == <<ring, threads, regs>>

Thread == Window \cup {CPU}
NEXT(p) == (p + 1) % BUF_MAX

\* A writer's program counter, the bytes it has yet to store, the branch that
\* kbdBufFree took and the value it loaded from writePtr.
Progress == [at : {"idle", "lock", "check", "free", "put", "bump"},
             packet : Seq(Byte), ahead : BOOLEAN, ptr : 0 .. BUF_MAX - 1]
NotWriting == [at |-> "idle", packet |-> <<>>, ahead |-> FALSE, ptr |-> 0]

\* What the CPU thread still has to do is a sequence of steps: clear a pointer,
\* write a byte, or finish the handler.
Work == {<<"clear write">>, <<"clear read">>, <<"xmtr done">>, <<"reset done">>}
          \cup {<<"write", b>> : b \in Byte}
Answers(bytes) == [i \in DOMAIN bytes |-> <<"write", bytes[i]>>]
BufInit == << <<"clear write">>, <<"clear read">> >>
ResetWork == BufInit \o Answers(ResetAnswer) \o << <<"reset done">> >>

Ctrl == [rcvrRdy : BOOLEAN, rcvrIen : BOOLEAN, xmtrRdy : BOOLEAN, xmtrIen : BOOLEAN]

ITypeOK ==
  /\ buf \in [0 .. BUF_MAX - 1 -> Byte \cup {NoByte}]
  /\ {writePtr, readPtr} \subseteq 0 .. BUF_MAX - 1
  /\ holder \in Thread \cup {"none"}
  /\ writer \in [Thread -> Progress]
  /\ todo \in Seq(Work)
  /\ ctrl \in Ctrl
  /\ {rcvrData, xmtrData} \subseteq Byte \cup Command \cup {NoByte}
  /\ xmtrTimers \in 0 .. MAX_TIMERS
  /\ irq \in BOOLEAN

CtrlReset == [rcvrRdy |-> FALSE, rcvrIen |-> FALSE, xmtrRdy |-> TRUE, xmtrIen |-> FALSE]

IInit ==
  /\ buf = [i \in 0 .. BUF_MAX - 1 |-> NoByte]
  /\ writePtr = 0 /\ readPtr = 0
  /\ holder = "none"
  /\ writer = [t \in Thread |-> NotWriting]
  /\ todo = ResetWork
  /\ ctrl = CtrlReset
  /\ rcvrData = NoByte /\ xmtrData = NoByte
  /\ xmtrTimers = 0
  /\ irq = FALSE

-------------------------------------------------------------------------------
(* kbdBufWrite, of any thread *)

\* keyPressed and keyReleased look the packet up and write it.
WindowEvent(t, p) ==
  /\ writer[t].at = "idle"
  /\ writer' = [writer EXCEPT ![t] = [NotWriting EXCEPT !.at = "lock", !.packet = p]]
  /\ UNCHANGED <<ring, holder, todo, regs>>

\* (mutant) The mutex is not looked at.
NotLocked == TRUE

Unlocked == holder = "none"

Lock(t) ==
  /\ writer[t].at = "lock"
  /\ Unlocked
  /\ holder' = t
  /\ writer' = [writer EXCEPT ![t].at = "check"]
  /\ UNCHANGED <<ring, todo, regs>>

\* kbdBufFree compares the pointers ...
Compare(t) ==
  /\ writer[t].at = "check"
  /\ writer' = [writer EXCEPT ![t].at = "free", ![t].ahead = readPtr <= writePtr]
  /\ UNCHANGED <<ring, holder, todo, regs>>

\* ... and loads them again to subtract; the difference may be negative.
EnoughFree(ahead) ==
  IF ahead THEN BUF_MAX + readPtr >= BUF_MIN_FREE + writePtr + 1
           ELSE readPtr >= BUF_MIN_FREE + writePtr + 1

\* (mutant) The early return of kbdBufWrite forgets the mutex.
KeepLocked == holder

Released == "none"

Reject(t) ==
  /\ writer[t].at = "free" /\ ~EnoughFree(writer[t].ahead)
  /\ holder' = Released
  /\ writer' = [writer EXCEPT ![t] = NotWriting]
  /\ UNCHANGED <<ring, todo, regs>>

Accept(t) ==
  /\ writer[t].at = "free" /\ EnoughFree(writer[t].ahead)
  /\ writer' = [writer EXCEPT ![t].at = "put"]
  /\ UNCHANGED <<ring, holder, todo, regs>>

\* One round of the loop: load the pointer and store the byte ...
Put(t) ==
  /\ writer[t].at = "put"
  /\ buf' = [buf EXCEPT ![writePtr] = Head(writer[t].packet)]
  /\ writer' = [writer EXCEPT ![t].at = "bump", ![t].ptr = writePtr]
  /\ UNCHANGED <<writePtr, readPtr, holder, todo, regs>>

\* ... then store the pointer; after the last byte release the mutex.
Bump(t) ==
  LET left == Tail(writer[t].packet) IN
  /\ writer[t].at = "bump"
  /\ writePtr' = NEXT(writer[t].ptr)
  /\ IF left = <<>>
     THEN /\ writer' = [writer EXCEPT ![t] = NotWriting]
          /\ holder' = "none"
     ELSE /\ writer' = [writer EXCEPT ![t].at = "put", ![t].packet = left]
          /\ UNCHANGED holder
  /\ UNCHANGED <<buf, readPtr, todo, regs>>

Critical(t) == Compare(t) \/ Reject(t) \/ Accept(t) \/ Put(t) \/ Bump(t)

-------------------------------------------------------------------------------
(* The CPU thread between its handlers' calls of kbdBufWrite *)

CpuFree == todo = <<>>
Working(step) == todo # <<>> /\ Head(todo)[1] = step /\ writer[CPU].at = "idle"

\* kbdBufInit
ClearWritePtr ==
  /\ Working("clear write")
  /\ RacingResets \/ holder = "none"
  /\ writePtr' = 0
  /\ todo' = Tail(todo)
  /\ UNCHANGED <<buf, readPtr, holder, writer, regs>>

ClearReadPtr ==
  /\ Working("clear read")
  /\ readPtr' = 0
  /\ todo' = Tail(todo)
  /\ UNCHANGED <<buf, writePtr, holder, writer, regs>>

WriteAnswer ==
  /\ Working("write")
  /\ writer' = [writer EXCEPT ![CPU] =
       [NotWriting EXCEPT !.at = "lock", !.packet = <<Head(todo)[2]>>]]
  /\ todo' = Tail(todo)
  /\ UNCHANGED <<ring, holder, regs>>

\* (mutant) A callback that has nothing to report lowers the shared line.
RaiseOrLower(on) == irq' = on

Raise(on) == irq' = (irq \/ on)
Lower(on) == irq' = (irq /\ ~on)

\* The end of kbdXmtrCallback.
XmtrDone ==
  /\ Working("xmtr done")
  /\ ctrl' = [ctrl EXCEPT !.xmtrRdy = TRUE]
  /\ Raise(ctrl.xmtrIen)
  /\ todo' = Tail(todo)
  /\ UNCHANGED <<ring, holder, writer, rcvrData, xmtrData, xmtrTimers>>

\* The end of keyboardReset; cpuReset then lowers the interrupt line.
ResetDone ==
  /\ Working("reset done")
  /\ ctrl' = CtrlReset
  /\ rcvrData' = NoByte /\ xmtrData' = NoByte
  /\ irq' = FALSE
  /\ todo' = Tail(todo)
  /\ UNCHANGED <<ring, holder, writer, xmtrTimers>>

-------------------------------------------------------------------------------
(* The CPU thread's handlers *)

\* kbdRcvrCallback restarts its timer; it does no more if the buffer is empty or
\* the last byte was not yet read.
RcvrCallback ==
  /\ CpuFree
  /\ writePtr # readPtr /\ ~ctrl.rcvrRdy
  /\ rcvrData' = buf[readPtr]
  /\ readPtr' = NEXT(readPtr)
  /\ ctrl' = [ctrl EXCEPT !.rcvrRdy = TRUE]
  /\ Raise(ctrl.rcvrIen)
  /\ UNCHANGED <<buf, writePtr, threads, xmtrData, xmtrTimers>>

\* kbdXmtrCallback
XmtrCallback ==
  /\ CpuFree
  /\ xmtrTimers > 0
  /\ xmtrTimers' = xmtrTimers - 1
  /\ todo' = (IF xmtrData \in ResetCommand THEN BufInit ELSE <<>>)
             \o Answers(Answer[xmtrData]) \o << <<"xmtr done">> >>
  /\ UNCHANGED <<ring, holder, writer, ctrl, rcvrData, xmtrData, irq>>

\* keyboardRead of KEYBOARD_DATA returns rcvrData.
ReadData ==
  /\ CpuFree
  /\ ctrl' = [ctrl EXCEPT !.rcvrRdy = FALSE]
  /\ Lower(ctrl.rcvrIen)
  /\ UNCHANGED <<ring, threads, rcvrData, xmtrData, xmtrTimers>>

\* (mutant) The line is raised only; turning an enable bit off does not lower it.
RaiseOnly(c) == irq \/ (c.rcvrIen /\ c.rcvrRdy) \/ (c.xmtrIen /\ c.xmtrRdy)

Assigned(c) == (c.rcvrIen /\ c.rcvrRdy) \/ (c.xmtrIen /\ c.xmtrRdy)

\* keyboardWrite of KEYBOARD_CTRL
WriteCtrl(rien, xien) ==
  /\ CpuFree
  /\ ctrl' = [ctrl EXCEPT !.rcvrIen = rien, !.xmtrIen = xien]
  /\ irq' = Assigned(ctrl')
  /\ UNCHANGED <<ring, threads, rcvrData, xmtrData, xmtrTimers>>

\* keyboardWrite of KEYBOARD_DATA
WriteData(c) ==
  /\ CpuFree
  /\ xmtrTimers < MAX_TIMERS
  /\ xmtrData' = c
  /\ ctrl' = [ctrl EXCEPT !.xmtrRdy = FALSE]
  /\ Lower(ctrl.xmtrIen)
  /\ xmtrTimers' = xmtrTimers + 1
  /\ UNCHANGED <<ring, threads, rcvrData>>

\* The console's "i" command: timerReset, then keyboardReset.
DeviceReset ==
  /\ CpuFree
  /\ xmtrTimers' = 0
  /\ todo' = ResetWork
  /\ UNCHANGED <<ring, holder, writer, ctrl, rcvrData, xmtrData, irq>>

-------------------------------------------------------------------------------
CpuStep ==
  \/ ClearWritePtr \/ ClearReadPtr \/ WriteAnswer \/ XmtrDone \/ ResetDone
  \/ RcvrCallback \/ XmtrCallback
  \/ ReadData \/ DeviceReset
  \/ \E rien \in BOOLEAN, xien \in XmtrIen : WriteCtrl(rien, xien)
  \/ \E c \in Command : WriteData(c)

WriterStep == \E t \in Thread : Lock(t) \/ Critical(t)

INext ==
  \/ CpuStep \/ WriterStep
  \/ \E t \in Window, p \in Event : WindowEvent(t, p)

\* Threads keep running; timers expire; the mutex is free between two window
\* events for much longer than the CPU thread needs to get it.
Fairness ==
  /\ WF_ivars(ClearWritePtr) /\ WF_ivars(ClearReadPtr) /\ WF_ivars(WriteAnswer)
  /\ WF_ivars(XmtrDone) /\ WF_ivars(ResetDone)
  /\ WF_ivars(XmtrCallback) /\ SF_ivars(Lock(CPU))
  /\ \A t \in Thread : WF_ivars(Critical(t))

ISpec == IInit /\ [][INext]_ivars
FairISpec == ISpec /\ Fairness

-------------------------------------------------------------------------------
\* The bytes between the read and the write pointer, those that kbdBufInit is
\* about to discard left out.
First == IF todo # <<>> /\ Head(todo)[1] = "clear read" THEN 0 ELSE readPtr
Contents ==
  [i \in 1 .. (BUF_MAX + writePtr - First) % BUF_MAX |-> buf[(First + i - 1) % BUF_MAX]]

\* What the thread that holds the mutex will still store: a packet belongs to
\* the queue as a whole from the moment it is accepted.
InFlight ==
  IF holder # "none" /\ writer[holder].at \in {"put", "bump"}
  THEN writer[holder].packet ELSE <<>>

Queue == INSTANCE InputQueue WITH
  Packet <- Event \cup {<<b>> : b \in Byte}, Capacity <- BUF_MAX - 1,
  queue <- Contents \o InFlight, rdy <- ctrl.rcvrRdy, data <- rcvrData

\* Refinement: while nobody resets the buffer under a writer's feet, the lock on
\* one side and no lock on the other give a bounded FIFO of whole packets: the
\* bytes of two packets never mix and nothing unread is overwritten (kbd.c:227,
\* 236, 291).
ImplementsInputQueue == Queue!Spec

\* One of the two halves of the device asks for an interrupt.
Wanted ==
  \/ ctrl.rcvrRdy /\ ctrl.rcvrIen
  \/ ctrl.xmtrRdy /\ ctrl.xmtrIen

\* Safety: the interrupt line is raised only if a ready bit and its enable bit
\* are set, so software is not interrupted for nothing (kbd.c:291-418).
NoSpuriousIrq == irq => Wanted

\* Safety: and it is raised whenever that is so, as long as software does not
\* enable the transmitter's interrupt (kbd.c:291-418).
IrqIfWanted == Wanted => irq

\* What the manual says of the keyboard's receiver: "The interrupt signal is
\* asserted if both the ready flag and the interrupt enable flag are set."
\* Not so once the transmitter's interrupt is enabled: a write of the data
\* register lowers the line that both share (kbd.c:406-413).
ReceiverInterrupts == ctrl.rcvrRdy /\ ctrl.rcvrIen => irq

\* Liveness: whatever the window threads do with the mutex, the CPU thread gets
\* through its handlers and a busy transmitter becomes ready (kbd.c:236-250).
CommandsFinish == ~ctrl.xmtrRdy ~> ctrl.xmtrRdy
=============================================================================

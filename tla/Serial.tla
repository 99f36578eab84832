-------------------------------- MODULE Serial --------------------------------
(***************************************************************************)
(* The serial lines, sim/serial.c: registers, interrupt lines and the two  *)
(* timer callbacks.  The receiver polls its terminal every                 *)
(* SERIAL_RCVR_USEC for ever; a write to the transmitter starts a timer    *)
(* whose callback outputs whatever the data register holds by then.        *)
(*                                                                         *)
(* Time is abstracted: a callback may run at any step once its timer is    *)
(* started.  The transmitter timers of one line have equal delays and      *)
(* equal callbacks, so only their number matters.                          *)
(***************************************************************************)
EXTENDS Naturals

CONSTANTS
  Dev,          \* the serial lines
  Char,         \* characters
  MAX_TIMERS    \* bound on outstanding transmitter timers of a line (the
                \* simulator exits when its pool of 20 timers is empty)

ASSUME SerialAssumption == Char # {} /\ MAX_TIMERS \in Nat \ {0}

VARIABLES
  rcvr,         \* rcvr[d] = [rdy, ien, data]: receiver registers
  xmtr,         \* xmtr[d] = [rdy, ien, data]: transmitter registers
  xmtrTimers,   \* xmtrTimers[d]: started timers with callback xmtrCallback
  irqPending    \* raised interrupt lines

svars == <<rcvr, xmtr, xmtrTimers, irqPending>>

Registers == [rdy : BOOLEAN, ien : BOOLEAN, data : Char]
RCVR(d) == <<d, "rcvr">>
XMTR(d) == <<d, "xmtr">>
IrqLine == Dev \X {"rcvr", "xmtr"}

STypeOK ==
  /\ rcvr \in [Dev -> Registers]
  /\ xmtr \in [Dev -> Registers]
  /\ xmtrTimers \in [Dev -> 0 .. MAX_TIMERS]
  /\ irqPending \subseteq IrqLine

NoChar == CHOOSE c \in Char : TRUE

\* serialReset; cpuReset lowers the interrupt lines at the end of a reset.
RcvrReset == [d \in Dev |-> [rdy |-> FALSE, ien |-> FALSE, data |-> NoChar]]
XmtrReset == [d \in Dev |-> [rdy |-> TRUE, ien |-> FALSE, data |-> NoChar]]
NoTimers == [d \in Dev |-> 0]

SInit ==
  rcvr = RcvrReset /\ xmtr = XmtrReset /\ xmtrTimers = NoTimers /\ irqPending = {}

-------------------------------------------------------------------------------
(* Interrupt lines *)

Raise(on, l) == irqPending' = IF on THEN irqPending \cup {l} ELSE irqPending
Lower(on, l) == irqPending' = IF on THEN irqPending \ {l} ELSE irqPending

\* (mutant) Disabling the interrupt leaves the line raised.
SetOnly(on, l) == Raise(on, l)

Assign(on, l) ==
  irqPending' = IF on THEN irqPending \cup {l} ELSE irqPending \ {l}

-------------------------------------------------------------------------------
(* Timer callbacks *)

\* The receiver's registers after a character came, or was read.
Arrived(r, c) == [r EXCEPT !.data = c, !.rdy = TRUE]

\* (mutant) Reading the data register does not clear the ready bit.
TakenTwice(r) == r

Taken(r) == [r EXCEPT !.rdy = FALSE]

Finished(d) == [xmtr[d] EXCEPT !.rdy = TRUE]

\* rcvrCallback finds a character, which replaces one that was not yet read.
\* (Finding none, it only restarts its timer: a stuttering step.)
PollChar(d, c) ==
  /\ rcvr' = [rcvr EXCEPT ![d] = Arrived(@, c)]
  /\ Raise(rcvr[d].ien, RCVR(d))
  /\ UNCHANGED <<xmtr, xmtrTimers>>

\* xmtrCallback outputs the data register as it is now.
XmtrCallback(d) ==
  /\ xmtrTimers[d] > 0
  /\ xmtrTimers' = [xmtrTimers EXCEPT ![d] = @ - 1]
  /\ xmtr' = [xmtr EXCEPT ![d] = Finished(d)]
  /\ Raise(xmtr[d].ien, XMTR(d))
  /\ UNCHANGED rcvr

-------------------------------------------------------------------------------
(* Register accesses.  Reads of the control registers change nothing. *)

\* serialRead of SERIAL_RCVR_DATA returns rcvr[d].data.
ReadRcvrData(d) ==
  /\ rcvr' = [rcvr EXCEPT ![d] = Taken(@)]
  /\ Lower(rcvr[d].ien, RCVR(d))
  /\ UNCHANGED <<xmtr, xmtrTimers>>

\* serialWrite of SERIAL_RCVR_CTRL
WriteRcvrCtrl(d, ien) ==
  /\ rcvr' = [rcvr EXCEPT ![d].ien = ien]
  /\ Assign(ien /\ rcvr[d].rdy, RCVR(d))
  /\ UNCHANGED <<xmtr, xmtrTimers>>

\* serialWrite of SERIAL_XMTR_CTRL
WriteXmtrCtrl(d, ien) ==
  /\ xmtr' = [xmtr EXCEPT ![d].ien = ien]
  /\ Assign(ien /\ xmtr[d].rdy, XMTR(d))
  /\ UNCHANGED <<rcvr, xmtrTimers>>

\* (mutant) No timer is started while interrupts are disabled.
StartedIfEnabled(d) == IF xmtr[d].ien THEN xmtrTimers[d] + 1 ELSE xmtrTimers[d]

Started(d) == xmtrTimers[d] + 1

\* serialWrite of SERIAL_XMTR_DATA does not look at the ready bit.
WriteXmtrData(d, c) ==
  /\ xmtrTimers[d] < MAX_TIMERS
  /\ xmtr' = [xmtr EXCEPT ![d].data = c, ![d].rdy = FALSE]
  /\ Lower(xmtr[d].ien, XMTR(d))
  /\ xmtrTimers' = [xmtrTimers EXCEPT ![d] = Started(d)]
  /\ UNCHANGED rcvr

\* The console's "i" command: timerReset, serialReset, ..., cpuReset.
SReset ==
  rcvr' = RcvrReset /\ xmtr' = XmtrReset /\ xmtrTimers' = NoTimers /\ irqPending' = {}

-------------------------------------------------------------------------------
\* The device under arbitrary software.
Callbacks(d) == XmtrCallback(d) \/ \E c \in Char : PollChar(d, c)

Accesses(d) ==
  \/ ReadRcvrData(d)
  \/ \E ien \in BOOLEAN : WriteRcvrCtrl(d, ien) \/ WriteXmtrCtrl(d, ien)
  \/ \E c \in Char : WriteXmtrData(d, c)

SNext == SReset \/ \E d \in Dev : Callbacks(d) \/ Accesses(d)

SSpec == SInit /\ [][SNext]_svars

-------------------------------------------------------------------------------
\* Safety: an interrupt line is raised exactly while the ready and the interrupt
\* enable bit of its control register are both set, so that software neither
\* misses a character nor is interrupted for nothing (serial.c:58-219).
IrqIsRdyAndIen ==
  \A d \in Dev :
    /\ RCVR(d) \in irqPending <=> rcvr[d].rdy /\ rcvr[d].ien
    /\ XMTR(d) \in irqPending <=> xmtr[d].rdy /\ xmtr[d].ien

\* Safety: a transmitter that is not ready has a timer running that will make
\* it ready; whatever software does, it cannot get stuck (serial.c:189-195).
BusyIsScheduled ==
  \A d \in Dev : ~xmtr[d].rdy => xmtrTimers[d] > 0
=============================================================================

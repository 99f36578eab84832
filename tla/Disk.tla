--------------------------------- MODULE Disk ---------------------------------
(***************************************************************************)
(* The disk controller, sim/disk.c: registers, sector buffer, interrupt    *)
(* line and the two uses of its timer callback, the end of the disk's      *)
(* startup and the end of an operation.                                    *)
(*                                                                         *)
(* Time is abstracted: a started timer may expire at any step.  Operations *)
(* in progress differ only in their delay, since the callback reads the    *)
(* registers as they are when it runs; so only their number matters.       *)
(***************************************************************************)
EXTENDS Naturals

CONSTANTS
  TOTAL,        \* totalSectors, the sectors of the disk image; 0 if no disk
  BUF_SCTS,     \* sectors the buffer holds (8); a power of two
  Data,         \* contents of a sector
  Cnt,          \* values software writes to the sector count register
  Sct,          \* values software writes to the sector register
  MAX_OPS       \* bound on operations in progress

ASSUME DiskAssumption ==
  /\ TOTAL \in Nat /\ BUF_SCTS \in Nat \ {0} /\ MAX_OPS \in Nat \ {0}
  /\ 0 \in Cnt /\ Cnt \subseteq Nat /\ 0 \in Sct /\ Sct \subseteq Nat
  /\ Data # {}

VARIABLES
  image,        \* the sectors of the disk image
  buffer,       \* diskBuffer
  ctrl,         \* the control register
  cnt, sct, cap,\* the count, sector and capacity registers
  startup,      \* is the startup timer running?
  ops,          \* started timers that end an operation
  irq           \* is the disk's interrupt line raised?

dregs == <<cnt, sct, cap>>
dvars == <<image, buffer, ctrl, dregs, startup, ops, irq>>

Image == [0 .. TOTAL - 1 -> Data]
Buffer == [0 .. BUF_SCTS - 1 -> Data]
Ctrl == [wrt : BOOLEAN, ien : BOOLEAN, err : BOOLEAN, done : BOOLEAN, ready : BOOLEAN]
CtrlReset == [wrt |-> FALSE, ien |-> FALSE, err |-> FALSE, done |-> FALSE, ready |-> FALSE]

DiskTypeOK ==
  /\ image \in Image /\ buffer \in Buffer
  /\ ctrl \in Ctrl
  /\ cnt \in Cnt /\ sct \in Sct /\ cap \in {0, TOTAL}
  /\ startup \in BOOLEAN /\ ops \in 0 .. MAX_OPS /\ irq \in BOOLEAN

DiskInit ==
  /\ image \in Image /\ buffer \in Buffer
  /\ ctrl = CtrlReset
  /\ cnt = 0 /\ sct = 0 /\ cap = 0
  /\ startup = (TOTAL # 0) /\ ops = 0
  /\ irq = FALSE

-------------------------------------------------------------------------------
(* Timer callbacks *)

StartupCallback ==
  /\ startup
  /\ startup' = FALSE
  /\ cap' = TOTAL
  /\ ctrl' = [ctrl EXCEPT !.ready = TRUE]
  /\ UNCHANGED <<image, buffer, cnt, sct, ops, irq>>

\* (mutant) The count is taken as it is instead of less one.
OneTooMany(n) == (n % BUF_SCTS) + 1

NumScts(n) == ((n + BUF_SCTS - 1) % BUF_SCTS) + 1

InRange == cap # 0 /\ sct < cap /\ sct + NumScts(cnt) <= cap

Written == [s \in DOMAIN image |->
  IF s \in sct .. sct + NumScts(cnt) - 1 THEN buffer[s - sct] ELSE image[s]]
Fetched == [b \in DOMAIN buffer |->
  IF b < NumScts(cnt) THEN image[sct + b] ELSE buffer[b]]

\* (mutant) A request beyond the end of the disk sets the error bit only.
ErrOnly == [ctrl EXCEPT !.err = TRUE]

Failed == [ctrl EXCEPT !.err = TRUE, !.done = TRUE]

\* diskCallback(1)
OperationCallback ==
  /\ ops > 0
  /\ ops' = ops - 1
  /\ ctrl' = IF InRange THEN [ctrl EXCEPT !.done = TRUE] ELSE Failed
  /\ image' = IF InRange /\ ctrl.wrt THEN Written ELSE image
  /\ buffer' = IF InRange /\ ~ctrl.wrt THEN Fetched ELSE buffer
  /\ irq' = (irq \/ ctrl.ien)
  /\ UNCHANGED <<dregs, startup>>

-------------------------------------------------------------------------------
(* Register accesses; reads change nothing *)

Asserted(c) == c.done /\ c.ien

\* (mutant) The completion bit of the previous operation is left set.
StaleDone(c) == [c EXCEPT !.err = FALSE]

Restarted(c) == [c EXCEPT !.err = FALSE, !.done = FALSE]

\* diskWrite of DISK_CTRL.  Of the bits that software writes, only WRT, IEN and
\* STRT are looked at; done stands for the one it writes to DISK_DONE.
WriteCtrl(wrt, ien, strt, done) ==
  LET c == [ctrl EXCEPT !.wrt = wrt, !.ien = ien] IN
  /\ strt => ops < MAX_OPS
  /\ ctrl' = IF strt THEN Restarted(c) ELSE c
  /\ ops' = IF strt /\ cap # 0 THEN ops + 1 ELSE ops
  /\ irq' = Asserted(ctrl')
  /\ UNCHANGED <<image, buffer, dregs, startup>>

WriteCnt(n) == cnt' = n /\ UNCHANGED <<image, buffer, ctrl, sct, cap, startup, ops, irq>>

WriteSct(s) == sct' = s /\ UNCHANGED <<image, buffer, ctrl, cnt, cap, startup, ops, irq>>

\* A store to every word of sector b of the buffer.
WriteBuffer(b, d) ==
  /\ buffer' = [buffer EXCEPT ![b] = d]
  /\ UNCHANGED <<image, ctrl, dregs, startup, ops, irq>>

\* The console's "i" command: timerReset, diskReset, cpuReset.
DiskReset ==
  /\ ctrl' = CtrlReset
  /\ cnt' = 0 /\ sct' = 0 /\ cap' = 0
  /\ startup' = (TOTAL # 0) /\ ops' = 0
  /\ irq' = FALSE
  /\ UNCHANGED <<image, buffer>>

-------------------------------------------------------------------------------
\* The controller under arbitrary software.
DiskNext ==
  \/ StartupCallback \/ OperationCallback \/ DiskReset
  \/ \E wrt, ien, strt, done \in BOOLEAN : WriteCtrl(wrt, ien, strt, done)
  \/ \E n \in Cnt : WriteCnt(n)
  \/ \E s \in Sct : WriteSct(s)
  \/ \E b \in 0 .. BUF_SCTS - 1, d \in Data : WriteBuffer(b, d)

DiskSpec == DiskInit /\ [][DiskNext]_dvars

-------------------------------------------------------------------------------
\* Safety: the interrupt line is raised exactly while an operation is reported
\* as done and the interrupt is enabled, even if software starts an operation
\* while another is in progress (disk.c:94-98, 173-180).
IrqIsDoneAndIen == irq <=> ctrl.done /\ ctrl.ien
=============================================================================

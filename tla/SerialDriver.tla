----------------------------- MODULE SerialDriver -----------------------------
(***************************************************************************)
(* The ROM monitor's polling driver for one serial line,                   *)
(* monitor/monitor/common/serial.s (serXin, serXout), running against the  *)
(* simulated line of module Serial.  Every load or store of a device       *)
(* register is a step; timer callbacks come in between.  The other lines    *)
(* are used by arbitrary software, and the console may reset the machine,  *)
(* which starts the monitor again.                                         *)
(***************************************************************************)
EXTENDS Serial, Sequences

CONSTANTS
  line,         \* the line this driver uses
  MAX_CHARS     \* bound on the characters each direction carries

ASSUME SerialDriverAssumption == line \in Dev /\ MAX_CHARS \in Nat

VARIABLES
  pc,           \* where the driver is
  arg,          \* the argument of the current call of serXout
  typed,        \* history: characters the terminal delivered
  output,       \* history: characters the terminal received
  sent,         \* history: arguments of completed and current serXout calls
  received      \* history: results of serXin

pvars == <<pc, arg, typed, output, sent, received>>
allvars == <<svars, pvars>>

PTypeOK ==
  /\ STypeOK
  /\ pc \in {"idle", "in: poll", "in: load", "out: poll", "out: store"}
  /\ arg \in Char
  /\ {typed, output, sent, received} \subseteq Seq(Char)

PInit ==
  /\ SInit
  /\ pc = "idle"
  /\ arg = NoChar
  /\ typed = <<>> /\ output = <<>> /\ sent = <<>> /\ received = <<>>

\* The monitor calls serXin or serXout.
CallIn ==
  /\ pc = "idle"
  /\ pc' = "in: poll"
  /\ UNCHANGED <<svars, arg, typed, output, sent, received>>

CallOut(c) ==
  /\ pc = "idle" /\ Len(sent) < MAX_CHARS
  /\ pc' = "out: poll"
  /\ arg' = c
  /\ UNCHANGED <<svars, typed, output, sent, received>>

\* serXin1: load the receiver control register until the ready bit is set.
InPoll ==
  /\ pc = "in: poll"
  /\ pc' = IF rcvr[line].rdy THEN "in: load" ELSE pc
  /\ UNCHANGED <<svars, arg, typed, output, sent, received>>

\* serXin: load the receiver data register and return.
InLoad ==
  /\ pc = "in: load"
  /\ ReadRcvrData(line)
  /\ received' = Append(received, rcvr[line].data)
  /\ pc' = "idle"
  /\ UNCHANGED <<arg, typed, output, sent>>

\* (mutant) The driver does not wait.
NoWait(r) == TRUE

Ready(r) == r.rdy

\* serXout1: load the transmitter control register until the ready bit is set.
OutPoll ==
  /\ pc = "out: poll"
  /\ pc' = IF Ready(xmtr[line]) THEN "out: store" ELSE pc
  /\ UNCHANGED <<svars, arg, typed, output, sent, received>>

\* serXout: store the transmitter data register and return.
OutStore ==
  /\ pc = "out: store"
  /\ WriteXmtrData(line, arg)
  /\ sent' = Append(sent, arg)
  /\ pc' = "idle"
  /\ UNCHANGED <<arg, typed, output, received>>

Driver ==
  \/ CallIn \/ InPoll \/ InLoad
  \/ (\E c \in Char : CallOut(c)) \/ OutPoll \/ OutStore

\* The terminal's side: fputc and fgetc in the two callbacks.
Output ==
  /\ XmtrCallback(line)
  /\ output' = Append(output, xmtr[line].data)
  /\ UNCHANGED <<pc, arg, typed, sent, received>>

Type(c) ==
  /\ Len(typed) < MAX_CHARS
  /\ PollChar(line, c)
  /\ typed' = Append(typed, c)
  /\ UNCHANGED <<pc, arg, output, sent, received>>

\* Whatever software does with the other lines.
Elsewhere ==
  /\ \E d \in Dev \ {line} : Callbacks(d) \/ Accesses(d)
  /\ UNCHANGED pvars

\* The console's "i" command: the monitor starts again, and so do the histories.
Restart ==
  /\ SReset
  /\ pc' = "idle"
  /\ arg' = NoChar
  /\ typed' = <<>> /\ output' = <<>> /\ sent' = <<>> /\ received' = <<>>

PNext == Driver \/ Output \/ (\E c \in Char : Type(c)) \/ Elsewhere \/ Restart

\* The CPU executes the driver and advances time; nobody has to call it or type.
PSpec ==
  /\ PInit /\ [][PNext]_allvars
  /\ WF_allvars(InPoll) /\ WF_allvars(InLoad)
  /\ WF_allvars(OutPoll) /\ WF_allvars(OutStore)
  /\ WF_allvars(Output)

-------------------------------------------------------------------------------
\* Safety: the terminal receives exactly what was passed to serXout, in order;
\* at most the last character is still in the transmitter, although the device
\* outputs the register's contents only later (serial.c:84, serial.s:51).
OutputIsWhatWasSent ==
  output \o (IF xmtrTimers[line] > 0 THEN <<xmtr[line].data>> ELSE <<>>) = sent

\* Safety: the driver never has more than one transmitter timer running, so the
\* pool of 20 timers (timer.h NUMBER_TIMERS) cannot run out because of it.
OneTimer == xmtrTimers[line] <= 1

\* s is t with some elements left out.
IsSubsequence(s, t) ==
  \E f \in [DOMAIN s -> DOMAIN t] :
    /\ \A i, j \in DOMAIN s : i < j => f[i] < f[j]
    /\ \A i \in DOMAIN s : s[i] = t[f[i]]

\* Safety: although a character can arrive between the poll and the load, serXin
\* returns characters that were typed, in order and none twice; it may lose
\* some, as the receiver overwrites (serial.c:71).
InputInOrder == IsSubsequence(received, typed)

\* Liveness: serXout returns, and so does serXin once a character was typed.
CallsReturn ==
  /\ pc \in {"out: poll", "out: store"} ~> pc = "idle"
  /\ (pc = "in: poll" /\ rcvr[line].rdy) ~> pc = "idle"
=============================================================================

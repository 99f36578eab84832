---------------------------------- MODULE Cpu ----------------------------------
(***************************************************************************)
(* Control state of the processor, sim/cpu.c: program counter, processor   *)
(* status word, pending interrupts, the link of load-linked and            *)
(* store-conditional.  One step of the module is one pass through the loop *)
(* of cpuRun, or its longjmp path: devices raise and lower their lines, an *)
(* instruction is executed or throws, one exception or interrupt may be    *)
(* accepted.                                                               *)
(*                                                                         *)
(* Arithmetic, addresses and memory are abstracted: any instruction can be *)
(* the next one, a jump goes anywhere, a memory access succeeds or throws. *)
(***************************************************************************)
EXTENDS Naturals, FiniteSets

CONSTANTS
  Irq,          \* the interrupt lines in use, a subset of 0 .. 15
  Exc,          \* exceptions an unprivileged instruction may throw
  Addr,         \* program addresses
  NewPsw,       \* status words that software writes
  Vector,       \* addresses of service routines: <<v, where>>
  LinkDiscipline \* do service routines return without a link of their own?

EXC_PRV_INSTRCT == 18
EXC_TLB_MISS == 21

ASSUME CpuAssumption ==
  /\ Irq \subseteq 0 .. 15
  /\ Exc \subseteq 16 .. 25
  /\ Vector = BOOLEAN \X {"user miss", "general"}
  /\ Addr # {}
  /\ LinkDiscipline \in BOOLEAN

VARIABLES
  pc,           \* the program counter
  psw,          \* the processor status word
  r30,          \* register 30, the return address
  irqPending,   \* raised interrupt lines (exceptions are accepted at once)
  linked,       \* a load-link was executed and nothing broke the link
  prev, old,    \* history: modes [um, ie] that the last accepted exception
                \* interrupted, and the one before; {} if software changed them
  broken        \* history: the program changed hands since the last load-link

cvars == <<pc, psw, r30, irqPending, linked, prev, old, broken>>

PswType == [v : BOOLEAN, um : BOOLEAN, pum : BOOLEAN, oum : BOOLEAN,
            ie : BOOLEAN, pie : BOOLEAN, oie : BOOLEAN,
            prio : 0 .. 31, mask : SUBSET Irq]

ASSUME NewPswAssumption == NewPsw \subseteq PswType

Mode == [um : BOOLEAN, ie : BOOLEAN]
Target == Addr \cup Vector

CpuTypeOK ==
  /\ {pc, r30} \subseteq Target
  /\ psw \in PswType
  /\ irqPending \subseteq Irq
  /\ linked \in BOOLEAN /\ broken \in BOOLEAN
  /\ prev \in SUBSET Mode /\ old \in SUBSET Mode

\* cpuReset; startAddr is the ROM's, or that of a loaded program.
CpuInit ==
  /\ pc \in Addr /\ r30 \in Addr
  /\ psw = [v |-> FALSE, um |-> FALSE, pum |-> FALSE, oum |-> FALSE, ie |-> FALSE,
            pie |-> FALSE, oie |-> FALSE, prio |-> 0, mask |-> {}]
  /\ irqPending = {}
  /\ linked = FALSE
  /\ prev = {} /\ old = {} /\ broken = FALSE

-------------------------------------------------------------------------------
(* The status word *)

\* (mutant) The old level of the stack is not saved.
PushedTwoLevels(p, prio) ==
  [v |-> p.v, um |-> FALSE, pum |-> p.um, oum |-> p.oum,
   ie |-> FALSE, pie |-> p.ie, oie |-> p.oie, prio |-> prio, mask |-> p.mask]

\* handleInterrupts pushes kernel mode and disabled interrupts ...
Pushed(p, prio) ==
  [v |-> p.v, um |-> FALSE, pum |-> p.um, oum |-> p.pum,
   ie |-> FALSE, pie |-> p.ie, oie |-> p.pie, prio |-> prio, mask |-> p.mask]

\* ... and OP_RFX pops them.
Popped(p) ==
  [v |-> p.v, um |-> p.pum, pum |-> p.oum, oum |-> p.oum,
   ie |-> p.pie, pie |-> p.oie, oie |-> p.oie, prio |-> p.prio, mask |-> p.mask]

ModeOf(p) == [um |-> p.um, ie |-> p.ie]

ServiceRoutine(p, where) == <<p.v, where>>

\* (mutant) An accepted exception keeps the link.
LinkKept == linked

LinkAfterAccept == FALSE

\* The second half of handleInterrupts: accept prio while the status word is p,
\* next is the address to return to.  where tells a user TLB miss from the rest.
Accept(prio, p, next, where) ==
  /\ psw' = Pushed(p, prio)
  /\ r30' = next
  /\ pc' = ServiceRoutine(p, where)
  /\ linked' = LinkAfterAccept
  /\ prev' = {ModeOf(p)}
  /\ broken' = TRUE

Highest(S) == CHOOSE i \in S : \A j \in S : j <= i

\* (mutant) Pending interrupts are looked at with the instruction's old mask.
SeenBefore(p, lines) == IF psw.ie THEN lines \cap psw.mask ELSE {}

\* The lines that get through mask and interrupt enable.
Seen(p, lines) == IF p.ie THEN lines \cap p.mask ELSE {}

\* The end of an instruction that threw nothing: handleInterrupts sees the status
\* word p it left, and the lines as devices and instruction left them.  modes is
\* what the history variables prev and old become if nothing is accepted.
Complete(p, next, ret, link, brk, modes) ==
  /\ irqPending' \in SUBSET Irq
  /\ LET seen == Seen(p, irqPending') IN
     \/ /\ seen = {}
        /\ psw' = p /\ pc' = next /\ r30' = ret /\ linked' = link
        /\ prev' = modes[1] /\ old' = modes[2] /\ broken' = brk
     \/ /\ seen # {}
        /\ Accept(Highest(seen), p, next, "general")
        /\ old' = modes[1]

\* An instruction that throws: cpuSetInterrupt and handleInterrupts after the
\* longjmp.  The program counter still points to it.
Throw(e, where) ==
  /\ irqPending' \in SUBSET Irq
  /\ Accept(e, psw, pc, where)
  /\ old' = prev

-------------------------------------------------------------------------------
(* Instructions *)

Unchanged == <<prev, old>>

\* Arithmetic, branches, loads and stores; ret is register 30 afterwards.
Plain(next, ret) ==
  /\ Complete(psw, next, ret, linked, broken, Unchanged)


Fault(e) ==
  \E where \in IF e = EXC_TLB_MISS THEN {"user miss", "general"} ELSE {"general"} :
    Throw(e, where)

\* (mutant) The instruction is not privileged.
AnyMode == TRUE

Privileged == ~psw.um

PrivilegeFault == psw.um /\ Throw(EXC_PRV_INSTRCT, "general")

\* OP_RFX
Rfx ==
  /\ Privileged
  /\ LinkDiscipline => ~linked
  /\ Complete(Popped(psw), r30, r30, linked, TRUE, <<old, {}>>)


\* OP_MVTS to the psw
WritePsw(p, next) ==
  /\ ~psw.um
  /\ Complete(p, next, r30, linked, broken, <<{}, {}>>)


\* OP_MVFS from the psw is not privileged, although the manual says so.
ReadPsw(next) ==
  /\ Complete(psw, next, r30, linked, broken, Unchanged)

\* OP_LDLW that does not fault
LoadLink(next) ==
  /\ Complete(psw, next, r30, TRUE, FALSE, Unchanged)


\* OP_STCW clears the link before it stores, or stores nothing; a fault of the
\* store is Fault.
StoreCond(next) ==
  /\ Complete(psw, next, r30, FALSE, broken, Unchanged)


Reset ==
  /\ pc' \in Addr /\ r30' \in Addr
  /\ psw' = [v |-> FALSE, um |-> FALSE, pum |-> FALSE, oum |-> FALSE, ie |-> FALSE,
             pie |-> FALSE, oie |-> FALSE, prio |-> 0, mask |-> {}]
  /\ irqPending' = {}
  /\ linked' = FALSE
  /\ prev' = {} /\ old' = {} /\ broken' = FALSE

CpuNext ==
  \/ \E next \in Addr :
       \/ \E ret \in Addr \cup {r30} : Plain(next, ret)
       \/ ReadPsw(next) \/ LoadLink(next) \/ StoreCond(next)
       \/ \E p \in NewPsw : WritePsw(p, next)
  \/ \E e \in Exc : Fault(e)
  \/ PrivilegeFault
  \/ Rfx
  \/ Reset

CpuSpec == CpuInit /\ [][CpuNext]_cvars

-------------------------------------------------------------------------------
\* Safety: an exception and one nested into it can both be returned from: the
\* two lower levels of the status word's stack are the modes that were
\* interrupted, unless software overwrote them (cpu.c:104-127, 404-429).
StackHoldsInterruptedModes ==
  /\ prev \subseteq {[um |-> psw.pum, ie |-> psw.pie]}
  /\ old \subseteq {[um |-> psw.oum, ie |-> psw.oie]}

\* Safety: no raised interrupt that the status word lets through is left waiting
\* while the next instruction runs, not even after an instruction that has just
\* enabled it (cpu.c:677).
NothingEnabledWaits == psw.ie => irqPending \cap psw.mask = {}

\* Safety: the link of a load-link never survives a change of hands, so a
\* store-conditional succeeds only if nobody else ran since; provided that
\* service routines return without a link (cpu.c:149, 547-563).
LinkIsUnbroken == linked => ~broken

\* Action property: user mode is left only through an accepted exception: in
\* kernel mode, with interrupts disabled, at a service routine, and on record as
\* user mode.  User code changes the status word in no other way.
UserModeIsConfined ==
  [][psw.um => \/ psw' = psw
               \/ ~psw'.um /\ ~psw'.ie /\ psw'.pum /\ pc' \in Vector
               \/ Reset]_cvars
=============================================================================

------------------------------- MODULE CpuProofs -------------------------------
(***************************************************************************)
(* Proofs about the processor's control state: for every set of interrupt  *)
(* lines, exceptions and status words that software writes.                *)
(***************************************************************************)
EXTENDS Cpu, Integers, WellFoundedInduction, TLAPS

CpuInv ==
  /\ CpuTypeOK
  /\ StackHoldsInterruptedModes
  /\ NothingEnabledWaits
  /\ LinkDiscipline => LinkIsUnbroken

\* What a step leads to, whatever it did: the invariant's parts for a status word
\* p whose stack holds the modes before accepting anything.
StackHolds(p, one, two) ==
  /\ one \subseteq {[um |-> p.pum, ie |-> p.pie]}
  /\ two \subseteq {[um |-> p.oum, ie |-> p.oie]}

-------------------------------------------------------------------------------
(* Lemmas about the operators *)

LEMMA HighestIrq ==
  ASSUME NEW S \in SUBSET Irq, S # {}
  PROVE  Highest(S) \in S /\ Highest(S) \in 0 .. 31
<1>1. S \subseteq 0 .. 15
  BY CpuAssumption
<1>2. \E i \in S : \A j \in S : j <= i
  <2>. DEFINE T == {15 - i : i \in S}
              LessThan == OpToRel(<, Nat)
  <2>1. T \subseteq Nat /\ T # {}
    <3>1. ASSUME NEW i \in S PROVE 15 - i \in Nat
      BY <1>1
    <3>. QED
      BY <3>1
  <2>2. IsWellFoundedOn(LessThan, Nat)
    BY NatLessThanWellFounded
  <2>3. \A x, y \in Nat : <<x, y>> \in LessThan <=> x < y
    BY DEF OpToRel
  <2>. HIDE DEF T, LessThan
  <2>4. PICK x \in T : \A y \in T : ~(<<y, x>> \in LessThan)
    BY <2>1, <2>2, WFMin
  <2>5. ASSUME NEW y \in T
        PROVE  x <= y
    <3>1. x \in Nat /\ y \in Nat
      BY <2>1
    <3>2. ~(y < x)
      BY <2>3, <2>4, <3>1
    <3>. QED
      BY <3>1, <3>2
  <2>6. PICK i \in S : x = 15 - i
    BY DEF T
  <2>7. \A j \in S : 15 - j \in T
    BY DEF T
  <2>. QED
    BY <1>1, <2>5, <2>6, <2>7
<1>3. Highest(S) \in S
  BY <1>2 DEF Highest
<1>. QED
  <2>1. Highest(S) \in 0 .. 15
    BY <1>1, <1>3
  <2>. QED
    BY <1>3, <2>1

LEMMA PushedType ==
  ASSUME NEW p \in PswType, NEW prio \in 0 .. 31
  PROVE  /\ Pushed(p, prio) \in PswType
         /\ ~Pushed(p, prio).ie /\ ~Pushed(p, prio).um
         /\ Pushed(p, prio).pum = p.um /\ Pushed(p, prio).pie = p.ie
         /\ Pushed(p, prio).oum = p.pum /\ Pushed(p, prio).oie = p.pie
BY DEF Pushed, PswType

LEMMA PoppedType ==
  ASSUME NEW p \in PswType
  PROVE  /\ Popped(p) \in PswType
         /\ Popped(p).um = p.pum /\ Popped(p).ie = p.pie
         /\ Popped(p).pum = p.oum /\ Popped(p).pie = p.oie
BY DEF Popped, PswType

\* Returning from a service routine restores the modes of whatever it
\* interrupted, for any status word and priority.
THEOREM ReturnRestoresModes ==
  ASSUME NEW p \in PswType, NEW prio \in 0 .. 31
  PROVE  ModeOf(Popped(Pushed(p, prio))) = ModeOf(p)
BY DEF Popped, Pushed, ModeOf, PswType

\* A service routine that was itself interrupted once still returns to the modes
\* that it found: the stack is deep enough for one nested exception.
THEOREM NestedReturnRestoresModes ==
  ASSUME NEW p \in PswType, NEW i \in 0 .. 31, NEW j \in 0 .. 31
  PROVE  ModeOf(Popped(Popped(Pushed(Pushed(p, i), j)))) = ModeOf(p)
BY DEF Popped, Pushed, ModeOf, PswType

-------------------------------------------------------------------------------
(* The two ways a step ends *)

LEMMA AcceptInv ==
  ASSUME NEW prio \in 0 .. 31, NEW p \in PswType, NEW next \in Target,
         NEW where \in {"user miss", "general"}, NEW modes,
         modes \subseteq {[um |-> p.pum, ie |-> p.pie]},
         irqPending' \subseteq Irq,
         Accept(prio, p, next, where), old' = modes
  PROVE  CpuInv'
<1>1. /\ psw' \in PswType /\ ~psw'.ie
      /\ psw'.pum = p.um /\ psw'.pie = p.ie /\ psw'.oum = p.pum /\ psw'.oie = p.pie
  BY PushedType DEF Accept
<1>2. pc' \in Target /\ r30' \in Target
  BY CpuAssumption DEF Accept, ServiceRoutine, Target, PswType
<1>3. ModeOf(p) \in Mode /\ [um |-> p.pum, ie |-> p.pie] \in Mode
  BY DEF ModeOf, Mode, PswType
<1>4. prev' = {ModeOf(p)} /\ old' = modes
  BY DEF Accept
<1>5. StackHoldsInterruptedModes'
  BY <1>1, <1>4 DEF StackHoldsInterruptedModes, ModeOf
<1>6. CpuTypeOK'
  BY <1>1, <1>2, <1>3, <1>4 DEF Accept, CpuTypeOK, LinkAfterAccept
<1>7. LinkIsUnbroken'
  BY DEF Accept, LinkIsUnbroken, LinkAfterAccept
<1>8. NothingEnabledWaits'
  BY <1>1 DEF NothingEnabledWaits
<1>. QED
  BY <1>5, <1>6, <1>7, <1>8 DEF CpuInv

LEMMA CompleteInv ==
  ASSUME NEW p \in PswType, NEW next \in Target, NEW ret \in Target,
         NEW link \in BOOLEAN, NEW brk \in BOOLEAN, LinkDiscipline /\ link => ~brk,
         NEW one \in SUBSET Mode, NEW two \in SUBSET Mode,
         StackHolds(p, one, two),
         Complete(p, next, ret, link, brk, <<one, two>>)
  PROVE  CpuInv'
<1>. DEFINE seen == Seen(p, irqPending')
<1>1. irqPending' \subseteq Irq
  BY DEF Complete
<1>2. CASE /\ seen = {}
           /\ psw' = p /\ pc' = next /\ r30' = ret /\ linked' = link
           /\ prev' = one /\ old' = two /\ broken' = brk
  <2>1. CpuTypeOK'
    BY <1>1, <1>2 DEF CpuTypeOK
  <2>2. StackHoldsInterruptedModes' /\ (LinkDiscipline => LinkIsUnbroken')
    BY <1>2 DEF StackHolds, StackHoldsInterruptedModes, LinkIsUnbroken
  <2>3. NothingEnabledWaits'
    BY <1>2 DEF NothingEnabledWaits, Seen
  <2>. QED
    BY <2>1, <2>2, <2>3 DEF CpuInv
<1>3. CASE seen # {} /\ Accept(Highest(seen), p, next, "general") /\ old' = one
  <2>1. Highest(seen) \in 0 .. 31
    BY <1>1, <1>3, HighestIrq DEF Seen
  <2>2. one \subseteq {[um |-> p.pum, ie |-> p.pie]}
    BY DEF StackHolds
  <2>. HIDE DEF seen
  <2>. QED
    BY <1>1, <1>3, <2>1, <2>2, AcceptInv
<1>. QED
  BY <1>2, <1>3 DEF Complete

LEMMA ThrowInv ==
  ASSUME CpuInv, NEW e \in 0 .. 31, NEW where \in {"user miss", "general"},
         Throw(e, where)
  PROVE  CpuInv'
<1>1. /\ psw \in PswType /\ pc \in Target /\ irqPending' \subseteq Irq
      /\ prev \subseteq {[um |-> psw.pum, ie |-> psw.pie]}
      /\ Accept(e, psw, pc, where) /\ old' = prev
  BY DEF CpuInv, CpuTypeOK, StackHoldsInterruptedModes, Throw
<1>. QED
  BY <1>1, AcceptInv

-------------------------------------------------------------------------------
(* Every step *)

LEMMA InitCpuInv == CpuInit => CpuInv
<1>1. SUFFICES ASSUME CpuInit PROVE CpuInv
  OBVIOUS
<1>2. psw \in PswType /\ ~psw.ie
  BY <1>1 DEF CpuInit, PswType
<1>3. CpuTypeOK
  BY <1>1, <1>2 DEF CpuInit, CpuTypeOK, Target
<1>. QED
  BY <1>1, <1>2, <1>3
     DEF CpuInit, CpuInv, StackHoldsInterruptedModes, NothingEnabledWaits, LinkIsUnbroken

LEMMA ResetCpuInv == ASSUME Reset PROVE CpuInv'
<1>1. psw' \in PswType /\ ~psw'.ie
  BY DEF Reset, PswType
<1>2. CpuTypeOK'
  BY <1>1 DEF Reset, CpuTypeOK, Target
<1>. QED
  BY <1>1, <1>2
     DEF Reset, CpuInv, StackHoldsInterruptedModes, NothingEnabledWaits, LinkIsUnbroken

LEMMA InstructionInv ==
  ASSUME CpuInv, NEW next \in Addr,
         \/ \E ret \in Addr \cup {r30} : Plain(next, ret)
         \/ ReadPsw(next) \/ LoadLink(next) \/ StoreCond(next)
         \/ \E p \in NewPsw : WritePsw(p, next)
  PROVE  CpuInv'
<1>1. /\ psw \in PswType /\ next \in Target /\ r30 \in Target
      /\ linked \in BOOLEAN /\ broken \in BOOLEAN /\ (LinkDiscipline /\ linked => ~broken)
      /\ prev \in SUBSET Mode /\ old \in SUBSET Mode
      /\ StackHolds(psw, prev, old)
  BY DEF CpuInv, CpuTypeOK, LinkIsUnbroken, StackHoldsInterruptedModes, StackHolds, Target
<1>2. CASE \E ret \in Addr \cup {r30} : Plain(next, ret)
  <2>1. PICK ret \in Addr \cup {r30} : Plain(next, ret)
    BY <1>2
  <2>2. ret \in Target
    BY <1>1 DEF Target
  <2>. QED
    BY <1>1, <2>1, <2>2, CompleteInv DEF Plain, Unchanged
<1>3. CASE ReadPsw(next)
  BY <1>1, <1>3, CompleteInv DEF ReadPsw, Unchanged
<1>4. CASE LoadLink(next)
  BY <1>1, <1>4, CompleteInv DEF LoadLink, Unchanged
<1>5. CASE StoreCond(next)
  BY <1>1, <1>5, CompleteInv DEF StoreCond, Unchanged
<1>6. CASE \E p \in NewPsw : WritePsw(p, next)
  <2>1. PICK p \in NewPsw : WritePsw(p, next)
    BY <1>6
  <2>2. p \in PswType /\ StackHolds(p, {}, {})
    BY NewPswAssumption DEF StackHolds
  <2>. QED
    BY <1>1, <2>1, <2>2, CompleteInv DEF WritePsw
<1>. QED
  BY <1>2, <1>3, <1>4, <1>5, <1>6

\* A return hands the processor over: only the discipline of service routines
\* breaks the link then (OP_RFX itself does not).
LEMMA RfxInv ==
  ASSUME CpuInv, Rfx
  PROVE  CpuInv'
<1>. DEFINE p == Popped(psw)
<1>1. /\ psw \in PswType /\ r30 \in Target /\ linked \in BOOLEAN
      /\ LinkDiscipline => ~linked
      /\ old \in SUBSET Mode /\ {} \in SUBSET Mode
      /\ old \subseteq {[um |-> psw.oum, ie |-> psw.oie]}
  BY DEF CpuInv, CpuTypeOK, StackHoldsInterruptedModes, Rfx
<1>2. p \in PswType /\ StackHolds(p, old, {})
  BY <1>1, PoppedType DEF StackHolds
<1>3. /\ Complete(p, r30, r30, linked, TRUE, <<old, {}>>)
  BY DEF Rfx
<1>. HIDE DEF p
<1>. QED
  BY <1>1, <1>2, <1>3, CompleteInv

LEMMA ExceptionNumber == ASSUME NEW e \in Exc PROVE e \in 0 .. 31
<1>1. e \in 16 .. 25
  BY CpuAssumption
<1>2. \A n \in 16 .. 25 : n \in 0 .. 31
  OBVIOUS
<1>. QED
  BY <1>1, <1>2

LEMMA ExceptionInv ==
  ASSUME CpuInv, (\E e \in Exc : Fault(e)) \/ PrivilegeFault
  PROVE  CpuInv'
<1>1. CASE \E e \in Exc : Fault(e)
  <2>1. PICK e \in Exc : Fault(e)
    BY <1>1
  <2>2. PICK where \in {"user miss", "general"} : Throw(e, where)
    BY <2>1 DEF Fault
  <2>3. e \in 0 .. 31
    BY ExceptionNumber
  <2>. QED
    BY <2>2, <2>3, ThrowInv
<1>2. CASE PrivilegeFault
  <2>1. Throw(EXC_PRV_INSTRCT, "general") /\ EXC_PRV_INSTRCT \in 0 .. 31
    BY <1>2 DEF PrivilegeFault, EXC_PRV_INSTRCT
  <2>. QED
    BY <2>1, ThrowInv
<1>. QED
  BY <1>1, <1>2

LEMMA StepCpuInv == CpuInv /\ [CpuNext]_cvars => CpuInv'
<1>. SUFFICES ASSUME CpuInv, [CpuNext]_cvars
              PROVE  CpuInv'
  OBVIOUS
<1>1. CASE UNCHANGED cvars
  BY <1>1 DEF cvars, CpuInv, CpuTypeOK, StackHoldsInterruptedModes,
              NothingEnabledWaits, LinkIsUnbroken
<1>2. CASE \E next \in Addr :
             \/ \E ret \in Addr \cup {r30} : Plain(next, ret)
             \/ ReadPsw(next) \/ LoadLink(next) \/ StoreCond(next)
             \/ \E p \in NewPsw : WritePsw(p, next)
  BY <1>2, InstructionInv
<1>3. CASE (\E e \in Exc : Fault(e)) \/ PrivilegeFault
  BY <1>3, ExceptionInv
<1>4. CASE Rfx
  BY <1>4, RfxInv
<1>5. CASE Reset
  BY <1>5, ResetCpuInv
<1>. QED
  BY <1>1, <1>2, <1>3, <1>4, <1>5 DEF CpuNext

LEMMA CpuInvariant == CpuSpec => []CpuInv
BY InitCpuInv, StepCpuInv, PTL DEF CpuSpec

-------------------------------------------------------------------------------
(* User mode *)

\* How user mode may end, or not end.
Confined ==
  \/ psw' = psw
  \/ ~psw'.um /\ ~psw'.ie /\ psw'.pum /\ pc' \in Vector

LEMMA AcceptConfines ==
  ASSUME NEW prio, NEW next, NEW where \in {"user miss", "general"},
         psw \in PswType, psw.um, Accept(prio, psw, next, where)
  PROVE  Confined
BY CpuAssumption DEF Accept, Confined, Pushed, ServiceRoutine, PswType

LEMMA StepConfined ==
  CpuInv /\ [CpuNext]_cvars => [psw.um => Confined \/ Reset]_cvars
<1>. SUFFICES ASSUME CpuInv, CpuNext, psw.um
              PROVE  Confined \/ Reset
  OBVIOUS
<1>1. psw \in PswType
  BY DEF CpuInv, CpuTypeOK
<1>2. ASSUME NEW next, NEW ret, NEW link, NEW brk, NEW modes,
             Complete(psw, next, ret, link, brk, modes)
      PROVE  Confined
  <2>1. CASE psw' = psw
    BY <2>1 DEF Confined
  <2>2. CASE Accept(Highest(Seen(psw, irqPending')), psw, next, "general")
    BY <1>1, <2>2, AcceptConfines
  <2>. QED
    BY <1>2, <2>1, <2>2 DEF Complete
<1>3. ASSUME NEW e, NEW where \in {"user miss", "general"}, Throw(e, where)
      PROVE  Confined
  BY <1>1, <1>3, AcceptConfines DEF Throw
<1>4. ASSUME NEW next \in Addr,
             \/ \E ret \in Addr \cup {r30} : Plain(next, ret)
             \/ ReadPsw(next) \/ LoadLink(next) \/ StoreCond(next)
             \/ \E p \in NewPsw : WritePsw(p, next)
      PROVE  Confined
  BY <1>2, <1>4 DEF Plain, ReadPsw, LoadLink, StoreCond, WritePsw
<1>5. ASSUME NEW e \in Exc, Fault(e)
      PROVE  Confined
  BY <1>3, <1>5 DEF Fault
<1>6. CASE PrivilegeFault
  BY <1>3, <1>6 DEF PrivilegeFault
<1>7. CASE Rfx
  BY <1>7 DEF Rfx, Privileged
<1>. QED
  BY <1>4, <1>5, <1>6, <1>7 DEF CpuNext

-------------------------------------------------------------------------------
\* Every reachable state of the processor is well typed.
THEOREM CpuTypeCorrect == CpuSpec => []CpuTypeOK
BY CpuInvariant, PTL DEF CpuInv

\* The status word's stack always holds the modes of what was interrupted.
THEOREM StackIsFaithful == CpuSpec => []StackHoldsInterruptedModes
BY CpuInvariant, PTL DEF CpuInv

\* No enabled interrupt waits while another instruction runs.
THEOREM NoInterruptWaits == CpuSpec => []NothingEnabledWaits
BY CpuInvariant, PTL DEF CpuInv

\* A store-conditional succeeds only if nobody else ran since its load-link,
\* provided that service routines return without a link.
THEOREM LinkIsTrustworthy ==
  ASSUME LinkDiscipline
  PROVE  CpuSpec => []LinkIsUnbroken
<1>1. CpuInv => LinkIsUnbroken
  BY DEF CpuInv
<1>. QED
  BY <1>1, CpuInvariant, PTL

\* User mode ends only in an accepted exception or a reset, whatever user code
\* executes.
THEOREM UserModeIsAPrison == CpuSpec => UserModeIsConfined
<1>1. CpuInv /\ [CpuNext]_cvars =>
        [psw.um => \/ psw' = psw
                   \/ ~psw'.um /\ ~psw'.ie /\ psw'.pum /\ pc' \in Vector
                   \/ Reset]_cvars
  BY StepConfined DEF Confined
<1>. QED
  BY <1>1, CpuInvariant, PTL DEF CpuSpec, UserModeIsConfined
=============================================================================

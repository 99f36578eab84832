---------------------------- MODULE TwoTasksProofs ----------------------------
(***************************************************************************)
(* Proofs about the two-task operating system: for every size of the TLB,  *)
(* every number of fixed entries, every program, every set of pages and    *)
(* whatever software ran before it.                                        *)
(***************************************************************************)
EXTENDS TwoTasks, WellFoundedInduction, TLAPS

\* What the kernel's variables say of each other, and what a miss leaves behind.
KernelInv ==
  /\ currentPageDir = currentTask /\ currentStkTop = currentTask
  /\ pc \in {"monitor", "idle"} => currentTask = 0 /\ started = {}
  /\ pc \in {"fetch", "execute", "user miss", "astray", "resume"} => currentTask # 0
  /\ pc = "service" /\ currentTask = 0 => cause = "timer"
  /\ pc = "isr" /\ currentTask = 0 => cause = "timer"
  /\ currentTask # 0 => currentTask \in started
  /\ pc = "user miss" => tlbEntryHi \in UserPage /\ ~Mapped(tlbEntryHi)

\* An instruction that is executed came from a page of its task.
OriginInv ==
  /\ pc = "execute" \/ (pc = "isr" /\ cause = "trap") => FetchPage \in TaskPage
  /\ pc = "service" /\ cause = "trap" => PageAt[saved[currentStkTop].ip] \in TaskPage

OInv == OTypeOK /\ KernelInv /\ OriginInv /\ NoPageTwice /\ TlbIsCurrent

-------------------------------------------------------------------------------
(* The random index and the TLB *)

\* The index never leaves the entries that may be replaced.
LEMMA CountedIsNonFixed ==
  ASSUME MmuTypeOK, NEW n \in Nat
  PROVE  Counted(n) \in NonFixed
<1>1. TLB_SIZE - TLB_FIXED \in Nat \ {0} /\ TLB_FIXED \in Nat /\ TLB_SIZE \in Nat
  BY MmuAssumption
<1>2. randomIndex - TLB_FIXED - n \in Int
  BY <1>1 DEF MmuTypeOK, NonFixed, TLB_MASK
<1>3. (randomIndex - TLB_FIXED - n) % (TLB_SIZE - TLB_FIXED)
        \in 0 .. TLB_SIZE - TLB_FIXED - 1
  BY <1>1, <1>2
<1>. QED
  BY <1>1, <1>3 DEF Counted, NonFixed, TLB_MASK

LEMMA NonFixedIsIndex == NonFixed \subseteq 0 .. TLB_MASK
BY MmuAssumption DEF NonFixed, TLB_MASK

LEMMA IndexInRange ==
  ASSUME NEW i \in Nat
  PROVE  i % TLB_SIZE \in 0 .. TLB_MASK
BY MmuAssumption DEF TLB_MASK

\* The last of the entries for a page is one of them.
LEMMA AssocIsForThePage ==
  ASSUME NEW p, Mapped(p)
  PROVE  Assoc(p) \in 0 .. TLB_MASK /\ tlb[Assoc(p)].page = p
<1>. DEFINE T == {TLB_MASK - i : i \in {j \in 0 .. TLB_MASK : tlb[j].page = p}}
            LessThan == OpToRel(<, Nat)
<1>1. TLB_MASK \in Nat
  BY MmuAssumption DEF TLB_MASK
<1>2. T \subseteq Nat /\ T # {}
  BY <1>1 DEF Mapped
<1>3. IsWellFoundedOn(LessThan, Nat)
  BY NatLessThanWellFounded
<1>4. \A x, y \in Nat : <<x, y>> \in LessThan <=> x < y
  BY DEF OpToRel
<1>5. \A j \in 0 .. TLB_MASK : tlb[j].page = p => TLB_MASK - j \in T
  OBVIOUS
<1>6. \A x \in T : TLB_MASK - x \in 0 .. TLB_MASK /\ tlb[TLB_MASK - x].page = p
  BY <1>1
<1>. HIDE DEF T, LessThan
<1>7. PICK x \in T : \A y \in T : ~(<<y, x>> \in LessThan)
  BY <1>2, <1>3, WFMin
<1>8. ASSUME NEW j \in TLB_MASK - x + 1 .. TLB_MASK, tlb[j].page = p
      PROVE  FALSE
  <2>1. x \in Nat /\ j \in 0 .. TLB_MASK /\ TLB_MASK - x \in Nat
    BY <1>1, <1>2, <1>6, <1>7, <1>8
  <2>2. TLB_MASK - j \in T /\ TLB_MASK - j < x
    BY <1>1, <1>5, <1>8, <2>1
  <2>. QED
    BY <1>2, <1>4, <1>7, <2>1, <2>2
<1>. QED
  BY <1>6, <1>7, <1>8 DEF Assoc

LEMMA EntriesAreMade ==
  ASSUME NEW p \in Page, NEW l \in Lo
  PROVE  Made(p, l) \in Entry
BY DEF Made, Lo, Entry

\* Page table entries are entries.
LEMMA PageTableType ==
  ASSUME NEW t \in Task, NEW p \in UserPage \ Outside
  PROVE  PageTable(t, p) \in Lo
BY TwoTasksAssumption DEF PageTable, Lo, TaskPage

\* A translation touches neither the TLB nor the registers but for a fault's page.
LEMMA V2pTypes ==
  ASSUME MmuTypeOK, NEW p \in Page, NEW user \in BOOLEAN, NEW write \in BOOLEAN,
         V2p(p, user, write)
  PROVE  MmuTypeOK'
<1>1. Counted(1) \in NonFixed
  BY CountedIsNonFixed
<1>. QED
  BY <1>1 DEF MmuTypeOK, V2p, BadAccess

\* Any software leaves the TLB and its registers what they are.
LEMMA AnySoftwareTypes ==
  ASSUME MmuTypeOK, AnySoftware
  PROVE  MmuTypeOK'
<1>1. Counted(1) \in NonFixed /\ NonFixed \subseteq 0 .. TLB_MASK /\ Hi \subseteq Page /\ Los \subseteq Lo
      /\ TLB_SIZE \in Nat /\ TLB_MASK \in Nat /\ NotFound = TLB_MASK + 1 /\ NotFound \in Nat
      /\ TLB_MASK \in NonFixed
  <2>1. Counted(1) \in NonFixed
    BY CountedIsNonFixed
  <2>2. Hi \subseteq Page /\ Los \subseteq Lo
    BY TwoTasksAssumption
  <2>3. TLB_SIZE \in Nat /\ TLB_MASK \in Nat /\ TLB_MASK \in NonFixed
    BY MmuAssumption DEF TLB_MASK, NonFixed
  <2>4. NotFound = TLB_MASK + 1 /\ NotFound \in Nat
    BY MmuAssumption DEF TLB_MASK, NotFound
  <2>. QED
    BY <2>1, <2>2, <2>3, <2>4, NonFixedIsIndex
<1>2. CASE MmuReset
  BY <1>1, <1>2, MmuAssumption DEF MmuReset, MmuTypeOK
<1>3. CASE \E p \in Hi, user, write \in BOOLEAN : V2p(p, user, write)
  BY <1>1, <1>3, V2pTypes
<1>4. CASE \E p \in Hi, user \in BOOLEAN : Misaligned(p) \/ FetchFromIo(p, user)
  BY <1>1, <1>4 DEF Misaligned, FetchFromIo, BadAccess, MmuTypeOK, tregs
<1>5. CASE Tbs
  <2>1. Mapped(tlbEntryHi) => Assoc(tlbEntryHi) \in 0 .. TLB_MASK
    BY AssocIsForThePage
  <2>. QED
    BY <1>1, <1>5, <2>1 DEF Tbs, MmuTypeOK
<1>6. CASE Tbwr
  <2>1. Made(tlbEntryHi, tlbEntryLo) \in Entry
    BY EntriesAreMade DEF MmuTypeOK
  <2>. QED
    BY <1>1, <1>6, <2>1 DEF Tbwr, Written, MmuTypeOK, Tlb, tregs
<1>7. CASE Tbri
  <2>1. tlbIndex % TLB_SIZE \in 0 .. TLB_MASK
    BY <1>1, IndexInRange DEF MmuTypeOK
  <2>2. tlb[tlbIndex % TLB_SIZE] \in Entry
    BY <2>1 DEF MmuTypeOK, Tlb
  <2>. QED
    BY <1>1, <1>7, <2>2 DEF Tbri, MmuTypeOK, Entry, Lo
<1>8. CASE Tbwi
  <2>1. Made(tlbEntryHi, tlbEntryLo) \in Entry
    BY EntriesAreMade DEF MmuTypeOK
  <2>2. tlbIndex % TLB_SIZE \in 0 .. TLB_MASK
    BY <1>1, IndexInRange DEF MmuTypeOK
  <2>. QED
    BY <1>1, <1>8, <2>1, <2>2 DEF Tbwi, Written, MmuTypeOK, Tlb, tregs
<1>9. CASE \E i \in 0 .. TLB_MASK : SetIndex(i)
  BY <1>1, <1>9, IndexInRange DEF SetIndex, MmuTypeOK
<1>10. CASE \E i \in 0 .. TLB_MASK : \E p \in Hi, l \in Los : ConsoleSets(i, Made(p, l))
  BY <1>1, <1>10, EntriesAreMade DEF ConsoleSets, MmuTypeOK, Tlb, tregs
<1>11. CASE \E p \in Hi : SetEntryHi(p) \/ SetBadAddr(p)
  BY <1>1, <1>11 DEF SetEntryHi, SetBadAddr, MmuTypeOK, tregs
<1>12. CASE \E l \in Los : SetEntryLo(l)
  BY <1>1, <1>12 DEF SetEntryLo, MmuTypeOK, tregs
<1>. QED
  BY <1>2, <1>3, <1>4, <1>5, <1>6, <1>7, <1>8, <1>9, <1>10, <1>11, <1>12 DEF AnySoftware

-------------------------------------------------------------------------------
(* The kernel's invariant *)

LEMMA InitOInv == OInit => OInv
<1>. SUFFICES ASSUME OInit PROVE OInv
  OBVIOUS
<1>1. MmuTypeOK
  <2>1. PICK s \in PowerOn : /\ tlb = s.tlb /\ tlbIndex = s.index /\ tlbEntryHi = s.hi
                             /\ tlbEntryLo = s.lo /\ mmuBadAddr = s.bad /\ randomIndex = TLB_MASK
    BY DEF OInit, MmuInit
  <2>2. s \in [tlb : Tlb, index : 0 .. TLB_MASK, hi : Page, lo : Lo, bad : Page]
    BY MmuAssumption
  <2>3. TLB_MASK \in NonFixed /\ 0 .. TLB_MASK \subseteq 0 .. NotFound
    BY MmuAssumption DEF NonFixed, TLB_MASK, NotFound
  <2>. QED
    BY <2>1, <2>2, <2>3 DEF MmuTypeOK
<1>2. OTypeOK
  BY <1>1, TwoTasksAssumption DEF OInit, OTypeOK, Context, StartContext, Task
<1>. QED
  BY <1>2 DEF OInit, OInv, KernelInv, OriginInv, NoPageTwice, TlbIsCurrent

\* A translation of a task's page, with what follows a fault.
LEMMA TranslationInv ==
  ASSUME OInv, pc \in {"fetch", "execute"}, UNCHANGED kernel,
         NEW p \in Page, NEW write \in BOOLEAN, V2p(p, TRUE, write),
         Faulted(Fault(p, TRUE, write)), UNCHANGED <<cpu, mem>>
  PROVE  OInv'
<1>1. MmuTypeOK'
  BY V2pTypes DEF OInv, OTypeOK
<1>2. OTypeOK'
  BY <1>1 DEF OInv, OTypeOK, Faulted, kernel
<1>3. Fault(p, TRUE, write) = "miss" => p \in UserPage /\ ~Mapped(p) /\ tlbEntryHi' = p
  BY DEF Fault, V2p
<1>4. UNCHANGED tlb
  BY DEF V2p
<1>5. KernelInv'
  BY <1>3, <1>4 DEF OInv, KernelInv, Faulted, kernel, Mapped
<1>6. NoPageTwice' /\ TlbIsCurrent'
  BY <1>4 DEF OInv, NoPageTwice, TlbIsCurrent, Faulted, kernel
<1>7. OriginInv'
  BY DEF OriginInv, Faulted
<1>. QED
  BY <1>2, <1>5, <1>6, <1>7 DEF OInv

LEMMA TouchedArePages == Touched \subseteq Page
BY TwoTasksAssumption DEF Page

LEMMA FetchPageIsTouched == OInv => FetchPage \in Touched /\ FetchPage \in Page
BY TwoTasksAssumption, TouchedArePages DEF OInv, OTypeOK, Context, FetchPage

LEMMA ContextTypes ==
  ASSUME NEW c \in Context, NEW v \in Val
  PROVE  Advanced(c) \in Context /\ [c EXCEPT !.reg = v] \in Context
<1>1. (c.ip + 1) % Place \in 0 .. Place - 1
  BY TwoTasksAssumption DEF Context
<1>. QED
  BY <1>1 DEF Context, Advanced

\* A translation that succeeds leads to the frame of the task's page table.
LEMMA TranslationIsRight ==
  ASSUME OInv, pc \in {"fetch", "execute"}, NEW p \in Touched, NEW write \in BOOLEAN,
         Fault(p, TRUE, write) = "none"
  PROVE  /\ FrameOf(p) = <<currentTask, p>>
         /\ p \in TaskPage /\ currentTask \in Task
         /\ write => p = Data
<1>0. currentTask # 0 /\ pc # "astray"
  BY DEF OInv, KernelInv
<1>1. p \in UserPage /\ p \notin DirectPage /\ Mapped(p) /\ tlb[Assoc(p)].valid
      /\ (write => tlb[Assoc(p)].write)
  BY TwoTasksAssumption, MmuAssumption DEF Fault
<1>2. Assoc(p) \in 0 .. TLB_MASK /\ tlb[Assoc(p)].page = p
  BY <1>1, AssocIsForThePage
<1>3. tlb[Assoc(p)] = Made(p, PageTable(currentTask, p)) /\ p \in {Code, Data, Hole}
  BY <1>0, <1>1, <1>2, TwoTasksAssumption DEF OInv, TlbIsCurrent
<1>4. currentTask \in Task
  BY <1>0 DEF OInv, OTypeOK
<1>5. /\ tlb[Assoc(p)].valid = PageTable(currentTask, p).valid
      /\ tlb[Assoc(p)].write = PageTable(currentTask, p).write
      /\ tlb[Assoc(p)].frame = PageTable(currentTask, p).frame
  BY <1>3 DEF Made
<1>6. p = Code \/ p = Data
  BY <1>1, <1>3, <1>5, TwoTasksAssumption DEF PageTable
<1>7. PageTable(currentTask, p).frame = <<currentTask, p>>
      /\ (PageTable(currentTask, p).write => p = Data)
  BY <1>6, TwoTasksAssumption DEF PageTable
<1>. QED
  BY <1>1, <1>4, <1>5, <1>6, <1>7 DEF FrameOf, TaskPage

LEMMA FetchInv == OInv /\ Fetch => OInv'
<1>. SUFFICES ASSUME OInv, Fetch PROVE OInv'
  OBVIOUS
<1>. DEFINE p == FetchPage
<1>1. p \in Touched /\ p \in Page
  BY FetchPageIsTouched
<1>2. CASE Fault(p, TRUE, FALSE) # "none"
  BY <1>1, <1>2, TranslationInv DEF Fetch
<1>3. CASE Fault(p, TRUE, FALSE) = "none"
  <2>1. MmuTypeOK' /\ UNCHANGED <<tlb, kernel, cpu, mem>>
    BY <1>1, V2pTypes DEF OInv, OTypeOK, Fetch, V2p
  <2>2. OTypeOK'
    BY <1>3, <2>1 DEF OInv, OTypeOK, Fetch, kernel
  <2>4. p \in TaskPage
    BY <1>1, <1>3, TranslationIsRight DEF Fetch
  <2>5. OriginInv'
    BY <1>3, <2>1, <2>4 DEF OriginInv, Fetch, FetchPage
  <2>6. KernelInv' /\ NoPageTwice' /\ TlbIsCurrent'
    BY <1>3, <2>1 DEF OInv, KernelInv, NoPageTwice, TlbIsCurrent, Fetch, kernel, Mapped
  <2>. QED
    BY <2>2, <2>5, <2>6 DEF OInv
<1>. QED
  BY <1>2, <1>3

LEMMA LoadStoreInv == OInv /\ LoadStore => OInv'
<1>. SUFFICES ASSUME OInv, LoadStore PROVE OInv'
  OBVIOUS
<1>. DEFINE store == instr.op = "store"
            fault == Fault(instr.page, TRUE, store)
<1>1. instr.page \in Touched /\ instr.page \in Page
  BY TouchedArePages DEF OInv, OTypeOK, LoadStore, Instr, NoInstr
<1>2. CASE fault # "none"
  BY <1>1, <1>2, TranslationInv DEF LoadStore
<1>3. CASE fault = "none"
  <2>1. MmuTypeOK' /\ UNCHANGED <<tlb, kernel>>
    BY <1>1, V2pTypes DEF OInv, OTypeOK, LoadStore, V2p
  <2>. DEFINE frame == FrameOf(instr.page)
  <2>3. frame \in Task \X TaskPage
    <3>1. frame = <<currentTask, instr.page>> /\ instr.page \in TaskPage /\ currentTask \in Task
      <4>1. store \in BOOLEAN
        OBVIOUS
      <4>. HIDE DEF store
      <4>. QED
        BY <1>1, <1>3, <4>1, TranslationIsRight DEF LoadStore
    <3>. QED
      BY <3>1
  <2>4. mem' \in [Task \X TaskPage -> Val] /\ cpu' \in Context
    <3>1. cpu \in Context /\ cpu.reg \in Val /\ mem \in [Task \X TaskPage -> Val]
      BY DEF OInv, OTypeOK, Context
    <3>2. mem[frame] \in Val
      BY <2>3, <3>1
    <3>3. Advanced(cpu) \in Context
          /\ Advanced([cpu EXCEPT !.reg = mem[frame]]) \in Context
      BY <3>1, <3>2, ContextTypes
    <3>4. [mem EXCEPT ![frame] = cpu.reg] \in [Task \X TaskPage -> Val]
      BY <2>3, <3>1
    <3>. QED
      BY <1>3, <3>1, <3>3, <3>4 DEF LoadStore
  <2>5. OTypeOK'
    BY <1>3, <2>1, <2>4 DEF OInv, OTypeOK, LoadStore, Done, kernel
  <2>. QED
    BY <1>3, <2>1, <2>5
    DEF OInv, KernelInv, OriginInv, NoPageTwice, TlbIsCurrent, LoadStore, Done, kernel, Mapped
<1>. QED
  BY <1>2, <1>3

LEMMA ComputeInv == OInv /\ Compute => OInv'
<1>. SUFFICES ASSUME OInv, Compute PROVE OInv'
  OBVIOUS
<1>1. cpu' \in Context
  BY DEF OInv, OTypeOK, Compute, Instr, NoInstr, Context
<1>2. OTypeOK'
  BY <1>1 DEF OInv, OTypeOK, MmuTypeOK, mmuvars, tregs, Compute, Done, kernel
<1>. QED
  BY <1>2 DEF OInv, KernelInv, OriginInv, NoPageTwice, TlbIsCurrent, Compute, Done, kernel, Mapped, mmuvars, tregs

LEMMA ExceptionInv == OInv /\ (TrapInstr \/ Timer) => OInv'
<1>. SUFFICES ASSUME OInv, TrapInstr \/ Timer PROVE OInv'
  OBVIOUS
<1>1. OTypeOK'
  BY DEF OInv, OTypeOK, MmuTypeOK, mmuvars, tregs, TrapInstr, Timer, Exception, kernel
<1>. QED
  BY <1>1 DEF OInv, KernelInv, OriginInv, FetchPage, NoPageTwice, TlbIsCurrent,
              TrapInstr, Timer, Exception, kernel, Mapped, mmuvars, tregs

\* A page that is in no entry may be written to any.
LEMMA MissedOnce ==
  ASSUME NoPageTwice, tlb \in Tlb, UNCHANGED currentTask, ~Mapped(tlbEntryHi),
         NEW k \in 0 .. TLB_MASK, NEW l, tlb' = [tlb EXCEPT ![k] = Made(tlbEntryHi, l)]
  PROVE  NoPageTwice'
<1>1. \A i \in 0 .. TLB_MASK : tlb[i].page # tlbEntryHi
  BY DEF Mapped
<1>2. \A i \in 0 .. TLB_MASK : i # k => tlb'[i] = tlb[i]
  BY DEF Tlb
<1>3. tlb'[k].page = tlbEntryHi
  BY DEF Made, Tlb
<1>. QED
  BY <1>1, <1>2, <1>3 DEF NoPageTwice

\* tbwr and the end of the miss routine find the random index among the entries.
LEMMA RefillIndices ==
  ASSUME OInv
  PROVE  Counted(UP_TO_TBWR) \in 0 .. TLB_MASK /\ Counted(USER_MISS) \in NonFixed
<1>1. MmuTypeOK
  BY DEF OInv, OTypeOK
<1>2. UP_TO_TBWR \in Nat /\ USER_MISS \in Nat
  BY DEF UP_TO_TBWR, USER_MISS
<1>. QED
  BY <1>1, <1>2, CountedIsNonFixed, NonFixedIsIndex

\* The page that missed gets its only entry, which is what the page table says.
LEMMA UserMissInv == OInv /\ UserMiss => OInv'
<1>. SUFFICES ASSUME OInv, UserMiss PROVE OInv'
  OBVIOUS
<1>. DEFINE e == PageTable(currentPageDir, tlbEntryHi)
            k == Counted(UP_TO_TBWR)
<1>1. /\ currentTask \in Task /\ currentPageDir = currentTask
      /\ tlbEntryHi \in UserPage \ Outside /\ ~Mapped(tlbEntryHi)
  BY DEF OInv, OTypeOK, KernelInv, UserMiss
<1>2. e \in Lo /\ k \in 0 .. TLB_MASK /\ Counted(USER_MISS) \in NonFixed
  BY <1>1, PageTableType, RefillIndices
<1>3. tlb' = [tlb EXCEPT ![k] = Made(tlbEntryHi, e)] /\ Made(tlbEntryHi, e) \in Entry
      /\ tlb \in [0 .. TLB_MASK -> Entry] /\ tlbEntryHi \in Page
  <2>1. tlb \in [0 .. TLB_MASK -> Entry] /\ tlbEntryHi \in Page
    BY DEF OInv, OTypeOK, MmuTypeOK, Tlb
  <2>2. Made(tlbEntryHi, e) \in Entry
    BY <1>2, <2>1, EntriesAreMade
  <2>. QED
    BY <2>1, <2>2 DEF UserMiss, Written
<1>4. MmuTypeOK'
  <2>1. tlb' \in Tlb
    BY <1>2, <1>3 DEF Tlb
  <2>2. UNCHANGED <<tlbIndex, tlbEntryHi, mmuBadAddr>> /\ tlbEntryLo' = e
        /\ randomIndex' = Counted(USER_MISS)
    BY DEF UserMiss
  <2>. HIDE DEF e
  <2>. QED
    BY <1>2, <2>1, <2>2 DEF OInv, OTypeOK, MmuTypeOK
<1>5. OTypeOK'
  BY <1>1, <1>4 DEF OInv, OTypeOK, UserMiss, kernel
<1>6. KernelInv'
  BY DEF OInv, KernelInv, UserMiss, kernel
<1>7. NoPageTwice'
  <2>1. NoPageTwice /\ UNCHANGED currentTask
    BY DEF OInv, UserMiss, kernel
  <2>2. tlb \in Tlb
    BY <1>3 DEF Tlb
  <2>. HIDE DEF e, k
  <2>. QED
    BY <1>1, <1>2, <1>3, <2>1, <2>2, MissedOnce
<1>8. TlbIsCurrent'
  <2>1. \A i \in 0 .. TLB_MASK : i # k => tlb'[i] = tlb[i]
    BY <1>3
  <2>2. tlb'[k] = Made(tlbEntryHi, PageTable(currentTask, tlbEntryHi)) /\ tlb'[k].page = tlbEntryHi
    BY <1>1, <1>2, <1>3 DEF Made
  <2>3. UNCHANGED currentTask
    BY DEF UserMiss, kernel
  <2>. QED
    BY <1>1, <2>1, <2>2, <2>3 DEF OInv, TlbIsCurrent, UserMiss
<1>9. OriginInv'
  BY DEF OriginInv, UserMiss
<1>. QED
  BY <1>5, <1>6, <1>7, <1>8, <1>9 DEF OInv

\* A walk that goes astray leaves the TLB with each page once, and the kernel with what it
\* knows of the task.
LEMMA StrayInv == OInv /\ (StrayWalk \/ StrayMiss \/ Astray) => OInv'
<1>. SUFFICES ASSUME OInv, StrayWalk \/ StrayMiss \/ Astray PROVE OInv'
  OBVIOUS
<1>1. UNCHANGED <<kernel, cpu, mem, cause, tlbIndex>> /\ pc' = "astray" /\ currentTask # 0
  BY DEF OInv, KernelInv, StrayWalk, StrayMiss, Astray, GoesAstray, allvars, mmuvars, tregs, ovars
<1>2. Code \in UserPage /\ Code \in Page /\ Los \subseteq Lo
  BY TwoTasksAssumption DEF Page
<1>3. KernelInv' /\ OriginInv' /\ TlbIsCurrent'
  BY <1>1 DEF OInv, KernelInv, OriginInv, TlbIsCurrent, kernel
<1>4. CASE StrayWalk
  <2>. DEFINE k == Counted(UP_TO_TBWR)
  <2>1. PICK e \in Los : tlbEntryLo' = e /\ tlb' = [tlb EXCEPT ![k] = Made(tlbEntryHi, e)]
    BY <1>4 DEF StrayWalk, Written
  <2>2. k \in 0 .. TLB_MASK /\ Counted(USER_MISS) \in NonFixed
    BY RefillIndices
  <2>3. tlb \in Tlb /\ tlbEntryHi \in Page /\ ~Mapped(tlbEntryHi) /\ e \in Lo
    BY <1>2, <1>4 DEF OInv, OTypeOK, MmuTypeOK, KernelInv, StrayWalk
  <2>4. Made(tlbEntryHi, e) \in Entry
    BY <2>3, EntriesAreMade
  <2>5. NoPageTwice'
    <3>1. NoPageTwice /\ UNCHANGED currentTask
      BY <1>1 DEF OInv, kernel
    <3>. HIDE DEF k
    <3>. QED
      BY <2>1, <2>2, <2>3, <3>1, MissedOnce
  <2>6. MmuTypeOK'
    <3>1. tlb' \in Tlb
      BY <2>1, <2>2, <2>3, <2>4 DEF Tlb
    <3>2. UNCHANGED <<tlbIndex, tlbEntryHi, mmuBadAddr>> /\ randomIndex' = Counted(USER_MISS)
      BY <1>4 DEF StrayWalk, GoesAstray
    <3>. QED
      BY <2>1, <2>2, <2>3, <3>1, <3>2 DEF OInv, OTypeOK, MmuTypeOK
  <2>7. OTypeOK'
    BY <1>1, <1>4, <2>6 DEF OInv, OTypeOK, StrayWalk, GoesAstray, kernel
  <2>. QED
    BY <1>3, <2>5, <2>7 DEF OInv
<1>5. CASE StrayMiss \/ Astray
  <2>1. /\ UNCHANGED <<tlb, tlbEntryLo>>
        /\ tlbEntryHi' \in {tlbEntryHi, Code} /\ mmuBadAddr' \in {mmuBadAddr, Code}
        /\ randomIndex' \in NonFixed
        /\ instr' \in {instr, NoInstr} /\ refilled' \in {refilled, NoInstr}
    BY <1>5 DEF OInv, OTypeOK, MmuTypeOK, StrayMiss, Astray, GoesAstray, BadAccess, KernelRuns,
                allvars, mmuvars, tregs, ovars
  <2>2. MmuTypeOK'
    BY <1>1, <1>2, <2>1 DEF OInv, OTypeOK, MmuTypeOK
  <2>3. OTypeOK'
    BY <1>1, <2>1, <2>2 DEF OInv, OTypeOK, kernel
  <2>4. NoPageTwice'
    BY <1>1, <2>1 DEF OInv, NoPageTwice, kernel
  <2>. QED
    BY <1>3, <2>3, <2>4 DEF OInv
<1>. QED
  BY <1>4, <1>5

\* Before the system runs, nothing is promised about the TLB.
LEMMA BeforeInv == OInv /\ (Before \/ Boot) => OInv'
<1>. SUFFICES ASSUME OInv, Before \/ Boot PROVE OInv'
  OBVIOUS
<1>1. currentTask = 0 /\ UNCHANGED kernel
  BY DEF OInv, KernelInv, Before, Boot, ovars
<1>2. MmuTypeOK'
  <2>1. CASE Before
    BY <2>1, AnySoftwareTypes DEF OInv, OTypeOK, Before
  <2>2. CASE Boot
    BY <2>2 DEF OInv, OTypeOK, MmuTypeOK, Boot, KernelRuns, tregs
  <2>. QED
    BY <2>1, <2>2
<1>3. OTypeOK'
  BY <1>2 DEF OInv, OTypeOK, Before, Boot, ovars, kernel
<1>. QED
  BY <1>1, <1>3 DEF OInv, KernelInv, OriginInv, NoPageTwice, TlbIsCurrent, Before, Boot, ovars, kernel

\* Service routines that leave the TLB alone.
LEMMA RoutineInv == OInv /\ (Isr \/ TrapIsr \/ DefaultIsr \/ Resume) => OInv'
<1>. SUFFICES ASSUME OInv, Isr \/ TrapIsr \/ DefaultIsr \/ Resume PROVE OInv'
  OBVIOUS
<1>1. /\ UNCHANGED <<tlb, tregs, mmuBadAddr, mem, instr, refilled, currentTask,
                     currentPageDir, currentStkTop, started>>
      /\ randomIndex' \in NonFixed
  BY DEF Isr, TrapIsr, DefaultIsr, Resume, KernelRuns, kernel
<1>2. saved' \in [Task \cup {0} -> Context] /\ cpu' \in Context
  <2>1. saved \in [Task \cup {0} -> Context] /\ cpu \in Context /\ currentStkTop \in Task \cup {0}
    BY DEF OInv, OTypeOK
  <2>2. saved[currentStkTop] \in Context /\ Advanced(saved[currentStkTop]) \in Context
    BY <2>1, ContextTypes, TwoTasksAssumption
  <2>. QED
    BY <2>1, <2>2 DEF Isr, TrapIsr, DefaultIsr, Resume, kernel
<1>3. OTypeOK'
  BY <1>1, <1>2 DEF OInv, OTypeOK, MmuTypeOK, tregs, Isr, TrapIsr, DefaultIsr, Resume
<1>4. KernelInv'
  BY <1>1 DEF OInv, KernelInv, Isr, TrapIsr, DefaultIsr, Resume
<1>5. OriginInv'
  <2>1. saved \in [Task \cup {0} -> Context] /\ currentStkTop \in Task \cup {0}
    BY DEF OInv, OTypeOK
  <2>. QED
    BY <1>1, <2>1 DEF OInv, OriginInv, FetchPage, Isr, TrapIsr, DefaultIsr, Resume
<1>6. NoPageTwice' /\ TlbIsCurrent'
  BY <1>1 DEF OInv, NoPageTwice, TlbIsCurrent, Isr, TrapIsr, DefaultIsr, Resume
<1>. QED
  BY <1>3, <1>4, <1>5, <1>6 DEF OInv

\* A flush leaves direct pages only, each once.
LEMMA FlushedIsHarmless ==
  /\ Flushed \in Tlb
  /\ \A i \in 0 .. TLB_MASK : Flushed[i].page = i /\ Flushed[i].page \notin UserPage
<1>1. Invalid \in Lo /\ 0 .. TLB_MASK \subseteq Page
  BY TwoTasksAssumption DEF Invalid, Lo, Page, DirectPage
<1>2. \A i \in 0 .. TLB_MASK : Made(i, Invalid) \in Entry
  BY <1>1, EntriesAreMade
<1>. QED
  BY <1>2, MmuAssumption DEF Flushed, Tlb, Made, DirectPage

LEMMA TimerIsrInv == OInv /\ TimerIsr => OInv'
<1>. SUFFICES ASSUME OInv, TimerIsr PROVE OInv'
  OBVIOUS
<1>1. /\ NextTask \in Task /\ NextTask # 0
      /\ currentTask' = NextTask /\ currentPageDir' = NextTask /\ currentStkTop' = NextTask
      /\ started' = started \cup {NextTask} /\ tlb' = Flushed /\ pc' = "resume"
  BY DEF TimerIsr, FlushTLB, NextTask, PageDirOf, Task
<1>2. saved' \in [Task \cup {0} -> Context] /\ mem' \in [Task \X TaskPage -> Val]
  <2>1. saved \in [Task \cup {0} -> Context] /\ mem \in [Task \X TaskPage -> Val]
    BY DEF OInv, OTypeOK
  <2>2. StartContext \in Context
    BY TwoTasksAssumption DEF StartContext, Context
  <2>3. \A f \in Task \X TaskPage : Image[NextTask][f[2]] \in Val
    BY <1>1, TwoTasksAssumption
  <2>4. [f \in DOMAIN mem |-> IF f[1] = NextTask THEN Image[NextTask][f[2]] ELSE mem[f]]
          \in [Task \X TaskPage -> Val]
    BY <2>1, <2>3
  <2>5. [saved EXCEPT ![NextTask] = StartContext] \in [Task \cup {0} -> Context]
    BY <2>1, <2>2
  <2>. QED
    BY <2>1, <2>4, <2>5 DEF TimerIsr
<1>3. MmuTypeOK'
  <2>1. TLB_MASK \in 0 .. NotFound /\ TLB_MASK \in Page /\ Invalid \in Lo
    BY TwoTasksAssumption, MmuAssumption
    DEF TLB_MASK, NotFound, Page, DirectPage, Invalid, Lo
  <2>. QED
    BY <2>1, FlushedIsHarmless
    DEF OInv, OTypeOK, MmuTypeOK, TimerIsr, FlushTLB, KernelRuns
<1>4. OTypeOK'
  BY <1>1, <1>2, <1>3 DEF OInv, OTypeOK, TimerIsr
<1>5. KernelInv'
  BY <1>1 DEF KernelInv
<1>. QED
  BY <1>1, <1>4, <1>5, FlushedIsHarmless DEF OInv, OriginInv, NoPageTwice, TlbIsCurrent

LEMMA StepOInv == OInv /\ [ONext]_allvars => OInv'
<1>. SUFFICES ASSUME OInv, [ONext]_allvars PROVE OInv'
  OBVIOUS
<1>1. CASE ONext
  BY <1>1, BeforeInv, FetchInv, ComputeInv, LoadStoreInv, ExceptionInv, UserMissInv, StrayInv,
     RoutineInv, TimerIsrInv DEF ONext, Cpu
<1>2. CASE UNCHANGED allvars
  <2>1. MmuTypeOK'
    BY <1>2 DEF OInv, OTypeOK, MmuTypeOK, allvars, mmuvars, tregs
  <2>. QED
    BY <1>2, <2>1 DEF OInv, OTypeOK, KernelInv, OriginInv, FetchPage, NoPageTwice, TlbIsCurrent,
                      Mapped, allvars, ovars, kernel, mmuvars, tregs
<1>. QED
  BY <1>1, <1>2

-------------------------------------------------------------------------------
(* Theorems *)

\* For every TLB, every program and whatever ran before, the kernel's state and the
\* MMU's registers keep their types (start.s, main.c, mmu.c), also when a task's
\* address makes the miss routine go astray or miss itself.
THEOREM TwoTasksTypeCorrect == OSpec => []OTypeOK
<1>. QED
  BY InitOInv, StepOInv, PTL DEF OSpec, OInv

\* While a task runs, no page is in the TLB twice, for every size of the TLB, up to and
\* including the entry a miss routine writes that has gone astray (start.s:37-52,
\* main.c:299-308).
THEOREM PagesAreUnique == OSpec => []NoPageTwice
<1>. QED
  BY InitOInv, StepOInv, PTL DEF OSpec, OInv

\* Until a task addresses a page for which its page directory has no page table, the TLB
\* holds nothing but entries of the current task's page tables: none of another
\* task, and none of software that ran before the system (main.c:274-282, 339-372).
THEOREM TlbHoldsCurrentTask == OSpec => []TlbIsCurrent
<1>. QED
  BY InitOInv, StepOInv, PTL DEF OSpec, OInv

-------------------------------------------------------------------------------
(* Refinement *)

LEMMA InitSpaces == OInit => Spaces!Init
<1>. SUFFICES ASSUME OInit PROVE Spaces!Init
  OBVIOUS
<1>1. Memories = Image
  BY TwoTasksAssumption DEF OInit, Memories
<1>2. Contexts = [t \in Task |-> StartContext]
  BY DEF OInit, Contexts, Running, Task
<1>. QED
  BY <1>1, <1>2 DEF Spaces!Init

\* Steps that show neither in a task's memory nor in its registers.
LEMMA HiddenSteps ==
  ASSUME OInv, OInv',
         \/ Before \/ Boot \/ Timer \/ TrapInstr \/ UserMiss \/ StrayWalk \/ StrayMiss \/ Astray
         \/ Isr \/ DefaultIsr \/ Resume \/ Fetch
  PROVE  UNCHANGED Spaces!vars
<1>1. UNCHANGED <<mem, started, currentTask>>
  BY DEF Before, Boot, Timer, TrapInstr, Exception, UserMiss, StrayWalk, StrayMiss, Astray,
         GoesAstray, Isr, DefaultIsr, Resume, Fetch, allvars, ovars, kernel
<1>2. UNCHANGED Memories
  BY <1>1 DEF Memories
<1>3. ASSUME NEW t \in Task
      PROVE  UNCHANGED (IF Running(t) THEN cpu ELSE IF t \in started THEN saved[t] ELSE StartContext)
  <2>0. t # 0
    BY DEF Task
  <2>1. t # 0 /\ saved \in [Task \cup {0} -> Context]
    BY <2>0 DEF OInv, OTypeOK
  <2>2. CASE Before \/ Boot
    BY <2>1, <2>2, <1>1 DEF OInv, KernelInv, Before, Boot, ovars, kernel, Running
  <2>3. CASE Timer \/ TrapInstr \/ UserMiss \/ Fetch \/ DefaultIsr
    BY <2>1, <2>3, <1>1 DEF OInv, KernelInv, Timer, TrapInstr, Exception, UserMiss, Fetch,
                            Faulted, DefaultIsr, kernel, Running
  <2>6. CASE StrayWalk \/ StrayMiss \/ Astray
    BY <2>6, <1>1 DEF StrayWalk, StrayMiss, Astray, GoesAstray, allvars, ovars, kernel, Running
  <2>4. CASE Isr
    <3>1. saved' = [saved EXCEPT ![currentTask] = cpu] /\ (Running(t) <=> t = currentTask)
          /\ ~Running(t)' /\ currentTask \in Task \cup {0}
      BY <2>4 DEF OInv, OTypeOK, KernelInv, Isr, Running
    <3>2. currentTask = t => t \in started
      BY <2>1 DEF OInv, KernelInv
    <3>. QED
      BY <2>1, <2>4, <3>1, <3>2, <1>1 DEF Isr
  <2>5. CASE Resume
    <3>1. cpu' = saved[currentTask] /\ ~Running(t) /\ (Running(t)' <=> t = currentTask)
          /\ UNCHANGED saved
      BY <2>5, <1>1 DEF OInv, KernelInv, Resume, Running, kernel
    <3>2. currentTask = t => t \in started
      BY <2>1 DEF OInv, KernelInv
    <3>. QED
      BY <2>1, <3>1, <3>2, <1>1
  <2>. QED
    BY <2>2, <2>3, <2>4, <2>5, <2>6
<1>4. UNCHANGED Contexts
  BY <1>3 DEF Contexts
<1>. QED
  BY <1>2, <1>4 DEF Spaces!vars

\* The task that runs has its registers in the processor, and nobody else's change.
LEMMA TaskGoes ==
  ASSUME OInv, pc = "execute", NEW c \in Context, cpu' = c, Done, UNCHANGED kernel
  PROVE  /\ currentTask \in Task /\ Contexts[currentTask] = cpu
         /\ Contexts' = [Contexts EXCEPT ![currentTask] = c]
         /\ Memories[currentTask] = [p \in TaskPage |-> mem[<<currentTask, p>>]]
<1>1. currentTask \in Task /\ currentTask \in started /\ UNCHANGED <<currentTask, started, saved>>
  BY DEF OInv, OTypeOK, KernelInv, kernel
<1>2. Running(currentTask) /\ Running(currentTask)'
      /\ \A t \in Task : t # currentTask => ~Running(t) /\ ~Running(t)'
  BY <1>1 DEF Running, Done
<1>. QED
  BY <1>1, <1>2 DEF Contexts, Memories

LEMMA ComputeSpaces == OInv /\ Compute => Spaces!Next
<1>. SUFFICES ASSUME OInv, Compute PROVE Spaces!Next
  OBVIOUS
<1>1. instr.reg \in Val /\ instr.ip \in 0 .. Place - 1
  BY DEF OInv, OTypeOK, Compute, Instr, NoInstr
<1>. DEFINE c == [reg |-> instr.reg, ip |-> instr.ip]
<1>2. c \in Context /\ cpu' = c
  BY <1>1 DEF Context, Compute
<1>3. currentTask \in Task /\ Contexts' = [Contexts EXCEPT ![currentTask] = c]
  BY <1>2, TaskGoes DEF Compute
<1>4. UNCHANGED Memories
  BY DEF Memories, Compute, kernel
<1>5. Spaces!Compute(currentTask, instr.reg, instr.ip)
  BY <1>3, <1>4 DEF Spaces!Compute, Spaces!Goes
<1>6. PageAt[Contexts[currentTask].ip] \in TaskPage
  BY <1>2, TaskGoes DEF Compute, OInv, OriginInv, FetchPage
<1>. QED
  BY <1>1, <1>3, <1>5, <1>6 DEF Spaces!Next

LEMMA LoadStoreSpaces == OInv /\ LoadStore => [Spaces!Next]_(Spaces!vars)
<1>. SUFFICES ASSUME OInv, LoadStore PROVE [Spaces!Next]_(Spaces!vars)
  OBVIOUS
<1>. DEFINE store == instr.op = "store"
            fault == Fault(instr.page, TRUE, store)
            frame == FrameOf(instr.page)
<1>1. instr.page \in Touched /\ currentTask # 0 /\ store \in BOOLEAN /\ UNCHANGED kernel
  BY DEF OInv, OTypeOK, KernelInv, LoadStore, Instr, NoInstr
<1>2. CASE fault # "none"
  <2>1. Faulted(fault) /\ UNCHANGED <<cpu, mem>>
    BY <1>2 DEF LoadStore
  <2>2. \A t \in Task : Running(t) = Running(t)'
    BY <1>1, <2>1 DEF Faulted, Running, LoadStore, kernel
  <2>. QED
    BY <1>1, <2>1, <2>2 DEF Contexts, Memories, Spaces!vars, kernel
<1>3. CASE fault = "none"
  <2>1. /\ frame = <<currentTask, instr.page>> /\ instr.page \in TaskPage
        /\ currentTask \in Task /\ (store => instr.page = Data)
    <3>. HIDE DEF store
    <3>. QED
      BY <1>1, <1>3, TranslationIsRight DEF LoadStore
  <2>. DEFINE t == currentTask
              p == instr.page
  <2>2. /\ cpu \in Context /\ cpu.reg \in Val /\ mem \in [Task \X TaskPage -> Val]
        /\ mem[frame] \in Val
    BY <2>1 DEF OInv, OTypeOK, Context
  <2>3. Advanced(cpu) \in Context /\ [cpu EXCEPT !.reg = mem[frame]] \in Context
        /\ Advanced([cpu EXCEPT !.reg = mem[frame]]) \in Context
    BY <2>2, ContextTypes
  <2>4. Done /\ cpu' = Advanced(IF store THEN cpu ELSE [cpu EXCEPT !.reg = mem[frame]])
        /\ mem' = IF store THEN [mem EXCEPT ![frame] = cpu.reg] ELSE mem
    BY <1>3 DEF LoadStore
  <2>5. /\ t \in Task /\ Contexts[t] = cpu
        /\ Contexts' = [Contexts EXCEPT ![t] = cpu']
        /\ Memories[t] = [q \in TaskPage |-> mem[<<t, q>>]]
    <3>1. cpu' \in Context /\ pc = "execute"
      BY <2>3, <2>4 DEF LoadStore
    <3>. QED
      BY <1>1, <2>4, <3>1, TaskGoes
  <2>8. PageAt[Contexts[t].ip] \in TaskPage
    BY <2>5 DEF LoadStore, OInv, OriginInv, FetchPage
  <2>6. CASE store
    <3>1. Contexts' = [Contexts EXCEPT ![t] = Spaces!Advanced(Contexts[t])]
      BY <2>4, <2>5, <2>6 DEF Advanced, Spaces!Advanced
    <3>2. Memories' = [Memories EXCEPT ![t][Data] = Contexts[t].reg]
      <4>1. \A u \in Task, q \in TaskPage :
              mem'[<<u, q>>] = IF u = t /\ q = Data THEN cpu.reg ELSE mem[<<u, q>>]
        BY <2>1, <2>2, <2>4, <2>6
      <4>2. t \in started /\ UNCHANGED started /\ Data \in TaskPage
        BY <1>1, <2>1, <2>6 DEF OInv, KernelInv, kernel
      <4>3. Contexts[t].reg = cpu.reg
        BY <2>5
      <4>4. Memories'[t] = [Memories[t] EXCEPT ![Data] = cpu.reg]
        <5>1. Memories'[t] = [q \in TaskPage |-> mem'[<<t, q>>]]
          BY <2>5, <4>2 DEF Memories
        <5>2. Memories[t] = [q \in TaskPage |-> mem[<<t, q>>]]
          BY <2>5
        <5>3. \A q \in TaskPage : mem'[<<t, q>>] = IF q = Data THEN cpu.reg ELSE mem[<<t, q>>]
          BY <2>5, <4>1
        <5>. HIDE DEF t
        <5>. QED
          BY <5>1, <5>2, <5>3
      <4>5. ASSUME NEW u \in Task, u # t
            PROVE  Memories'[u] = Memories[u]
        BY <4>1, <4>2, <4>5 DEF Memories
      <4>6. /\ Memories = [u \in Task |-> Memories[u]]
            /\ Memories' = [u \in Task |-> Memories'[u]]
        BY DEF Memories
      <4>. QED
        BY <2>5, <4>3, <4>4, <4>5, <4>6
    <3>3. Spaces!Store(t, Data)
      BY <3>1, <3>2 DEF Spaces!Store, Spaces!Goes
    <3>. QED
      BY <2>5, <2>8, <3>3 DEF Spaces!Next
  <2>7. CASE ~store
    <3>1. Contexts' = [Contexts EXCEPT
                         ![t] = Spaces!Advanced([Contexts[t] EXCEPT !.reg = Memories[t][p]])]
      BY <2>1, <2>2, <2>4, <2>5, <2>7 DEF Advanced, Spaces!Advanced
    <3>2. UNCHANGED Memories
      BY <1>1, <2>4, <2>7 DEF Memories, kernel
    <3>3. Spaces!Load(t, p)
      BY <3>1, <3>2 DEF Spaces!Load, Spaces!Goes
    <3>. QED
      BY <2>1, <2>5, <2>8, <3>3 DEF Spaces!Next
  <2>. QED
    BY <2>6, <2>7
<1>. QED
  BY <1>2, <1>3

\* The trap instruction is skipped in the registers that isr saved.
LEMMA TrapSpaces == OInv /\ TrapIsr => Spaces!Next
<1>. SUFFICES ASSUME OInv, TrapIsr PROVE Spaces!Next
  OBVIOUS
<1>. DEFINE t == currentTask
<1>1. t \in Task /\ t \in started /\ currentStkTop = t /\ saved \in [Task \cup {0} -> Context]
      /\ UNCHANGED <<started, currentTask, mem, cpu>>
  BY DEF OInv, OTypeOK, KernelInv, TrapIsr
<1>2. \A u \in Task : ~Running(u) /\ ~Running(u)'
  BY DEF Running, TrapIsr
<1>3. saved' = [saved EXCEPT ![t] = Advanced(@)]
  BY <1>1 DEF TrapIsr
<1>4. Contexts' = [Contexts EXCEPT ![t] = Spaces!Advanced(Contexts[t])]
  BY <1>1, <1>2, <1>3 DEF Contexts, Advanced, Spaces!Advanced
<1>5. UNCHANGED Memories
  BY <1>1 DEF Memories
<1>6. Spaces!Trap(t)
  BY <1>4, <1>5 DEF Spaces!Trap, Spaces!Goes
<1>7. PageAt[Contexts[t].ip] \in TaskPage
  BY <1>1, <1>2 DEF Contexts, OInv, OriginInv, TrapIsr
<1>. QED
  BY <1>1, <1>6, <1>7 DEF Spaces!Next

\* A task that is started finds the memory and the registers it was promised.
LEMMA TimerIsrSpaces == OInv /\ TimerIsr => UNCHANGED Spaces!vars
<1>. SUFFICES ASSUME OInv, TimerIsr PROVE UNCHANGED Spaces!vars
  OBVIOUS
<1>1. \A u \in Task : ~Running(u) /\ ~Running(u)'
  BY DEF Running, TimerIsr
<1>. DEFINE t == NextTask
<1>2. t \in Task /\ started' = started \cup {t} /\ saved \in [Task \cup {0} -> Context]
      /\ mem \in [Task \X TaskPage -> Val]
  BY DEF NextTask, TimerIsr, Task, OInv, OTypeOK
<1>3. CASE t \in started
  BY <1>1, <1>2, <1>3 DEF TimerIsr, Contexts, Memories, Spaces!vars
<1>4. CASE t \notin started
  <2>1. mem' = [f \in DOMAIN mem |-> IF f[1] = t THEN Image[t][f[2]] ELSE mem[f]]
        /\ saved' = [saved EXCEPT ![t] = StartContext]
    BY <1>4 DEF TimerIsr
  <2>2. UNCHANGED Contexts
    BY <1>1, <1>2, <1>4, <2>1 DEF Contexts
  <2>3. \A u \in Task, p \in TaskPage :
          mem'[<<u, p>>] = IF u = t THEN Image[t][p] ELSE mem[<<u, p>>]
    BY <1>2, <2>1
  <2>4. Image[t] = [p \in TaskPage |-> Image[t][p]]
    BY <1>2, TwoTasksAssumption
  <2>5. UNCHANGED Memories
    BY <1>2, <1>4, <2>3, <2>4 DEF Memories
  <2>. QED
    BY <2>2, <2>5 DEF Spaces!vars
<1>. QED
  BY <1>3, <1>4

LEMMA StepSpaces == OInv /\ OInv' /\ [ONext]_allvars => [Spaces!Next]_(Spaces!vars)
<1>. SUFFICES ASSUME OInv, OInv', [ONext]_allvars PROVE [Spaces!Next]_(Spaces!vars)
  OBVIOUS
<1>1. CASE UNCHANGED allvars
  BY <1>1 DEF allvars, ovars, kernel, Spaces!vars, Memories, Contexts, Running
<1>2. CASE ONext
  BY <1>2, HiddenSteps, ComputeSpaces, LoadStoreSpaces, TrapSpaces, TimerIsrSpaces
  DEF ONext, Cpu
<1>. QED
  BY <1>1, <1>2

\* Until one of the two addresses a page for which its page directory has no page
\* table, each task has a machine of its own: for every TLB, every program and
\* every order of interrupts, what the tasks see is what two separate machines
\* would show them (start.s:37-132, main.c:274-374).
THEOREM TasksAreIsolated == OSpec => ImplementsAddressSpaces
<1>. QED
  BY InitOInv, StepOInv, InitSpaces, StepSpaces, PTL
  DEF OSpec, ImplementsAddressSpaces, Spaces!Spec

-------------------------------------------------------------------------------
(* The refill of an instruction's data spares the refill of its code *)

\* Rests, under a name of their own: products and % in one formula are too much
\* for the provers.
Rest(a, N) == a % N

LEMMA Remainder ==
  ASSUME NEW a \in Int, NEW N \in Nat \ {0}
  PROVE  Rest(a, N) \in 0 .. N - 1 /\ \E q \in Int : a - Rest(a, N) = N * q
<1>. DEFINE q == a \div N
            r == Rest(a, N)
<1>1. q \in Int
  OBVIOUS
<1>2. r \in 0 .. N - 1
  BY DEF Rest
<1>3. r = a - N * q
  BY DEF Rest
<1>. HIDE DEF q, r
<1>4. r \in 0 .. N - 1 /\ \E x \in Int : a - r = N * x
  <2>1. a - r = N * q
    BY <1>1, <1>2, <1>3
  <2>. QED
    BY <1>1, <1>2, <2>1
<1>. QED
  BY <1>4 DEF r

LEMMA Distributes ==
  ASSUME NEW N \in Int, NEW p \in Int, NEW q \in Int
  PROVE  /\ N * (p - q) = N * p - N * q /\ N * (p + q) = N * p + N * q
         /\ N * p \in Int /\ N * q \in Int
OBVIOUS

\* The only multiple of N between -N and N is 0.
LEMMA SmallMultiple ==
  ASSUME NEW N \in Nat \ {0}, NEW r \in Int, NEW k \in Int, r = N * k, -N < r, r < N
  PROVE  r = 0
<1>1. k >= 1 => N * k >= N
  OBVIOUS
<1>2. k <= -1 => N * k <= -N
  OBVIOUS
<1>. QED
  BY <1>1, <1>2

LEMMA RestIsUnique ==
  ASSUME NEW N \in Nat \ {0}, NEW a \in Int, NEW r \in 0 .. N - 1,
         \E q \in Int : a - r = N * q
  PROVE  Rest(a, N) = r
<1>1. Rest(a, N) \in 0 .. N - 1 /\ \E p \in Int : a - Rest(a, N) = N * p
  BY Remainder
<1>. DEFINE s == Rest(a, N)
<1>. HIDE DEF s
<1>2. PICK p \in Int, q \in Int : a - s = N * p /\ a - r = N * q
  BY <1>1 DEF s
<1>3. s \in 0 .. N - 1 /\ r - s = N * p - N * q
  BY <1>1, <1>2 DEF s
<1>4. r - s = N * (p - q)
  BY <1>3, Distributes
<1>5. r - s = 0
  BY <1>3, <1>4, SmallMultiple
<1>. QED
  BY <1>3, <1>5 DEF s

\* A rest may be taken before adding.
LEMMA RestOfSum ==
  ASSUME NEW N \in Nat \ {0}, NEW a \in Int, NEW k \in Int
  PROVE  Rest(Rest(a, N) + k, N) = Rest(a + k, N)
<1>. DEFINE r == Rest(a, N)   b == r + k   c == a + k   s == Rest(b, N)
<1>1. r \in 0 .. N - 1 /\ \E p \in Int : a - r = N * p
  BY Remainder
<1>. HIDE DEF r
<1>2. b \in Int /\ c \in Int /\ b - r = c - a
  BY <1>1
<1>. HIDE DEF b, c
<1>3. s \in 0 .. N - 1 /\ \E q \in Int : b - s = N * q
  BY <1>2, Remainder
<1>. HIDE DEF s
<1>4. PICK p \in Int, q \in Int : a - r = N * p /\ b - s = N * q
  BY <1>1, <1>3
<1>5. c - s = N * p + N * q
  BY <1>1, <1>2, <1>3, <1>4, Distributes
<1>6. \E d \in Int : c - s = N * d
  <2>1. c - s = N * (p + q) /\ p + q \in Int
    BY <1>5, Distributes
  <2>. QED
    BY <2>1
<1>7. Rest(c, N) = s
  BY <1>2, <1>3, <1>6, RestIsUnique
<1>. QED
  BY <1>7 DEF s, r, b, c

\* Numbers with the same rest differ by a multiple.
LEMMA SameRest ==
  ASSUME NEW N \in Nat \ {0}, NEW a \in Int, NEW b \in Int, Rest(a, N) = Rest(b, N)
  PROVE  Rest(a - b, N) = 0
<1>. DEFINE r == Rest(a, N)   c == a - b
<1>1. r \in 0 .. N - 1 /\ \E p \in Int : a - r = N * p
  BY Remainder
<1>2. Rest(b, N) = r
  OBVIOUS
<1>. HIDE DEF r
<1>3. \E q \in Int : b - r = N * q
  BY <1>2, Remainder
<1>4. PICK p \in Int, q \in Int : a - r = N * p /\ b - r = N * q
  BY <1>1, <1>3
<1>5. c \in Int /\ c - 0 = N * p - N * q
  BY <1>1, <1>4, Distributes
<1>6. \E d \in Int : c - 0 = N * d
  <2>1. c - 0 = N * (p - q) /\ p - q \in Int
    BY <1>5, Distributes
  <2>. QED
    BY <2>1
<1>. HIDE DEF c
<1>7. 0 \in 0 .. N - 1
  OBVIOUS
<1>8. Rest(c, N) = 0
  BY <1>5, <1>6, <1>7, RestIsUnique
<1>. QED
  BY <1>8 DEF c

LEMMA CountedIsARest ==
  ASSUME NEW k
  PROVE  /\ Counted(k) = TLB_FIXED + Rest(randomIndex - TLB_FIXED - k, TLB_SIZE - TLB_FIXED)
         /\ Counted(k)' = TLB_FIXED + Rest(randomIndex' - TLB_FIXED - k, TLB_SIZE - TLB_FIXED)
BY Zenon DEF Counted, Rest

\* Counts of translations add up.
LEMMA CountsAddUp ==
  ASSUME NEW n \in Int, NEW k \in Int, randomIndex \in NonFixed, randomIndex' = Counted(n)
  PROVE  Counted(k)' = Counted(n + k)
<1>. DEFINE N == TLB_SIZE - TLB_FIXED
            a == randomIndex - TLB_FIXED - n
<1>1. N \in Nat \ {0} /\ TLB_FIXED \in Nat /\ TLB_SIZE \in Nat /\ randomIndex \in Int /\ a \in Int
  BY MmuAssumption DEF NonFixed, TLB_MASK
<1>2. randomIndex' = TLB_FIXED + Rest(a, N)
  BY CountedIsARest
<1>3. Counted(k)' = TLB_FIXED + Rest(randomIndex' - TLB_FIXED - k, N)
  BY CountedIsARest
<1>4. Counted(n + k) = TLB_FIXED + Rest(randomIndex - TLB_FIXED - (n + k), N)
  BY CountedIsARest
<1>5. randomIndex - TLB_FIXED - (n + k) = a + (-k)
  BY <1>1
<1>6. Rest(a, N) \in Int
  BY <1>1, Remainder
<1>. HIDE DEF a, N
<1>7. randomIndex' - TLB_FIXED - k = Rest(a, N) + (-k)
  BY <1>1, <1>2, <1>6
<1>8. Rest(Rest(a, N) + (-k), N) = Rest(a + (-k), N)
  <2>. DEFINE m == -k
  <2>1. m \in Int
    OBVIOUS
  <2>. HIDE DEF m
  <2>2. Rest(Rest(a, N) + m, N) = Rest(a + m, N)
    BY <1>1, <2>1, RestOfSum
  <2>. QED
    BY <2>2 DEF m
<1>. QED
  BY <1>3, <1>4, <1>5, <1>7, <1>8

\* Two counts reach the same entry only if they differ by a multiple.
LEMMA CountsDiffer ==
  ASSUME NEW n \in Int, NEW k \in Int, randomIndex \in NonFixed, Counted(n) = Counted(k)
  PROVE  Rest(k - n, TLB_SIZE - TLB_FIXED) = 0
<1>. DEFINE N == TLB_SIZE - TLB_FIXED
            a == randomIndex - TLB_FIXED - n
            b == randomIndex - TLB_FIXED - k
<1>1. N \in Nat \ {0} /\ TLB_FIXED \in Nat /\ a \in Int /\ b \in Int /\ a - b = k - n
  BY MmuAssumption DEF NonFixed, TLB_MASK
<1>2. TLB_FIXED + Rest(a, N) = TLB_FIXED + Rest(b, N)
  BY CountedIsARest
<1>3. Rest(a, N) \in Int /\ Rest(b, N) \in Int
  BY <1>1, Remainder
<1>. HIDE DEF a, b, N
<1>4. Rest(a, N) = Rest(b, N)
  BY <1>1, <1>2, <1>3
<1>5. Rest(a - b, N) = 0
  BY <1>1, <1>4, SameRest
<1>. QED
  BY <1>1, <1>5 DEF N

LEMMA CountedIsIndex ==
  ASSUME NEW n \in Int, randomIndex \in NonFixed
  PROVE  Counted(n) \in 0 .. TLB_MASK
<1>. DEFINE N == TLB_SIZE - TLB_FIXED
            a == randomIndex - TLB_FIXED - n
<1>1. N \in Nat \ {0} /\ TLB_FIXED \in Nat /\ a \in Int /\ TLB_MASK = TLB_FIXED + N - 1
  BY MmuAssumption DEF NonFixed, TLB_MASK
<1>2. Counted(n) = TLB_FIXED + Rest(a, N)
  BY CountedIsARest
<1>. HIDE DEF a, N
<1>3. Rest(a, N) \in 0 .. N - 1
  BY <1>1, Remainder
<1>. QED
  BY <1>1, <1>2, <1>3

\* The entry that the random index named k translations ago.
Behind(k) == Counted(-k)

LEMMA BehindMovesOn ==
  ASSUME NEW k \in Nat, randomIndex \in NonFixed, randomIndex' = Counted(1)
  PROVE  Behind(k + 1)' = Behind(k)
<1>. DEFINE m == -(k + 1)
<1>1. m \in Int /\ 1 + m = -k
  OBVIOUS
<1>2. Behind(k + 1)' = Counted(m)' /\ Behind(k) = Counted(-k)
  BY DEF Behind
<1>. HIDE DEF m
<1>3. Counted(m)' = Counted(1 + m)
  BY <1>1, CountsAddUp
<1>. QED
  BY <1>1, <1>2, <1>3

LEMMA BehindWritten ==
  ASSUME NEW n \in Nat, NEW k \in Nat, randomIndex \in NonFixed, randomIndex' = Counted(n + k)
  PROVE  Behind(k)' = Counted(n)
<1>. DEFINE m == -k
            s == n + k
<1>1. m \in Int /\ s \in Int /\ s + m = n
  OBVIOUS
<1>2. Behind(k)' = Counted(m)' /\ randomIndex' = Counted(s)
  BY DEF Behind
<1>. HIDE DEF m, s
<1>3. Counted(m)' = Counted(s + m)
  BY <1>1, <1>2, CountsAddUp
<1>. QED
  BY <1>1, <1>2, <1>3

LEMMA BehindDiffers ==
  ASSUME NEW n \in Nat, NEW k \in Nat, randomIndex \in NonFixed, Behind(k) = Counted(n)
  PROVE  Rest(n + k, TLB_SIZE - TLB_FIXED) = 0
<1>. DEFINE m == -k
            s == n + k
<1>1. m \in Int /\ n - m = s
  OBVIOUS
<1>2. Counted(m) = Counted(n)
  BY DEF Behind
<1>. HIDE DEF m
<1>3. Rest(n - m, TLB_SIZE - TLB_FIXED) = 0
  BY <1>1, <1>2, CountsDiffer
<1>. HIDE DEF s
<1>4. Rest(s, TLB_SIZE - TLB_FIXED) = 0
  BY <1>1, <1>3
<1>. QED
  BY <1>4 DEF s

LEMMA BehindIsIndex ==
  ASSUME NEW k \in Nat, randomIndex \in NonFixed
  PROVE  Behind(k) \in 0 .. TLB_MASK
<1>. DEFINE m == -k
<1>1. m \in Int
  OBVIOUS
<1>. HIDE DEF m
<1>2. Counted(m) \in 0 .. TLB_MASK
  BY <1>1, CountedIsIndex
<1>. QED
  BY <1>2 DEF m, Behind

\* Where the entry for the instruction's own page is after its refill: the random index has
\* moved by 2 since it was written, and moves by 1 with each of the instruction's
\* translations.
RefillInv ==
  /\ pc \notin {"fetch", "execute", "user miss"} => refilled = NoInstr
  /\ refilled = FetchPage =>
       /\ pc = "fetch" => tlb[Behind(2)].page = FetchPage
       /\ pc = "execute" => tlb[Behind(3)].page = FetchPage
       /\ pc = "user miss" => tlb[Behind(4)].page = FetchPage

\* A page is not the mark for no refill.
LEMMA FetchPageIsNoMark == OInv => FetchPage # NoInstr
BY FetchPageIsTouched, TwoTasksAssumption

\* A translation that does not end the instruction moves the index by 1.
LEMMA TranslationMovesOn ==
  ASSUME OInv, RefillInv, Fetch \/ LoadStore, refilled' # NoInstr
  PROVE  RefillInv'
<1>1. randomIndex \in NonFixed
  BY DEF OInv, OTypeOK, MmuTypeOK
<1>2. ASSUME NEW f, Faulted(f)
      PROVE  f = "miss" /\ pc' = "user miss" /\ UNCHANGED refilled
  BY <1>2 DEF Faulted
<1>3. ASSUME NEW p, NEW write, V2p(p, TRUE, write)
      PROVE  UNCHANGED tlb /\ (randomIndex' = Counted(1) =>
               Behind(3)' = Behind(2) /\ Behind(4)' = Behind(3))
  <2>1. UNCHANGED tlb
    BY <1>3 DEF V2p
  <2>2. ASSUME randomIndex' = Counted(1)
        PROVE  Behind(2 + 1)' = Behind(2) /\ Behind(3 + 1)' = Behind(3)
    BY <1>1, <2>2, BehindMovesOn
  <2>. QED
    BY <2>1, <2>2
<1>4. CASE Fetch
  <2>. DEFINE fault == Fault(FetchPage, TRUE, FALSE)
  <2>1. pc = "fetch" /\ V2p(FetchPage, TRUE, FALSE) /\ UNCHANGED <<cpu, refilled>>
        /\ (fault = "none" => pc' = "execute") /\ (fault # "none" => fault = "miss" /\ pc' = "user miss")
    BY <1>2, <1>4 DEF Fetch
  <2>2. UNCHANGED FetchPage
    BY <2>1 DEF FetchPage
  <2>3. CASE refilled = FetchPage
    <3>1. tlb[Behind(2)].page = FetchPage /\ Behind(2) \in 0 .. TLB_MASK
      BY <1>1, <2>1, <2>3, BehindIsIndex DEF RefillInv
    <3>2. Mapped(FetchPage)
      BY <3>1 DEF Mapped
    <3>3. fault = "none" /\ pc' = "execute"
      BY <2>1, <3>2 DEF Fault
    <3>4. randomIndex' = Counted(1)
      BY <2>1, <3>3 DEF V2p
    <3>. QED
      BY <1>3, <2>1, <2>2, <3>1, <3>3, <3>4 DEF RefillInv
  <2>4. CASE refilled # FetchPage
    BY <2>1, <2>2, <2>4 DEF RefillInv
  <2>. QED
    BY <2>3, <2>4
<1>5. CASE LoadStore
  <2>. DEFINE store == instr.op = "store"
              fault == Fault(instr.page, TRUE, store)
  <2>1. pc = "execute" /\ V2p(instr.page, TRUE, store)
        /\ IF fault = "none" THEN refilled' = NoInstr ELSE Faulted(fault) /\ UNCHANGED cpu
    BY <1>5 DEF LoadStore, Done
  <2>2. fault = "miss" /\ pc' = "user miss" /\ UNCHANGED <<cpu, refilled>>
    BY <1>2, <2>1
  <2>3. randomIndex' = Counted(1)
    BY <2>1, <2>2 DEF V2p
  <2>4. UNCHANGED tlb /\ Behind(4)' = Behind(3) /\ UNCHANGED FetchPage
    BY <1>3, <2>1, <2>2, <2>3 DEF FetchPage
  <2>. QED
    BY <2>1, <2>2, <2>4 DEF RefillInv
<1>. QED
  BY <1>4, <1>5

\* The refill leaves the entry 2 translations behind the index.
LEMMA RefillWrites ==
  ASSUME OInv, UserMiss
  PROVE  RefillInv'
<1>1. randomIndex \in NonFixed /\ tlb \in Tlb
  BY DEF OInv, OTypeOK, MmuTypeOK
<1>2. randomIndex' = Counted(21 + 2) /\ refilled' = tlbEntryHi /\ pc' = "fetch"
  <2>1. randomIndex' = Counted(USER_MISS) /\ refilled' = tlbEntryHi /\ pc' = "fetch"
    BY DEF UserMiss
  <2>2. USER_MISS = 21 + 2
    BY DEF USER_MISS, UP_TO_TBWR
  <2>. QED
    BY <2>1, <2>2
<1>3. Behind(2)' = Counted(21)
  BY <1>1, <1>2, BehindWritten
<1>4. tlb' = [tlb EXCEPT ![Counted(21)] =
                Made(tlbEntryHi, PageTable(currentPageDir, tlbEntryHi))]
  BY DEF UserMiss, Written, UP_TO_TBWR
<1>5. Counted(21) \in 0 .. TLB_MASK
  BY <1>1, CountedIsIndex
<1>6. tlb'[Counted(21)].page = tlbEntryHi
  BY <1>1, <1>4, <1>5 DEF Made, Tlb
<1>. QED
  BY <1>2, <1>3, <1>6 DEF RefillInv

LEMMA StepRefillInv == OInv /\ RefillInv /\ [ONext]_allvars => RefillInv'
<1>. SUFFICES ASSUME OInv, RefillInv, [ONext]_allvars PROVE RefillInv'
  OBVIOUS
<1>1. FetchPage' # NoInstr
  <2>1. OInv'
    BY StepOInv
  <2>2. FetchPage' \in Touched
    BY <2>1, TwoTasksAssumption DEF OInv, OTypeOK, Context, FetchPage
  <2>. QED
    BY <2>2, TwoTasksAssumption
<1>2. CASE refilled' = NoInstr
  BY <1>1, <1>2 DEF RefillInv
<1>3. CASE refilled' # NoInstr /\ (Fetch \/ LoadStore)
  BY <1>3, TranslationMovesOn
<1>4. CASE UserMiss
  BY <1>4, RefillWrites
<1>5. CASE Compute \/ TrapInstr \/ Timer \/ StrayWalk \/ StrayMiss
  BY <1>2, <1>5 DEF Compute, TrapInstr, Timer, StrayWalk, StrayMiss, Done, Exception, GoesAstray
<1>6. CASE Before \/ Boot \/ Isr \/ TrapIsr \/ DefaultIsr \/ TimerIsr \/ Resume
  BY <1>2, <1>6
     DEF Before, Boot, Isr, TrapIsr, DefaultIsr, TimerIsr, Resume, RefillInv, ovars
<1>7. CASE Astray \/ UNCHANGED allvars
  BY <1>7 DEF Astray, allvars, ovars, mmuvars, RefillInv, Behind, Counted, FetchPage
<1>. QED
  BY <1>2, <1>3, <1>4, <1>5, <1>6, <1>7 DEF ONext, Cpu

LEMMA InitRefillInv == OInit => RefillInv
<1>. SUFFICES ASSUME OInit PROVE RefillInv
  OBVIOUS
<1>1. FetchPage # NoInstr
  BY InitOInv, FetchPageIsNoMark
<1>. QED
  BY <1>1 DEF OInit, RefillInv

\* Between the two stores of entries are 25 translations.
LEMMA RefillsDiffer ==
  ASSUME OInv, RefillInv, ~NoMutualEviction
  PROVE  25 % (TLB_SIZE - TLB_FIXED) = 0
<1>1. PICK n \in Nat : n = UP_TO_TBWR
  BY DEF UP_TO_TBWR
<1>2. pc = "user miss" /\ refilled = FetchPage /\ tlb[Counted(n)].page = FetchPage
  BY <1>1 DEF NoMutualEviction
<1>3. tlb[Behind(4)].page = FetchPage /\ randomIndex \in NonFixed /\ currentTask # 0
  BY <1>2 DEF RefillInv, OInv, OTypeOK, MmuTypeOK, KernelInv
<1>4. Counted(n) \in 0 .. TLB_MASK /\ Behind(4) \in 0 .. TLB_MASK
  BY <1>3, CountedIsIndex, BehindIsIndex
<1>5. Behind(4) = Counted(n)
  BY <1>2, <1>3, <1>4 DEF OInv, NoPageTwice
<1>6. Rest(n + 4, TLB_SIZE - TLB_FIXED) = 0
  BY <1>3, <1>5, BehindDiffers
<1>7. n + 4 = 25
  BY <1>1 DEF UP_TO_TBWR
<1>. QED
  BY <1>6, <1>7, Zenon DEF Rest

\* An instruction whose own page and operand's page both miss gets both entries, with any
\* number of random entries that does not divide 25, the translations from one refill's
\* tbwr to the next one's (mmu.c:37, start.s:37-52, 134-138).
THEOREM RefillsSpareEachOther ==
  ASSUME 25 % (TLB_SIZE - TLB_FIXED) # 0
  PROVE  OSpec => []NoMutualEviction
<1>1. OInit => OInv /\ RefillInv
  BY InitOInv, InitRefillInv
<1>2. OInv /\ RefillInv /\ [ONext]_allvars => (OInv /\ RefillInv)'
  BY StepOInv, StepRefillInv
<1>3. OInv /\ RefillInv => NoMutualEviction
  BY RefillsDiffer
<1>. QED
  BY <1>1, <1>2, <1>3, PTL DEF OSpec
=============================================================================

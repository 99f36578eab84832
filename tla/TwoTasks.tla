-------------------------------- MODULE TwoTasks --------------------------------
(***************************************************************************)
(* The stand-alone operating system stdalone/twotasks-2/os (start.s,       *)
(* main.c) on the MMU of module Mmu: two tasks in user mode with page      *)
(* tables of their own, switched by the timer interrupt, with a TLB that   *)
(* the user miss routine refills.                                          *)
(*                                                                         *)
(* The kernel runs in direct pages with interrupts disabled, so nothing    *)
(* comes between the steps of a service routine; it is cut where it saves  *)
(* and loads the registers.  A task's instructions are cut at each         *)
(* translation.  Of the registers one is kept, besides the resumption      *)
(* address.                                                                *)
(*                                                                         *)
(* Of a page directory only the entries for the first and the last 4 MB of *)
(* user addresses are set.  A task that addresses a page in between makes  *)
(* the miss routine take a word of its own page 0 for a page table entry:  *)
(* it goes astray, and nothing is promised to anybody any more.            *)
(***************************************************************************)
EXTENDS Mmu

CONSTANTS
  Code, Data, Hole,  \* pages of a task's two page tables: code (virtual page 0), data
                \* (or stack), one without a mapping
  Outside,      \* user pages for which the page directory has no page table
  ZeroFrame,    \* frame 0, which page table entries without a mapping name
  Val,          \* values of a register or page; 0 among them
  Place,        \* instruction addresses 0 .. Place - 1, taken in turn
  PageAt,       \* PageAt[ip]: the page that address ip is in
  Touched,      \* pages that a task fetches from, loads from and stores to
  Image,        \* Image[t][p]: pages of task t in its load module
  Hi, Los       \* what software before the system writes to EntryHi and EntryLo

Task == {1, 2}
TaskPage == {Code, Data}
NoInstr == [op |-> "none"]

ASSUME TwoTasksAssumption ==
  /\ UserPage = {Code, Data, Hole} \cup Outside /\ {Code, Data, Hole} \cap Outside = {}
  /\ Code # Data /\ Code # Hole /\ Data # Hole
  /\ NoInstr \notin UserPage \cup SystemPage
  /\ (Task \X TaskPage) \cup {ZeroFrame} \subseteq Frame
  /\ ZeroFrame \notin Task \X TaskPage
  /\ 0 \in Val /\ Place \in Nat \ {0}
  /\ Image \in [Task -> [TaskPage -> Val]]
  /\ Touched \subseteq UserPage \cup SystemPage
  /\ PageAt \in [0 .. Place - 1 -> Touched]
  /\ Hi \subseteq Page /\ Los \subseteq Lo

\* loadTask: code is read-only, data and stack are not; the rest of the two page tables
\* is 0.  For pages outside of them there is no entry.
PageTable(t, p) ==
  CASE p = Code -> [frame |-> <<t, Code>>, write |-> FALSE, valid |-> TRUE]
    [] p = Data -> [frame |-> <<t, Data>>, write |-> TRUE, valid |-> TRUE]
    [] p = Hole -> [frame |-> ZeroFrame, write |-> FALSE, valid |-> FALSE]

Context == [reg : Val, ip : 0 .. Place - 1]
StartContext == [reg |-> 0, ip |-> 0]

Instr ==
  [op : {"compute"}, reg : Val, ip : 0 .. Place - 1]
    \cup [op : {"load", "store"}, page : Touched]
    \cup {[op |-> "trap"]}

VARIABLES
  pc,           \* where the processor is
  cause,        \* the exception or interrupt being served
  cpu,          \* the registers
  instr,        \* the task's instruction, while it is being executed
  refilled,     \* the page whose entry this instruction had loaded last
  currentTask, currentPageDir, currentStkTop,
  started,      \* task1Started, task2Started
  saved,        \* saved[t]: the registers on top of task t's kernel stack
  mem           \* mem[f]: the page in frame f

kernel == <<currentTask, currentPageDir, currentStkTop, started, saved>>
ovars == <<pc, cause, cpu, instr, refilled, kernel, mem>>
allvars == <<mmuvars, ovars>>

OTypeOK ==
  /\ MmuTypeOK
  /\ pc \in {"monitor", "idle", "fetch", "execute", "user miss", "astray",
            "isr", "service", "resume"}
  /\ cause \in {"none", "timer", "trap", "fault"}
  /\ cpu \in Context /\ saved \in [Task \cup {0} -> Context]
  /\ instr \in Instr \cup {NoInstr}
  /\ refilled \in UserPage \cup {NoInstr}
  /\ {currentTask, currentPageDir, currentStkTop} \subseteq Task \cup {0}
  /\ started \subseteq Task
  /\ mem \in [Task \X TaskPage -> Val]

OInit ==
  /\ MmuInit
  /\ pc = "monitor" /\ cause = "none"
  /\ cpu = StartContext /\ instr = NoInstr /\ refilled = NoInstr
  /\ currentTask = 0 /\ currentPageDir = 0 /\ currentStkTop = 0 /\ started = {}
  /\ saved = [s \in Task \cup {0} |-> StartContext]
  /\ mem = [f \in Task \X TaskPage |-> 0]

-------------------------------------------------------------------------------
(* Before the system is started: any software, and the console *)

AnySoftware ==
  \/ MmuReset
  \/ \E p \in Hi, user, write \in BOOLEAN :
       V2p(p, user, write) \/ Misaligned(p) \/ FetchFromIo(p, user)
  \/ Tbs \/ Tbwr \/ Tbri \/ Tbwi
  \/ \E i \in 0 .. TLB_MASK : SetIndex(i) \/ \E p \in Hi, l \in Los : ConsoleSets(i, Made(p, l))
  \/ (\E p \in Hi : SetEntryHi(p) \/ SetBadAddr(p))
  \/ (\E l \in Los : SetEntryLo(l))

Before == pc = "monitor" /\ AnySoftware /\ UNCHANGED ovars

\* Kernel code translates direct addresses only, an unknown number of them.
KernelRuns == randomIndex' \in NonFixed

\* start and main, up to its endless loop
Boot ==
  /\ pc = "monitor"
  /\ pc' = "idle"
  /\ KernelRuns
  /\ UNCHANGED <<tlb, tregs, mmuBadAddr, cause, cpu, instr, refilled, kernel, mem>>

-------------------------------------------------------------------------------
(* A task's instructions *)

\* What follows a translation that faulted: the instruction will be fetched again
\* when the entry was loaded, or the service routine returned.
Faulted(fault) ==
  IF fault = "miss"
    THEN pc' = "user miss" /\ UNCHANGED <<cause, instr, refilled>>
    ELSE pc' = "isr" /\ cause' = "fault" /\ instr' = NoInstr /\ refilled' = NoInstr

\* No page is protected from execution.
FetchPage == PageAt[cpu.ip]

Fetch ==
  LET fault == Fault(FetchPage, TRUE, FALSE) IN
  /\ pc = "fetch"
  /\ V2p(FetchPage, TRUE, FALSE)
  /\ IF fault = "none"
       THEN /\ pc' = "execute"
            /\ instr' \in IF instr = NoInstr THEN Instr ELSE {instr}
            /\ UNCHANGED <<cause, refilled>>
       ELSE Faulted(fault)
  /\ UNCHANGED <<cpu, kernel, mem>>

Done == pc' = "fetch" /\ instr' = NoInstr /\ refilled' = NoInstr

Advanced(c) == [c EXCEPT !.ip = (@ + 1) % Place]

Compute ==
  /\ pc = "execute" /\ instr.op = "compute"
  /\ cpu' = [reg |-> instr.reg, ip |-> instr.ip]
  /\ Done
  /\ UNCHANGED <<mmuvars, cause, kernel, mem>>

LoadStore ==
  LET store == instr.op = "store"
      fault == Fault(instr.page, TRUE, store)
      frame == FrameOf(instr.page) IN
  /\ pc = "execute" /\ instr.op \in {"load", "store"}
  /\ V2p(instr.page, TRUE, store)
  /\ IF fault = "none"
       THEN /\ cpu' = Advanced(IF store THEN cpu ELSE [cpu EXCEPT !.reg = mem[frame]])
            /\ mem' = IF store THEN [mem EXCEPT ![frame] = cpu.reg] ELSE mem
            /\ Done /\ UNCHANGED cause
       ELSE Faulted(fault) /\ UNCHANGED <<cpu, mem>>
  /\ UNCHANGED kernel

Exception(c) ==
  /\ pc' = "isr" /\ cause' = c /\ instr' = NoInstr /\ refilled' = NoInstr
  /\ UNCHANGED <<mmuvars, cpu, kernel, mem>>

TrapInstr == pc = "execute" /\ instr.op = "trap" /\ Exception("trap")

\* The timer interrupts a task, or main, between two instructions.
Timer == pc \in {"fetch", "idle"} /\ Exception("timer")

-------------------------------------------------------------------------------
(* The kernel *)

\* Translations from the miss vector up to tbwr: 18 fetches (the vector's jump; userMiss
\* up to tbwr, where the assembler makes four instructions of the load of
\* currentPageDir, whose address does not fit into 16 bits) and 3 loads.
UP_TO_TBWR == 21
\* The same, with the two instructions behind tbwr.
USER_MISS == UP_TO_TBWR + 2

\* userMiss: load the faulting page's entry from the current page directory.
UserMiss ==
  LET entry == PageTable(currentPageDir, tlbEntryHi) IN
  /\ pc = "user miss" /\ tlbEntryHi \notin Outside
  /\ tlbEntryLo' = entry
  /\ tlb' = Written(Counted(UP_TO_TBWR), entry)
  /\ randomIndex' = Counted(USER_MISS)
  /\ pc' = "fetch" /\ refilled' = tlbEntryHi
  /\ UNCHANGED <<tlbIndex, tlbEntryHi, mmuBadAddr, cause, cpu, instr, kernel, mem>>

GoesAstray ==
  /\ pc' = "astray" /\ instr' = NoInstr /\ refilled' = NoInstr
  /\ UNCHANGED <<tlbIndex, cause, cpu, kernel, mem>>

\* userMiss, with an empty directory entry: the index into the page table that is not
\* there is an address in the task's page 0, and the word found there is taken for
\* the entry.
StrayWalk ==
  /\ pc = "user miss" /\ tlbEntryHi \in Outside /\ Mapped(Code)
  /\ \E entry \in Los :
       /\ tlbEntryLo' = entry
       /\ tlb' = Written(Counted(UP_TO_TBWR), entry)
  /\ randomIndex' = Counted(USER_MISS)
  /\ UNCHANGED <<tlbEntryHi, mmuBadAddr>>
  /\ GoesAstray

\* Page 0 is not in the TLB: the miss routine misses itself, which overwrites the
\* registers it works with and the task's resumption address.
StrayMiss ==
  /\ pc = "user miss" /\ tlbEntryHi \in Outside /\ ~Mapped(Code)
  /\ tlbEntryHi' = Code /\ BadAccess(Code)
  /\ KernelRuns
  /\ UNCHANGED <<tlb, tlbEntryLo>>
  /\ GoesAstray

\* What follows is up to the words of the task's memory, and no longer described.
Astray == pc = "astray" /\ UNCHANGED allvars

\* isr: save the registers on the current kernel stack.
Isr ==
  /\ pc = "isr"
  /\ saved' = [saved EXCEPT ![currentStkTop] = cpu]
  /\ pc' = "service"
  /\ KernelRuns
  /\ UNCHANGED <<tlb, tregs, mmuBadAddr, cause, cpu, instr, refilled,
                 currentTask, currentPageDir, currentStkTop, started, mem>>

\* trapISR: put out a character, skip the trap instruction.
TrapIsr ==
  /\ pc = "service" /\ cause = "trap"
  /\ saved' = [saved EXCEPT ![currentStkTop] = Advanced(@)]
  /\ pc' = "resume"
  /\ KernelRuns
  /\ UNCHANGED <<tlb, tregs, mmuBadAddr, cause, cpu, instr, refilled,
                 currentTask, currentPageDir, currentStkTop, started, mem>>

\* defaultISR: nothing but a message.
DefaultIsr ==
  /\ pc = "service" /\ cause = "fault"
  /\ pc' = "resume"
  /\ KernelRuns
  /\ UNCHANGED <<tlb, tregs, mmuBadAddr, cause, cpu, instr, refilled, kernel, mem>>

Invalid == [frame |-> ZeroFrame, write |-> FALSE, valid |-> FALSE]

\* (mutant) The last entry is not flushed.
FlushedAllButLast ==
  [i \in 0 .. TLB_MASK |-> IF i = TLB_MASK THEN tlb[i] ELSE Made(i, Invalid)]

\* (mutant) All entries get the same page.
FlushedAlike == [i \in 0 .. TLB_MASK |-> Made(0, Invalid)]

\* flushTLB: every entry gets a direct page of its own.
Flushed == [i \in 0 .. TLB_MASK |-> Made(i, Invalid)]

FlushTLB ==
  /\ tlb' = Flushed
  /\ tlbIndex' = TLB_MASK /\ tlbEntryHi' = TLB_MASK /\ tlbEntryLo' = Invalid
  /\ KernelRuns

NextTask == IF currentTask = 1 THEN 2 ELSE 1

\* (mutant) The page directory is left as it is when a running task is resumed.
KeptPageDir(t) == IF t \in started THEN currentPageDir ELSE t

PageDirOf(t) == t

\* timerISR: load and start the other task if it was not started, else switch to it.
TimerIsr ==
  LET t == NextTask IN
  /\ pc = "service" /\ cause = "timer"
  /\ currentTask' = t /\ currentPageDir' = PageDirOf(t) /\ currentStkTop' = t
  /\ FlushTLB
  /\ started' = started \cup {t}
  /\ IF t \in started
       THEN UNCHANGED <<mem, saved>>
       ELSE /\ mem' = [f \in DOMAIN mem |-> IF f[1] = t THEN Image[t][f[2]] ELSE mem[f]]
            /\ saved' = [saved EXCEPT ![t] = StartContext]
  /\ pc' = "resume"
  /\ UNCHANGED <<mmuBadAddr, cause, cpu, instr, refilled>>

\* resume: load the registers from the current kernel stack.
Resume ==
  /\ pc = "resume"
  /\ cpu' = saved[currentStkTop]
  /\ pc' = "fetch" /\ cause' = "none"
  /\ KernelRuns
  /\ UNCHANGED <<tlb, tregs, mmuBadAddr, instr, refilled, kernel, mem>>

-------------------------------------------------------------------------------
Cpu ==
  \/ Fetch \/ Compute \/ LoadStore \/ TrapInstr \/ UserMiss \/ StrayWalk \/ StrayMiss
  \/ Isr \/ TrapIsr \/ DefaultIsr \/ TimerIsr \/ Resume

ONext == Before \/ Boot \/ Timer \/ Cpu \/ Astray

\* The processor goes on; nobody has to start the system, and the timer need not
\* interrupt.
OSpec == OInit /\ [][ONext]_allvars /\ WF_allvars(Cpu)

-------------------------------------------------------------------------------
\* Safety: while a task runs, or is about to, no page is in the TLB twice (which
\* the manual calls an error), although entries are replaced at random and
\* nobody searches before writing (start.s:37-52, main.c:299, mmu.c:297).  The
\* entry with which a task goes astray is included, what it does then is not.
NoPageTwice ==
  currentTask # 0 =>
    \A i, j \in 0 .. TLB_MASK : i # j => tlb[i].page # tlb[j].page

\* Safety: until a task goes astray, the TLB has entries for pages of its two page
\* tables only, and they say what the page table of the task that runs next says,
\* whatever was in the TLB before (main.c:339-372).
TlbIsCurrent ==
  currentTask # 0 /\ pc # "astray" =>
    \A i \in 0 .. TLB_MASK :
      tlb[i].page \in UserPage =>
        /\ tlb[i].page \notin Outside
        /\ tlb[i] = Made(tlb[i].page, PageTable(currentTask, tlb[i].page))

Running(t) == t = currentTask /\ pc \in {"fetch", "execute", "user miss", "astray", "isr"}

\* A task's pages are in its frames, its registers in the processor while it runs
\* and on its kernel stack otherwise.
Memories ==
  [t \in Task |-> IF t \in started THEN [p \in TaskPage |-> mem[<<t, p>>]] ELSE Image[t]]
Contexts ==
  [t \in Task |-> IF Running(t) THEN cpu
                  ELSE IF t \in started THEN saved[t] ELSE StartContext]

Spaces == INSTANCE AddressSpaces WITH
  Readable <- TaskPage, Writable <- {Data}, Value <- Val, Start <- StartContext,
  space <- Memories, context <- Contexts

\* Refinement: until one of them goes astray, each task has a machine of its own, though
\* both share one processor, one TLB and one memory, and are interrupted at any
\* instruction.
ImplementsAddressSpaces == Spaces!Spec

\* Safety: the entry for the page of the instruction itself that its first refill has
\* just loaded is not the one that the refill for its operand is about to replace
\* (mmu.c:37, start.s:37, 134-138).
NoMutualEviction ==
  pc = "user miss" /\ refilled = FetchPage => tlb[Counted(UP_TO_TBWR)].page # FetchPage

\* Liveness: TLB misses alone cannot keep an instruction from being executed, though
\* its own page and its operand's may miss in turn.  One that makes its task go astray
\* is not counted as waiting.
InstructionsComplete == instr # NoInstr ~> instr = NoInstr
=============================================================================

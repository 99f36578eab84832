---------------------------------- MODULE Mmu ----------------------------------
(***************************************************************************)
(* The memory management unit, sim/mmu.c: the TLB, its access registers,   *)
(* address translation and the four TLB instructions.                      *)
(*                                                                         *)
(* Addresses are abstracted to pages; of a bad access its page is kept, not *)
(* its kind and width.  What a translated access finds in its frame is the *)
(* business of the modules MemSys (caches and memory) and TwoTasks.        *)
(***************************************************************************)
EXTENDS Integers

CONSTANTS
  TLB_SIZE,     \* entries (32)
  TLB_FIXED,    \* entries that are never chosen at random (4)
  UserPage,     \* mapped pages below 0x80000000
  SystemPage,   \* mapped pages from 0x80000000 to 0xBFFFFFFF
  Frame,        \* page frames
  IoFrame,      \* frames of the I/O address range
  DirectFrame,  \* DirectFrame[p]: the frame that direct page p denotes
  PowerOn       \* samples of the random state mmuReset leaves

TLB_MASK == TLB_SIZE - 1
NonFixed == TLB_FIXED .. TLB_MASK
\* As many of the pages from 0xC0000000 on as are ever named.
DirectPage == 0 .. TLB_MASK
Page == UserPage \cup SystemPage \cup DirectPage

Lo == [frame : Frame, write : BOOLEAN, valid : BOOLEAN]
Entry == [page : Page, frame : Frame, write : BOOLEAN, valid : BOOLEAN]
Tlb == [0 .. TLB_MASK -> Entry]
\* A failed search leaves 0x80000000, of which TLB_MASK keeps nothing.
NotFound == TLB_SIZE

ASSUME MmuAssumption ==
  /\ TLB_SIZE \in Nat /\ TLB_FIXED \in Nat /\ TLB_FIXED < TLB_SIZE
  /\ IoFrame \subseteq Frame
  /\ DirectFrame \in [DirectPage -> Frame]
  /\ UserPage \cap (SystemPage \cup DirectPage) = {} /\ SystemPage \cap DirectPage = {}
  /\ PowerOn \subseteq [tlb : Tlb, index : 0 .. TLB_MASK, hi : Page, lo : Lo, bad : Page]

VARIABLES
  tlb,          \* the entries
  tlbIndex, tlbEntryHi, tlbEntryLo,  \* the TLB access registers
  mmuBadAddr,   \* the page of the last bad access
  randomIndex   \* the entry that tbwr writes next

tregs == <<tlbIndex, tlbEntryHi, tlbEntryLo>>
mmuvars == <<tlb, tregs, mmuBadAddr, randomIndex>>

MmuTypeOK ==
  /\ tlb \in Tlb
  /\ tlbIndex \in 0 .. NotFound /\ tlbEntryHi \in Page /\ tlbEntryLo \in Lo
  /\ mmuBadAddr \in Page
  /\ randomIndex \in NonFixed

\* mmuInit calls mmuReset: everything but randomIndex is random.
MmuInit ==
  \E s \in PowerOn :
    /\ tlb = s.tlb
    /\ tlbIndex = s.index /\ tlbEntryHi = s.hi /\ tlbEntryLo = s.lo
    /\ mmuBadAddr = s.bad
    /\ randomIndex = TLB_MASK

MmuReset ==
  \E s \in PowerOn :
    /\ tlb' = s.tlb
    /\ tlbIndex' = s.index /\ tlbEntryHi' = s.hi /\ tlbEntryLo' = s.lo
    /\ mmuBadAddr' = s.bad
    /\ randomIndex' = TLB_MASK

-------------------------------------------------------------------------------
(* Translation *)

\* assoc: the last entry for page p.
Mapped(p) == \E i \in 0 .. TLB_MASK : tlb[i].page = p
Assoc(p) == CHOOSE i \in 0 .. TLB_MASK :
  tlb[i].page = p /\ \A j \in i + 1 .. TLB_MASK : tlb[j].page # p

\* (mutant) Only translations that use the TLB move the index.
CountedIfMapped(n) ==
  IF n > 1 THEN randomIndex
  ELSE TLB_FIXED + ((randomIndex - TLB_FIXED - n) % (TLB_SIZE - TLB_FIXED))

\* (mutant) Nothing moves the index.
CountedNever(n) == randomIndex

\* The random index after n calls of updateRandomIndex.
Counted(n) == TLB_FIXED + ((randomIndex - TLB_FIXED - n) % (TLB_SIZE - TLB_FIXED))

\* v2p's verdict on an access to page p
Fault(p, user, write) ==
  IF user /\ p \notin UserPage THEN "privileged"
  ELSE IF p \in DirectPage THEN "none"
  ELSE IF ~Mapped(p) THEN "miss"
  ELSE IF ~tlb[Assoc(p)].valid THEN "invalid"
  ELSE IF write /\ ~tlb[Assoc(p)].write THEN "write"
  ELSE "none"

FrameOf(p) == IF p \in DirectPage THEN DirectFrame[p] ELSE tlb[Assoc(p)].frame

BadAccess(p) == mmuBadAddr' = p

\* v2p: every translation but a privileged one moves the random index; a fault of
\* the TLB also loads EntryHi.
V2p(p, user, write) ==
  LET fault == Fault(p, user, write) IN
  /\ randomIndex' = IF fault = "privileged" THEN randomIndex ELSE Counted(1)
  /\ tlbEntryHi' = IF fault \in {"miss", "invalid", "write"} THEN p ELSE tlbEntryHi
  /\ IF fault = "none" THEN UNCHANGED mmuBadAddr ELSE BadAccess(p)
  /\ UNCHANGED <<tlb, tlbIndex, tlbEntryLo>>

\* mmuFetchInstr, mmuRead..., mmuWrite... of an address that is not aligned
Misaligned(p) == BadAccess(p) /\ UNCHANGED <<tlb, tregs, randomIndex>>

\* mmuFetchInstr does not fetch from I/O addresses.
FetchFromIo(p, user) ==
  /\ Fault(p, user, FALSE) = "none" /\ FrameOf(p) \in IoFrame
  /\ BadAccess(p)
  /\ randomIndex' = Counted(1)
  /\ UNCHANGED <<tlb, tregs>>

-------------------------------------------------------------------------------
(* TLB instructions, mvts, and the console's "t" command *)

Made(hi, lo) == [page |-> hi, frame |-> lo.frame, write |-> lo.write, valid |-> lo.valid]

Tbs ==
  /\ tlbIndex' = IF Mapped(tlbEntryHi) THEN Assoc(tlbEntryHi) ELSE NotFound
  /\ UNCHANGED <<tlb, tlbEntryHi, tlbEntryLo, mmuBadAddr, randomIndex>>

Written(i, lo) == [tlb EXCEPT ![i] = Made(tlbEntryHi, lo)]

Tbwr ==
  /\ tlb' = Written(randomIndex, tlbEntryLo)
  /\ UNCHANGED <<tregs, mmuBadAddr, randomIndex>>

Tbri ==
  LET e == tlb[tlbIndex % TLB_SIZE] IN
  /\ tlbEntryHi' = e.page
  /\ tlbEntryLo' = [frame |-> e.frame, write |-> e.write, valid |-> e.valid]
  /\ UNCHANGED <<tlb, tlbIndex, mmuBadAddr, randomIndex>>

Tbwi ==
  /\ tlb' = Written(tlbIndex % TLB_SIZE, tlbEntryLo)
  /\ UNCHANGED <<tregs, mmuBadAddr, randomIndex>>

\* mmuSetIndex keeps the bits of TLB_MASK.
SetIndex(i) ==
  /\ tlbIndex' = i % TLB_SIZE
  /\ UNCHANGED <<tlb, tlbEntryHi, tlbEntryLo, mmuBadAddr, randomIndex>>

SetEntryHi(p) == tlbEntryHi' = p /\ UNCHANGED <<tlb, tlbIndex, tlbEntryLo, mmuBadAddr, randomIndex>>

SetEntryLo(l) == tlbEntryLo' = l /\ UNCHANGED <<tlb, tlbIndex, tlbEntryHi, mmuBadAddr, randomIndex>>

SetBadAddr(p) == mmuBadAddr' = p /\ UNCHANGED <<tlb, tregs, randomIndex>>

\* mmuSetTLB
ConsoleSets(i, e) == tlb' = [tlb EXCEPT ![i] = e] /\ UNCHANGED <<tregs, mmuBadAddr, randomIndex>>
=============================================================================

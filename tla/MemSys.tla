-------------------------------- MODULE MemSys --------------------------------
(***************************************************************************)
(* The two caches over one memory, as the CPU uses them (sim/mmu.c after   *)
(* address translation, sim/cpu.c OP_CCTL): instructions are fetched       *)
(* through the instruction cache, data goes through the data cache, and    *)
(* nothing but the instruction cctl keeps the two coherent.                *)
(***************************************************************************)
EXTENDS DCache, ICache

VARIABLE
  unsynced      \* history: blocks stored to since the caches were synchronised

mvars == <<dvars, ivars, unsynced>>

MTypeOK == DTypeOK /\ ITypeOK /\ unsynced \subseteq Block

-------------------------------------------------------------------------------
\* mmuFetchInstr
FetchInstr(b, a) ==
  /\ Fetch(b, a)
  /\ UNCHANGED <<dvars, unsynced>>

\* mmuReadWord, mmuReadHalf, mmuReadByte
ReadData(b, a) ==
  /\ Read(b, a)
  /\ UNCHANGED <<ivars, unsynced>>

\* mmuWriteWord, mmuWriteHalf, mmuWriteByte.  A store that throws stores nothing.
WriteData(b, v) ==
  /\ Write(b, v)
  /\ unsynced' = IF outcome' = BusTimeout THEN unsynced ELSE unsynced \cup {b}
  /\ UNCHANGED ivars

\* (mutant) cctl leaves the instruction cache alone when it flushes.
CctlForgetsICache(icache, dcache, flush) ==
  /\ IF icache /\ ~dcache THEN IInvalidate ELSE UNCHANGED ivars
  /\ IF dcache
       THEN IF flush THEN Flush ELSE Invalidate
       ELSE UNCHANGED <<memory, line, lru>> /\ outcome' = Returned(Nothing)
  /\ unsynced' = IF icache /\ dcache /\ outcome' # BusTimeout THEN {} ELSE unsynced

\* cctl with bits 2 (icache), 1 (dcache) and 0 (flush).  A flush that throws
\* ends the instruction with the instruction cache already invalidated.
Cctl(icache, dcache, flush) ==
  /\ IF icache THEN IInvalidate ELSE UNCHANGED ivars
  /\ IF dcache
       THEN IF flush THEN Flush ELSE Invalidate
       ELSE UNCHANGED <<memory, line, lru>> /\ outcome' = Returned(Nothing)
  /\ unsynced' = IF icache /\ dcache /\ outcome' # BusTimeout THEN {} ELSE unsynced

\* The console's "i" command resets RAM and ROM, then both caches.
ResetAll ==
  /\ Reset
  /\ IInvalidate
  /\ unsynced' = {}

MInit == DInit /\ IInit /\ unsynced = {}

MNext ==
  \/ \E b \in Block, a \in Access :
       \/ FetchInstr(b, a)
       \/ ReadData(b, a)
       \/ \E v \in [a -> Val] : WriteData(b, v)
  \/ \E icache, dcache, flush \in BOOLEAN : Cctl(icache, dcache, flush)
  \/ ResetAll

MSpec == MInit /\ [][MNext]_mvars

-------------------------------------------------------------------------------
\* Safety: an instruction fetch sees every store that a completed cctl 7 (or
\* cctl 6) came after; doc/caches: "Synchronizing instruction and data caches
\* can thus be accomplished by cctl 7".  Only blocks stored to since may differ.
FetchSeesStores ==
  \A b \in Backed \ unsynced : IView[b] = View[b]
=============================================================================

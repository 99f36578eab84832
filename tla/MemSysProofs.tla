----------------------------- MODULE MemSysProofs -----------------------------
(***************************************************************************)
(* Proofs about the caches, for every geometry, memory map and value set.  *)
(* First the data cache by itself: type correctness, the three invariants  *)
(* that make write-back replacement safe, and that it implements a         *)
(* buffered memory.  Then the two caches over one memory: instructions     *)
(* fetched are the ones stored, once the caches were synchronised; there   *)
(* the data cache is used only through what was shown of it.               *)
(***************************************************************************)
EXTENDS MemSys, TLAPS

\* The arguments a store or (with v = Nothing) a load passes to DAccess.
Arg(a, v) ==
  /\ a \in Access \cup {{}}
  /\ \/ v = Nothing
     \/ \E s \in Access : v \in [s -> Val]

DInv == DTypeOK /\ NoDuplicates /\ CleanLinesMatchMemory /\ OnlyBackedCached

-------------------------------------------------------------------------------
(* Lemmas about the operators *)

LEMMA BlockParts ==
  ASSUME NEW b \in Block
  PROVE  b[1] \in Tag /\ b[2] \in Index /\ b = <<b[1], b[2]>>
BY DCacheAssumption DEF Index

LEMMA WrittenLine ==
  ASSUME NEW l \in CacheLine, NEW a, NEW v, Arg(a, v)
  PROVE  /\ Written(l, v) \in CacheLine
         /\ Written(l, v).valid = l.valid
         /\ Written(l, v).tag = l.tag
         /\ ~Written(l, v).dirty => ~l.dirty /\ Written(l, v).data = l.data
<1>1. DOMAIN v \subseteq Offset /\ \A o \in DOMAIN v : v[o] \in Val
  BY PhysMemAssumption DEF Arg, Nothing
<1>2. [o \in Offset |-> IF o \in DOMAIN v THEN v[o] ELSE l.data[o]] \in Line
  BY <1>1 DEF Line, CacheLine
<1>3. DOMAIN v = {} =>
        [o \in Offset |-> IF o \in DOMAIN v THEN v[o] ELSE l.data[o]] = l.data
  BY DEF Line, CacheLine
<1>. QED
  BY <1>2, <1>3 DEF Written, CacheLine

LEMMA SelectOutcome ==
  ASSUME NEW d \in Line, NEW a \in Access \cup {{}}
  PROVE  Select(d, a) \in Outcome
<1>1. [o \in a |-> d[o]] \in [a -> Val]
  BY PhysMemAssumption DEF Line
<1>. QED
  BY <1>1 DEF Select, Outcome

LEMMA WayForWay ==
  ASSUME DTypeOK, NEW b \in Block
  PROVE  /\ WayFor(b) \in Way
         /\ 1 - WayFor(b) \in {0, 1}
         /\ Hit(b) => WayFor(b) \in HitWays(b)
<1>1. CASE Hit(b)
  <2>1. PICK x \in HitWays(b) : TRUE
    BY <1>1 DEF Hit
  <2>2. HitWays(b) \subseteq {0, 1}
    BY DCacheAssumption DEF HitWays, Way
  <2>3. \E w \in HitWays(b) : \A y \in HitWays(b) : w <= y
    BY <2>1, <2>2
  <2>4. WayFor(b) \in HitWays(b)
    BY <1>1, <2>3 DEF WayFor
  <2>. QED
    BY <2>4, DCacheAssumption DEF HitWays, Way
<1>2. CASE ~Hit(b)
  BY <1>2, DCacheAssumption, BlockParts DEF WayFor, Way, DTypeOK
<1>. QED
  BY <1>1, <1>2

LEMMA HitLine ==
  ASSUME NEW b \in Block, NEW w \in HitWays(b)
  PROVE  w \in Way /\ line[b[2]][w].valid /\ BlockAt(b[2], w) = b
BY BlockParts DEF HitWays, BlockAt

LEMMA MissLine ==
  ASSUME NEW b \in Block, ~Hit(b), NEW w \in Way, line[b[2]][w].valid
  PROVE  line[b[2]][w].tag # b[1]
BY DEF Hit, HitWays

-------------------------------------------------------------------------------
(* Each call preserves the invariant *)

LEMMA InitInv == DInit => DInv
<1>1. Nothing \in [{} -> Val]
  BY DEF Nothing
<1>2. Returned(Nothing) \in Outcome
  BY <1>1 DEF Outcome
<1>. QED
  BY <1>2 DEF DInit, MemInit, DInv, DTypeOK, MemTypeOK, NoDuplicates,
              CleanLinesMatchMemory, OnlyBackedCached

LEMMA HitInv ==
  ASSUME DInv, NEW b \in Block, NEW a, NEW v, Arg(a, v), AccessHit(b, a, v)
  PROVE  DInv'
<1>. DEFINE i == b[2]
            w == WayFor(b)
            l == Written(line[i][w], v)
<1>1. i \in Index /\ w \in Way /\ 1 - w \in {0, 1} /\ line[i][w].valid
  BY BlockParts, WayForWay, HitLine DEF DInv, AccessHit
<1>2. line[i][w] \in CacheLine
  BY <1>1 DEF DInv, DTypeOK
<1>3. /\ l \in CacheLine
      /\ l.valid = line[i][w].valid
      /\ l.tag = line[i][w].tag
      /\ ~l.dirty => ~line[i][w].dirty /\ l.data = line[i][w].data
  BY <1>2, WrittenLine
<1>4. line' = [line EXCEPT ![i][w] = l] /\ memory' = memory
  BY DEF AccessHit
<1>5. DTypeOK'
  <2>1. line[i][w].data \in Line
    BY <1>2 DEF CacheLine
  <2>2. outcome' \in Outcome
    BY <2>1, SelectOutcome DEF AccessHit, Arg
  <2>. QED
    BY <1>1, <1>3, <1>4, <2>2 DEF AccessHit, DInv, DTypeOK, MemTypeOK
<1>6. /\ \A j \in Index, x \in Way :
           /\ line'[j][x].valid = line[j][x].valid
           /\ line'[j][x].tag = line[j][x].tag
           /\ ~line'[j][x].dirty =>
                ~line[j][x].dirty /\ line'[j][x].data = line[j][x].data
  BY <1>1, <1>3, <1>4 DEF DInv, DTypeOK
<1>7. NoDuplicates'
  BY <1>6 DEF DInv, NoDuplicates
<1>8. CleanLinesMatchMemory'
  BY <1>4, <1>6 DEF DInv, CleanLinesMatchMemory, BlockAt
<1>9. OnlyBackedCached'
  BY <1>6 DEF DInv, OnlyBackedCached, BlockAt
<1>. QED
  BY <1>5, <1>7, <1>8, <1>9 DEF DInv

LEMMA EvictFailsInv ==
  ASSUME DInv, NEW b \in Block, EvictFails(b)
  PROVE  DInv'
<1>1. b[2] \in Index /\ 1 - WayFor(b) \in {0, 1}
  BY BlockParts, WayForWay DEF DInv
<1>2. BusTimeout \in Outcome
  BY DEF Outcome
<1>3. DTypeOK'
  BY <1>1, <1>2 DEF EvictFails, DInv, DTypeOK, MemTypeOK
<1>. QED
  BY <1>3 DEF EvictFails, DInv, NoDuplicates, CleanLinesMatchMemory,
              OnlyBackedCached, BlockAt

\* Writing the victim back leaves memory well typed, and agreeing with every
\* clean line: no other line holds the victim's block.
LEMMA WriteBackMemory ==
  ASSUME DInv, NEW i \in Index, NEW w \in Way,
         NeedsWriteBack(i, w) => BlockAt(i, w) \in Ram
  PROVE  /\ WrittenBack(i, w) \in [Backed -> Line]
         /\ \A j \in Index, x \in Way :
              line[j][x].valid /\ ~line[j][x].dirty
                => line[j][x].data = WrittenBack(i, w)[BlockAt(j, x)]
<1>1. line[i][w].data \in Line
  BY DEF DInv, DTypeOK, CacheLine
<1>2. WrittenBack(i, w) \in [Backed -> Line]
  BY <1>1 DEF WrittenBack, DInv, DTypeOK, MemTypeOK
<1>3. ASSUME NEW j \in Index, NEW x \in Way,
             line[j][x].valid, ~line[j][x].dirty, NeedsWriteBack(i, w)
      PROVE  BlockAt(j, x) # BlockAt(i, w)
  BY <1>3 DEF DInv, NoDuplicates, NeedsWriteBack, BlockAt
<1>4. ASSUME NEW j \in Index, NEW x \in Way,
             line[j][x].valid, ~line[j][x].dirty
      PROVE  line[j][x].data = WrittenBack(i, w)[BlockAt(j, x)]
  BY <1>3, <1>4 DEF DInv, DTypeOK, MemTypeOK, CleanLinesMatchMemory,
                    OnlyBackedCached, WrittenBack, Backed
<1>. QED
  BY <1>2, <1>4

LEMMA MissInv ==
  ASSUME DInv, NEW b \in Block, NEW a, NEW v, Arg(a, v), AccessMiss(b, a, v)
  PROVE  DInv'
<1>. DEFINE i == b[2]
            w == WayFor(b)
<1>1. i \in Index /\ w \in Way /\ 1 - w \in {0, 1}
  BY BlockParts, WayForWay DEF DInv
<1>2. /\ memory' \in [Backed -> Line]
      /\ \A j \in Index, x \in Way :
           line[j][x].valid /\ ~line[j][x].dirty
             => line[j][x].data = memory'[BlockAt(j, x)]
  <2>1. /\ NeedsWriteBack(i, w) => BlockAt(i, w) \in Ram
        /\ memory' = WrittenBack(i, w)
    BY DEF AccessMiss
  <2>. HIDE DEF i, w
  <2>. QED
    BY <1>1, <2>1, WriteBackMemory
<1>3. CASE b \notin Backed
  <2>1. line' = line /\ outcome' = BusTimeout
    BY <1>3 DEF AccessMiss
  <2>2. DTypeOK'
    BY <1>1, <1>2, <2>1 DEF AccessMiss, DInv, DTypeOK, MemTypeOK, Outcome
  <2>. QED
    BY <1>2, <2>1, <2>2 DEF DInv, NoDuplicates, CleanLinesMatchMemory,
                            OnlyBackedCached, BlockAt
<1>4. CASE b \in Backed
  <2>. DEFINE n == [valid |-> TRUE, dirty |-> FALSE,
                    tag |-> b[1], data |-> memory'[b]]
              l == Written(n, v)
  <2>1. n \in CacheLine /\ memory'[b] \in Line
    BY <1>2, <1>4, BlockParts DEF CacheLine
  <2>2. /\ l \in CacheLine
        /\ l.valid
        /\ l.tag = b[1]
        /\ ~l.dirty => l.data = memory'[b]
    BY <2>1, WrittenLine
  <2>3. /\ line' = [line EXCEPT ![i][w] = l]
        /\ outcome' = Select(memory'[b], a)
        /\ lru' = [lru EXCEPT ![i] = 1 - w]
        /\ ~Hit(b)
    BY <1>4 DEF AccessMiss
  <2>. HIDE DEF l, n
  <2>4. DTypeOK'
    <3>1. outcome' \in Outcome
      BY <2>1, <2>3, SelectOutcome DEF Arg
    <3>. QED
      BY <1>1, <1>2, <2>2, <2>3, <3>1 DEF DInv, DTypeOK, MemTypeOK
  <2>5. /\ line'[i][w] = l
        /\ \A j \in Index, x \in Way :
             j # i \/ x # w => line'[j][x] = line[j][x]
    BY <1>1, <2>3 DEF DInv, DTypeOK
  <2>6. NoDuplicates'
    <3>1. SUFFICES ASSUME NEW j \in Index, NEW x \in Way, NEW y \in Way, x # y,
                          line'[j][x].valid, line'[j][y].valid
                   PROVE  line'[j][x].tag # line'[j][y].tag
      BY DEF NoDuplicates
    <3>2. CASE j # i
      BY <2>5, <3>1, <3>2 DEF DInv, NoDuplicates
    <3>3. CASE j = i
      BY <2>2, <2>3, <2>5, <3>1, <3>3, MissLine DEF DInv, NoDuplicates
    <3>. QED
      BY <3>2, <3>3
  <2>7. CleanLinesMatchMemory'
    BY <1>1, <1>2, <2>2, <2>5, BlockParts DEF CleanLinesMatchMemory, BlockAt
  <2>8. OnlyBackedCached'
    BY <1>1, <1>4, <2>2, <2>5, BlockParts DEF DInv, OnlyBackedCached, BlockAt,
                                                  Backed
  <2>. QED
    BY <2>4, <2>6, <2>7, <2>8 DEF DInv
<1>. QED
  BY <1>3, <1>4

\* A flush writes every line it reaches back to the block the line holds.
LEMMA FlushedMemory ==
  ASSUME DInv, Flush
  PROVE  /\ memory' \in [Backed -> Line]
         /\ \A i \in Index, w \in Way :
              line[i][w].valid /\ ~line'[i][w].dirty
                => line[i][w].data = memory'[BlockAt(i, w)]
<1>. DEFINE From(b) == {w \in Way : BlockAt(b[2], w) = b /\ Flushed(b[2], w)}
            pick(b) == CHOOSE w \in Way :
                         BlockAt(b[2], w) = b /\ Flushed(b[2], w)
<1>1. ASSUME NEW b \in Backed, From(b) # {}
      PROVE  pick(b) \in From(b)
  BY <1>1
<1>2. ASSUME NEW b \in Backed
      PROVE  b \in Block /\ b[2] \in Index
  BY <1>2, PhysMemAssumption, BlockParts DEF Backed
<1>3. memory' = [b \in Backed |->
                  IF From(b) # {} THEN line[b[2]][pick(b)].data ELSE memory[b]]
  BY DEF Flush
<1>4. memory' \in [Backed -> Line]
  BY <1>1, <1>2, <1>3 DEF DInv, DTypeOK, MemTypeOK, CacheLine
<1>5. ASSUME NEW i \in Index, NEW w \in Way,
             line[i][w].valid, ~line'[i][w].dirty
      PROVE  line[i][w].data = memory'[BlockAt(i, w)]
  <2>. DEFINE b == BlockAt(i, w)
  <2>1. b \in Backed /\ b[2] = i
    BY <1>5 DEF DInv, OnlyBackedCached, BlockAt, Backed
  <2>2. \A x \in From(b) : x = w
    BY <1>5, <2>1 DEF DInv, NoDuplicates, BlockAt, Flushed, NeedsWriteBack
  <2>3. CASE Flushed(i, w)
    BY <1>1, <1>3, <2>1, <2>2, <2>3
  <2>4. CASE ~Flushed(i, w)
    <3>1. ~line[i][w].dirty
      BY <1>5, <2>4 DEF Flush, DInv, DTypeOK, CacheLine
    <3>2. From(b) = {}
      BY <2>1, <2>2, <2>4
    <3>. QED
      BY <1>3, <1>5, <2>1, <3>1, <3>2 DEF DInv, CleanLinesMatchMemory
  <2>. QED
    BY <2>3, <2>4
<1>. QED
  BY <1>4, <1>5

LEMMA FlushInv ==
  ASSUME DInv, Flush
  PROVE  DInv'
<1>1. ASSUME NEW i \in Index, NEW w \in Way
      PROVE  /\ line'[i][w] \in CacheLine
             /\ line'[i][w].valid = line[i][w].valid
             /\ line'[i][w].tag = line[i][w].tag
             /\ line'[i][w].data = line[i][w].data
  <2>1. line[i][w] \in CacheLine
    BY DEF DInv, DTypeOK
  <2>2. line'[i][w] = [line[i][w] EXCEPT !.dirty = @ /\ ~Flushed(i, w)]
    BY DEF Flush
  <2>. QED
    BY <2>1, <2>2 DEF CacheLine
<1>2. line' \in [Index -> [Way -> CacheLine]]
  BY <1>1 DEF Flush
<1>3. Nothing \in [{} -> Val]
  BY DEF Nothing
<1>4. outcome' \in Outcome
  BY <1>3 DEF Flush, Outcome
<1>5. DTypeOK'
  BY <1>2, <1>4, FlushedMemory DEF Flush, DInv, DTypeOK, MemTypeOK
<1>. QED
  BY <1>1, <1>5, FlushedMemory DEF DInv, NoDuplicates, CleanLinesMatchMemory,
                                   OnlyBackedCached, BlockAt

\* After an invalidate or a reset no line is valid.
LEMMA DropInv ==
  ASSUME DInv, Invalidate \/ Reset
  PROVE  DInv'
<1>1. ASSUME NEW i \in Index, NEW w \in Way
      PROVE  line'[i][w] \in CacheLine /\ ~line'[i][w].valid
  <2>1. line[i][w] \in CacheLine
    BY DEF DInv, DTypeOK
  <2>2. InvalidateLines
    BY DEF Invalidate, Reset
  <2>3. line'[i][w] = [line[i][w] EXCEPT !.valid = FALSE]
    BY <2>2 DEF InvalidateLines
  <2>. QED
    BY <2>1, <2>3 DEF CacheLine
<1>2. line' \in [Index -> [Way -> CacheLine]]
  BY <1>1 DEF Invalidate, Reset, InvalidateLines
<1>3. memory' \in [Backed -> Line]
  BY DEF Invalidate, Reset, MemReset, DInv, DTypeOK, MemTypeOK, Backed
<1>4. Nothing \in [{} -> Val]
  BY DEF Nothing
<1>5. outcome' \in Outcome /\ lru' \in [Index -> {0, 1}]
  BY <1>4 DEF Invalidate, Reset, InvalidateLines, Outcome
<1>. QED
  BY <1>1, <1>2, <1>3, <1>5 DEF DInv, DTypeOK, MemTypeOK, NoDuplicates,
                            CleanLinesMatchMemory, OnlyBackedCached

LEMMA StepInv == DInv /\ [DNext]_dvars => DInv'
<1>. SUFFICES ASSUME DInv, [DNext]_dvars
              PROVE  DInv'
  OBVIOUS
<1>1. ASSUME NEW b \in Block, NEW a, NEW v, Arg(a, v), DAccess(b, a, v)
      PROVE  DInv'
  BY <1>1, HitInv, EvictFailsInv, MissInv DEF DAccess
<1>2. CASE \E b \in Block, a \in Access : Read(b, a)
  BY <1>1, <1>2 DEF Read, Arg
<1>3. CASE \E b \in Block, a \in Access : \E v \in [a -> Val] : Write(b, v)
  BY <1>1, <1>3 DEF Write, Arg
<1>4. CASE Flush
  BY <1>4, FlushInv
<1>5. CASE Invalidate \/ Reset
  BY <1>5, DropInv
<1>6. CASE UNCHANGED dvars
  BY <1>6 DEF dvars, DInv, DTypeOK, MemTypeOK, NoDuplicates,
              CleanLinesMatchMemory, OnlyBackedCached, BlockAt
<1>. QED
  BY <1>2, <1>3, <1>4, <1>5, <1>6 DEF DNext

LEMMA DCacheInvariant == DSpec => []DInv
BY InitInv, StepInv, PTL DEF DSpec

-------------------------------------------------------------------------------
\* Every reachable state of the data cache is well typed (getWordPtr never uses
\* a line a direct-mapped cache does not have).
THEOREM DTypeCorrect == DSpec => []DTypeOK
BY DCacheInvariant, PTL DEF DInv

\* No block is ever in two lines of its set.
THEOREM NeverTwoCopies == DSpec => []NoDuplicates
BY DCacheInvariant, PTL DEF DInv

\* A line that replacement drops without write-back equals memory.
THEOREM CleanLinesCanBeDropped == DSpec => []CleanLinesMatchMemory
BY DCacheInvariant, PTL DEF DInv

\* A refill that throws leaves no line for the block that does not exist.
THEOREM NothingCachedFromHoles == DSpec => []OnlyBackedCached
BY DCacheInvariant, PTL DEF DInv

-------------------------------------------------------------------------------
(* The cache is a buffered memory *)

\* What a load sees: the line that holds the block, if there is one.
ViewInv ==
  /\ DOMAIN View = Backed
  /\ \A b \in Backed :
       /\ HitWays(b) = {} => View[b] = memory[b]
       /\ \A w \in HitWays(b) : View[b] = line[b[2]][w].data /\ HitWays(b) = {w}

LEMMA OneHit ==
  ASSUME DInv, NEW b \in Block, NEW w \in HitWays(b)
  PROVE  HitWays(b) = {w}
BY BlockParts DEF DInv, NoDuplicates, HitWays

LEMMA ViewOfLine == DInv => ViewInv
<1>. SUFFICES ASSUME DInv, NEW b \in Backed
              PROVE  /\ HitWays(b) = {} => View[b] = memory[b]
                     /\ \A w \in HitWays(b) : View[b] = line[b[2]][w].data /\ HitWays(b) = {w}
  BY DEF ViewInv, View
<1>1. b \in Block
  BY PhysMemAssumption DEF Backed
<1>2. View[b] = Seen(b, HitWays(b))
  BY DEF View
<1>3. ASSUME NEW w \in HitWays(b)
      PROVE  View[b] = line[b[2]][w].data /\ HitWays(b) = {w}
  <2>1. HitWays(b) = {w}
    BY <1>1, OneHit
  <2>2. (CHOOSE x \in HitWays(b) : TRUE) = w
    BY <2>1
  <2>. QED
    BY <1>2, <2>1, <2>2 DEF Seen
<1>. QED
  BY <1>2, <1>3 DEF Seen

LEMMA ViewOfNextLine == DInv' => ViewInv'
BY ViewOfLine, PTL

LEMMA ViewTypes ==
  ASSUME DInv, NEW b \in Backed
  PROVE  View[b] \in Line
<1>1. b \in Block /\ b[2] \in Index
  BY PhysMemAssumption, BlockParts DEF Backed
<1>2. HitWays(b) = {} \/ \E w \in HitWays(b) : TRUE
  OBVIOUS
<1>3. memory[b] \in Line /\ \A w \in HitWays(b) : line[b[2]][w].data \in Line
  BY <1>1 DEF DInv, DTypeOK, MemTypeOK, CacheLine, HitWays
<1>. QED
  BY <1>2, <1>3, ViewOfLine DEF ViewInv

\* Two views are equal if they agree on every block.
LEMMA SameView ==
  ASSUME ViewInv, ViewInv', \A b \in Backed : View'[b] = View[b]
  PROVE  View' = View
BY DEF ViewInv, View

LEMMA NothingWritten ==
  ASSUME NEW l \in CacheLine
  PROVE  Written(l, Nothing) = l
<1>1. DOMAIN Nothing = {}
  BY DEF Nothing
<1>2. [o \in Offset |-> IF o \in DOMAIN Nothing THEN Nothing[o] ELSE l.data[o]] = l.data
  BY <1>1 DEF CacheLine, Line
<1>. QED
  BY <1>1, <1>2 DEF Written, CacheLine

LEMMA InitBuffered == DInit => Buffered!Init
<1>. SUFFICES ASSUME DInit PROVE Buffered!Init
  OBVIOUS
<1>1. ViewInv
  BY InitInv, ViewOfLine
<1>2. \A b \in Backed : HitWays(b) = {}
  BY BlockParts, PhysMemAssumption DEF DInit, HitWays, Backed
<1>3. memory \in [Backed -> [Offset -> Val]]
  BY DEF DInit, MemInit, Line
<1>4. View = [b \in Backed |-> memory[b]]
  BY <1>1, <1>2 DEF ViewInv, View
<1>5. View = memory
  BY <1>3, <1>4
<1>6. RomStores = {}
  BY BlockParts, PhysMemAssumption DEF DInit, RomStores, NeedsWriteBack
<1>. QED
  BY <1>3, <1>5, <1>6
     DEF DInit, Buffered!Init, Backed, Buffered!Backed, Returned, Buffered!Returned,
         Nothing, Buffered!Nothing

\* The backing store does not move, or catches up with one RAM block.
LEMMA NotCaughtUp ==
  ASSUME DInv, UNCHANGED memory
  PROVE  Buffered!CatchupWithOne
<1>1. memory = [b \in Backed |-> memory[b]]
  BY DEF DInv, DTypeOK, MemTypeOK
<1>2. Buffered!Catchup({})
  BY <1>1 DEF Buffered!Catchup, Buffered!Backed, Backed
<1>. QED
  BY <1>2 DEF Buffered!CatchupWithOne

LEMMA CaughtUp ==
  ASSUME DInv, NEW i \in Index, NEW w \in Way, memory' = WrittenBack(i, w),
         NeedsWriteBack(i, w) => BlockAt(i, w) \in Ram
  PROVE  Buffered!CatchupWithOne
<1>1. CASE ~NeedsWriteBack(i, w)
  BY <1>1, NotCaughtUp DEF WrittenBack
<1>2. CASE NeedsWriteBack(i, w)
  <2>. DEFINE e == BlockAt(i, w)
  <2>1. e \in Ram /\ e \in Backed /\ e[2] = i /\ w \in HitWays(e)
    BY <1>2 DEF NeedsWriteBack, HitWays, BlockAt, Backed
  <2>2. View[e] = line[i][w].data
    BY <2>1, ViewOfLine DEF ViewInv
  <2>. HIDE DEF e
  <2>3. memory' = [memory EXCEPT ![e] = View[e]]
    BY <1>2, <2>2 DEF WrittenBack, e
  <2>4. memory' = [b \in Backed |-> IF b \in {e} THEN View[b] ELSE memory[b]]
    BY <2>1, <2>3 DEF DInv, DTypeOK, MemTypeOK
  <2>5. Buffered!Catchup({e})
    BY <2>1, <2>4 DEF Buffered!Catchup, Buffered!Backed, Backed
  <2>. QED
    BY <2>1, <2>5 DEF Buffered!CatchupWithOne
<1>. QED
  BY <1>1, <1>2

\* A store that ROM cannot take back is pending.
LEMMA StuckStore ==
  ASSUME DInv, NEW i \in Index, NEW w \in Way, CannotFlush(i, w)
  PROVE  BlockAt(i, w) \in RomStores
<1>1. BlockAt(i, w) \in Rom /\ BlockAt(i, w)[2] = i
  BY DEF CannotFlush, NeedsWriteBack, DInv, OnlyBackedCached, BlockAt
<1>. QED
  BY <1>1 DEF RomStores, CannotFlush

LEMMA EvictFailsBuffered ==
  ASSUME DInv, NEW b \in Block, EvictFails(b)
  PROVE  Buffered!Fail(b)
<1>1. b[2] \in Index /\ WayFor(b) \in Way
  BY BlockParts, WayForWay DEF DInv
<1>2. CannotFlush(b[2], WayFor(b))
  BY DEF EvictFails, CannotFlush
<1>3. RomStores # {}
  BY <1>1, <1>2, StuckStore
<1>4. UNCHANGED <<memory, line>> /\ outcome' = BusTimeout
  BY DEF EvictFails
<1>5. UNCHANGED View /\ UNCHANGED RomStores
  BY <1>4 DEF View, Seen, HitWays, RomStores, NeedsWriteBack, BlockAt
<1>. QED
  BY <1>3, <1>4, <1>5, NotCaughtUp
     DEF Buffered!Fail, BusTimeout, Nothing, Buffered!BusTimeout, Buffered!Nothing

\* What an access does to its line is all it does to the view.
LEMMA ViewAfterAccess ==
  ASSUME DInv, DInv', NEW b \in Backed, NEW w \in Way, NEW d \in Line,
         line'[b[2]][w].valid, line'[b[2]][w].tag = b[1], line'[b[2]][w].data = d,
         \A c \in Backed : c # b => View'[c] = View[c]
  PROVE  View' = [View EXCEPT ![b] = d]
<1>1. ViewInv /\ ViewInv'
  BY ViewOfLine, ViewOfNextLine
<1>2. (w \in HitWays(b))'
  BY DEF HitWays
<1>3. View'[b] = d
  BY <1>1, <1>2 DEF ViewInv
<1>4. View' = [c \in Backed |-> View'[c]] /\ View = [c \in Backed |-> View[c]]
  BY DEF View
<1>. QED
  BY <1>3, <1>4

LEMMA HitBuffered ==
  ASSUME DInv, DInv', NEW b \in Block, NEW a, NEW v, Arg(a, v), AccessHit(b, a, v)
  PROVE  /\ b \in Backed
         /\ outcome' = Select(View[b], a)
         /\ View' = [View EXCEPT ![b] =
                      [o \in Offset |-> IF o \in DOMAIN v THEN v[o] ELSE @[o]]]
         /\ RomStores' = RomStores \cup (IF DOMAIN v = {} THEN {} ELSE {b} \cap Rom)
         /\ Buffered!CatchupWithOne
<1>. DEFINE i == b[2]
<1>0. PICK w : w = WayFor(b)
  OBVIOUS
<1>1. i \in Index /\ w \in Way /\ w \in HitWays(b) /\ b = <<b[1], i>>
  BY <1>0, BlockParts, WayForWay DEF DInv, AccessHit
<1>. DEFINE l == Written(line[i][w], v)
<1>2. b \in Backed
  BY <1>1, HitLine DEF DInv, OnlyBackedCached, Backed
<1>3. View[b] = line[i][w].data /\ HitWays(b) = {w}
  BY <1>1, <1>2, ViewOfLine DEF ViewInv
<1>4. line[i][w] \in CacheLine /\ line[i][w].valid /\ line[i][w].tag = b[1]
  BY <1>1 DEF DInv, DTypeOK, HitWays
<1>5. /\ l \in CacheLine /\ l.valid /\ l.tag = b[1]
      /\ l.dirty <=> line[i][w].dirty \/ DOMAIN v # {}
      /\ l.data = [o \in Offset |-> IF o \in DOMAIN v THEN v[o] ELSE View[b][o]]
  <2>1. l \in CacheLine /\ l.valid /\ l.tag = b[1]
    BY <1>4, WrittenLine
  <2>2. /\ l.dirty <=> line[i][w].dirty \/ DOMAIN v # {}
        /\ l.data = [o \in Offset |-> IF o \in DOMAIN v THEN v[o] ELSE line[i][w].data[o]]
    BY <1>4 DEF Written, CacheLine
  <2>. QED
    BY <1>3, <2>1, <2>2
<1>6. /\ line' = [line EXCEPT ![i][w] = l] /\ memory' = memory
      /\ outcome' = Select(line[i][w].data, a)
  BY <1>0 DEF AccessHit
<1>. HIDE DEF l, i
<1>7. /\ line'[i][w] = l
      /\ \A j \in Index, x \in Way : j # i \/ x # w => line'[j][x] = line[j][x]
  BY <1>1, <1>6 DEF DInv, DTypeOK
<1>8. ASSUME NEW c \in Backed, c # b
      PROVE  View'[c] = View[c]
  <2>1. c \in Block /\ c[2] \in Index /\ c = <<c[1], c[2]>>
    BY PhysMemAssumption, BlockParts DEF Backed
  <2>2. w \notin HitWays(c) \/ c[2] # i
    BY <1>1, <1>4, <1>5, <1>7, <1>8, <2>1 DEF HitWays
  <2>3. HitWays(c)' = HitWays(c)
    BY <1>1, <1>4, <1>5, <1>7, <1>8, <2>1 DEF HitWays
  <2>4. \A x \in HitWays(c) : line'[c[2]][x] = line[c[2]][x]
    BY <1>7, <2>1, <2>2, <2>3 DEF HitWays
  <2>5. HitWays(c) = {} \/ \E x \in HitWays(c) : TRUE
    OBVIOUS
  <2>. QED
    BY <1>6, <2>3, <2>4, <2>5, ViewOfLine, ViewOfNextLine DEF ViewInv
<1>9. View' = [View EXCEPT ![b] =
                [o \in Offset |-> IF o \in DOMAIN v THEN v[o] ELSE View[b][o]]]
  BY <1>1, <1>2, <1>5, <1>7, <1>8, ViewAfterAccess DEF i, CacheLine
<1>10. RomStores' = RomStores \cup (IF DOMAIN v = {} THEN {} ELSE {b} \cap Rom)
  <2>1. ASSUME NEW c \in Rom
        PROVE  c \in RomStores' <=>
                 c \in RomStores \/ (DOMAIN v # {} /\ c = b)
    <3>1. c \in Block /\ c[2] \in Index /\ c = <<c[1], c[2]>>
      BY PhysMemAssumption, BlockParts
    <3>2. \A x \in Way : BlockAt(c[2], x)' = BlockAt(c[2], x)
      <4>1. \A x \in Way : line'[c[2]][x].tag = line[c[2]][x].tag
        BY <1>4, <1>5, <1>7, <3>1
      <4>. QED
        BY <4>1 DEF BlockAt
    <3>3. \A x \in Way : c[2] # i \/ x # w
            => (NeedsWriteBack(c[2], x)' <=> NeedsWriteBack(c[2], x))
      BY <1>7, <3>1 DEF NeedsWriteBack
    <3>4. NeedsWriteBack(i, w)' <=> NeedsWriteBack(i, w) \/ DOMAIN v # {}
      <4>1. /\ line'[i][w].dirty <=> line[i][w].dirty \/ DOMAIN v # {}
            /\ line'[i][w].valid
        BY <1>5, <1>7
      <4>. QED
        BY <1>4, <4>1 DEF NeedsWriteBack
    <3>5. BlockAt(i, w) = b
      BY <1>1, <1>4 DEF BlockAt
    <3>6. c = b <=> c[2] = i /\ BlockAt(i, w) = c
      BY <3>5 DEF i
    <3>7. ASSUME NEW x \in Way
          PROVE  (NeedsWriteBack(c[2], x) /\ BlockAt(c[2], x) = c)' <=>
                   \/ NeedsWriteBack(c[2], x) /\ BlockAt(c[2], x) = c
                   \/ DOMAIN v # {} /\ c = b /\ x = w
      <4>1. CASE c[2] = i /\ x = w
        BY <3>2, <3>4, <3>6, <4>1
      <4>2. CASE ~(c[2] = i /\ x = w)
        BY <3>2, <3>3, <3>6, <4>2
      <4>. QED
        BY <4>1, <4>2
    <3>. QED
      BY <1>1, <3>7 DEF RomStores
  <2>. QED
    BY <2>1 DEF RomStores
<1>11. View[b] = line[i][w].data
  BY <1>3
<1>. QED
  BY <1>2, <1>6, <1>9, <1>10, <1>11, NotCaughtUp

\* A miss: what the refill throws out can be seen in memory from now on.
LEMMA MissBuffered ==
  ASSUME DInv, DInv', NEW b \in Backed, NEW a, NEW v, Arg(a, v), AccessMiss(b, a, v)
  PROVE  /\ outcome' = Select(View[b], a)
         /\ View' = [View EXCEPT ![b] =
                      [o \in Offset |-> IF o \in DOMAIN v THEN v[o] ELSE @[o]]]
         /\ RomStores' = RomStores \cup (IF DOMAIN v = {} THEN {} ELSE {b} \cap Rom)
         /\ Buffered!CatchupWithOne
<1>. DEFINE i == b[2]
<1>0. PICK w : w = WayFor(b)
  OBVIOUS
<1>1. b \in Block /\ i \in Index /\ w \in Way /\ b = <<b[1], i>> /\ HitWays(b) = {}
  BY <1>0, BlockParts, WayForWay, PhysMemAssumption DEF DInv, AccessMiss, Backed, Hit
<1>2. /\ NeedsWriteBack(i, w) => BlockAt(i, w) \in Ram
      /\ memory' = WrittenBack(i, w)
  BY <1>0 DEF AccessMiss
<1>. DEFINE n == [valid |-> TRUE, dirty |-> FALSE, tag |-> b[1], data |-> memory'[b]]
            l == Written(n, v)
<1>3. line' = [line EXCEPT ![i][w] = l] /\ outcome' = Select(memory'[b], a)
  BY <1>0 DEF AccessMiss
<1>. HIDE DEF i, l
<1>4. Buffered!CatchupWithOne
  BY <1>1, <1>2, CaughtUp
<1>5. ASSUME NEW c \in Backed, ~(NeedsWriteBack(i, w) /\ BlockAt(i, w) = c)
      PROVE  memory'[c] = memory[c]
  BY <1>2, <1>5 DEF WrittenBack, DInv, DTypeOK, MemTypeOK
<1>6. NeedsWriteBack(i, w) => memory'[BlockAt(i, w)] = line[i][w].data
  BY <1>2 DEF WrittenBack, DInv, DTypeOK, MemTypeOK, Backed
<1>7. ~(NeedsWriteBack(i, w) /\ BlockAt(i, w) = b)
  BY <1>1 DEF NeedsWriteBack, BlockAt, HitWays, i
<1>8. View[b] = memory[b] /\ memory'[b] = View[b]
  BY <1>1, <1>5, <1>7, ViewOfLine DEF ViewInv
<1>9. /\ l \in CacheLine /\ l.valid /\ l.tag = b[1] /\ (l.dirty <=> DOMAIN v # {})
      /\ l.data = [o \in Offset |-> IF o \in DOMAIN v THEN v[o] ELSE View[b][o]]
  <2>1. n \in CacheLine
    BY <1>1, BlockParts DEF DInv, DTypeOK, MemTypeOK, CacheLine
  <2>2. l \in CacheLine /\ l.valid /\ l.tag = b[1]
    BY <2>1, WrittenLine DEF l
  <2>3. /\ l.dirty <=> DOMAIN v # {}
        /\ l.data = [o \in Offset |-> IF o \in DOMAIN v THEN v[o] ELSE memory'[b][o]]
    BY DEF Written, l
  <2>. QED
    BY <1>8, <2>2, <2>3
<1>10. /\ line'[i][w] = l
       /\ \A j \in Index, x \in Way : j # i \/ x # w => line'[j][x] = line[j][x]
  BY <1>1, <1>3 DEF DInv, DTypeOK
<1>11. ASSUME NEW c \in Backed, c # b
       PROVE  View'[c] = View[c]
  <2>1. c \in Block /\ c[2] \in Index /\ c = <<c[1], c[2]>>
    BY PhysMemAssumption, BlockParts DEF Backed
  <2>2. CASE w \in HitWays(c) /\ c[2] = i
    <3>1. HitWays(c) = {w} /\ View[c] = line[i][w].data /\ BlockAt(i, w) = c
          /\ line[i][w].valid
      BY <2>1, <2>2, ViewOfLine DEF ViewInv, BlockAt, HitWays
    <3>2. HitWays(c)' = {}
      BY <1>1, <1>9, <1>10, <1>11, <2>1, <2>2, <3>1 DEF HitWays, i
    <3>3. memory'[c] = line[i][w].data
      <4>1. CASE line[i][w].dirty
        BY <1>6, <3>1, <4>1 DEF NeedsWriteBack
      <4>2. CASE ~line[i][w].dirty
        BY <1>1, <1>5, <3>1, <4>2 DEF NeedsWriteBack, DInv, CleanLinesMatchMemory
      <4>. QED
        BY <4>1, <4>2
    <3>. QED
      BY <3>1, <3>2, <3>3, ViewOfNextLine DEF ViewInv
  <2>3. CASE ~(w \in HitWays(c) /\ c[2] = i)
    <3>1. HitWays(c)' = HitWays(c)
      BY <1>1, <1>9, <1>10, <1>11, <2>1, <2>3 DEF HitWays, i
    <3>2. \A x \in HitWays(c) : line'[c[2]][x] = line[c[2]][x]
      BY <1>10, <2>1, <2>3 DEF HitWays
    <3>3. HitWays(c) = {} => memory'[c] = memory[c]
      BY <1>1, <1>5, <2>3 DEF NeedsWriteBack, BlockAt, HitWays
    <3>4. HitWays(c) = {} \/ \E x \in HitWays(c) : TRUE
      OBVIOUS
    <3>. QED
      BY <3>1, <3>2, <3>3, <3>4, ViewOfLine, ViewOfNextLine DEF ViewInv
  <2>. QED
    BY <2>2, <2>3
<1>12. View' = [View EXCEPT ![b] =
                 [o \in Offset |-> IF o \in DOMAIN v THEN v[o] ELSE View[b][o]]]
  BY <1>1, <1>9, <1>10, <1>11, ViewAfterAccess DEF i, CacheLine
<1>13. RomStores' = RomStores \cup (IF DOMAIN v = {} THEN {} ELSE {b} \cap Rom)
  <2>1. ASSUME NEW c \in Rom, NEW x \in Way
        PROVE  (NeedsWriteBack(c[2], x) /\ BlockAt(c[2], x) = c)' <=>
                 \/ NeedsWriteBack(c[2], x) /\ BlockAt(c[2], x) = c
                 \/ DOMAIN v # {} /\ c = b /\ x = w
    <3>1. c \in Block /\ c[2] \in Index /\ c = <<c[1], c[2]>> /\ c \notin Ram
      BY PhysMemAssumption, BlockParts
    <3>2. CASE c[2] = i /\ x = w
      <4>1. ~(NeedsWriteBack(c[2], x) /\ BlockAt(c[2], x) = c)
        BY <1>2, <3>1, <3>2
      <4>2. BlockAt(c[2], x)' = b
        BY <1>1, <1>9, <1>10, <3>2 DEF BlockAt
      <4>3. NeedsWriteBack(c[2], x)' <=> DOMAIN v # {}
        BY <1>9, <1>10, <3>2 DEF NeedsWriteBack
      <4>. QED
        BY <3>2, <4>1, <4>2, <4>3
    <3>3. CASE ~(c[2] = i /\ x = w)
      <4>1. line'[c[2]][x] = line[c[2]][x]
        BY <1>10, <3>1, <3>3
      <4>2. NeedsWriteBack(c[2], x)' <=> NeedsWriteBack(c[2], x)
        BY <4>1 DEF NeedsWriteBack
      <4>3. BlockAt(c[2], x)' = BlockAt(c[2], x)
        BY <4>1 DEF BlockAt
      <4>4. ~(c = b /\ x = w)
        BY <3>3 DEF i
      <4>. QED
        BY <4>2, <4>3, <4>4
    <3>. QED
      BY <3>2, <3>3
  <2>. QED
    BY <1>1, <2>1 DEF RomStores
<1>. QED
  BY <1>3, <1>4, <1>8, <1>12, <1>13

\* A miss of a block that nothing backs: the refill throws, the victim stays.
LEMMA HoleBuffered ==
  ASSUME DInv, DInv', NEW b \in Block, b \notin Backed, NEW a, NEW v, AccessMiss(b, a, v)
  PROVE  Buffered!Fail(b)
<1>0. PICK w : w = WayFor(b)
  OBVIOUS
<1>. DEFINE i == b[2]
<1>1. i \in Index /\ w \in Way
  BY <1>0, BlockParts, WayForWay DEF DInv
<1>2. /\ NeedsWriteBack(i, w) => BlockAt(i, w) \in Ram
      /\ memory' = WrittenBack(i, w) /\ line' = line /\ outcome' = BusTimeout
  BY <1>0 DEF AccessMiss
<1>. HIDE DEF i
<1>3. Buffered!CatchupWithOne
  BY <1>1, <1>2, CaughtUp
<1>4. ASSUME NEW c \in Backed
      PROVE  View'[c] = View[c]
  <2>1. HitWays(c)' = HitWays(c)
    BY <1>2 DEF HitWays
  <2>2. HitWays(c) = {} => memory'[c] = memory[c]
    <3>1. NeedsWriteBack(i, w) /\ BlockAt(i, w) = c => w \in HitWays(c)
      BY <1>1 DEF NeedsWriteBack, BlockAt, HitWays
    <3>. QED
      BY <1>2, <3>1 DEF WrittenBack, DInv, DTypeOK, MemTypeOK
  <2>3. HitWays(c) = {} \/ \E x \in HitWays(c) : TRUE
    OBVIOUS
  <2>. QED
    BY <1>2, <2>1, <2>2, <2>3, ViewOfLine, ViewOfNextLine DEF ViewInv
<1>5. UNCHANGED View
  BY <1>4, SameView, ViewOfLine, ViewOfNextLine
<1>6. UNCHANGED RomStores
  BY <1>2 DEF RomStores, NeedsWriteBack, BlockAt
<1>. QED
  BY <1>2, <1>3, <1>5, <1>6
     DEF Buffered!Fail, Buffered!Backed, Backed, BusTimeout, Nothing,
         Buffered!BusTimeout, Buffered!Nothing

LEMMA SelectBuffered ==
  ASSUME NEW d, NEW a
  PROVE  Select(d, a) = Buffered!Returned([o \in a |-> d[o]])
BY DEF Select, Returned, Buffered!Returned

LEMMA ReadBuffered ==
  ASSUME DInv, DInv', NEW b \in Block, NEW a \in Access, Read(b, a)
  PROVE  Buffered!Fail(b) \/ Buffered!Load(b, a)
<1>1. Arg(a, Nothing) /\ DOMAIN Nothing = {}
  BY DEF Arg, Nothing
<1>2. CASE EvictFails(b)
  BY <1>2, EvictFailsBuffered
<1>3. CASE AccessMiss(b, a, Nothing) /\ b \notin Backed
  BY <1>3, HoleBuffered
<1>4. CASE AccessHit(b, a, Nothing) \/ (AccessMiss(b, a, Nothing) /\ b \in Backed)
  <2>1. /\ b \in Backed /\ outcome' = Select(View[b], a) /\ Buffered!CatchupWithOne
        /\ View' = [View EXCEPT ![b] =
                     [o \in Offset |-> IF o \in DOMAIN Nothing THEN Nothing[o] ELSE @[o]]]
        /\ RomStores' = RomStores \cup (IF DOMAIN Nothing = {} THEN {} ELSE {b} \cap Rom)
    BY <1>1, <1>4, HitBuffered, MissBuffered
  <2>2. View[b] \in Line
    BY <2>1, ViewTypes
  <2>3. [o \in Offset |-> IF o \in DOMAIN Nothing THEN Nothing[o] ELSE View[b][o]] = View[b]
    BY <1>1, <2>2 DEF Line
  <2>4. View' = View
    BY <2>1, <2>3 DEF View
  <2>5. Buffered!Load(b, a)
    BY <1>1, <2>1, <2>4, SelectBuffered DEF Buffered!Load, Buffered!Backed, Backed
  <2>. QED
    BY <2>5
<1>. QED
  <2>1. AccessHit(b, a, Nothing) \/ EvictFails(b) \/ AccessMiss(b, a, Nothing)
    BY DEF Read, DAccess
  <2>. QED
    BY <1>2, <1>3, <1>4, <2>1

LEMMA WriteBuffered ==
  ASSUME DInv, DInv', NEW b \in Block, NEW a \in Access, NEW v \in [a -> Val], Write(b, v)
  PROVE  Buffered!Fail(b) \/ Buffered!Store(b, v)
<1>1. Arg({}, v) /\ DOMAIN v # {}
  BY PhysMemAssumption DEF Arg
<1>2. CASE EvictFails(b)
  BY <1>2, EvictFailsBuffered
<1>3. CASE AccessMiss(b, {}, v) /\ b \notin Backed
  BY <1>3, HoleBuffered
<1>4. CASE AccessHit(b, {}, v) \/ (AccessMiss(b, {}, v) /\ b \in Backed)
  <2>1. /\ b \in Backed /\ outcome' = Select(View[b], {}) /\ Buffered!CatchupWithOne
        /\ View' = [View EXCEPT ![b] =
                     [o \in Offset |-> IF o \in DOMAIN v THEN v[o] ELSE @[o]]]
        /\ RomStores' = RomStores \cup (IF DOMAIN v = {} THEN {} ELSE {b} \cap Rom)
    BY <1>1, <1>4, HitBuffered, MissBuffered
  <2>2. outcome' = Buffered!Returned(Buffered!Nothing)
    BY <2>1, SelectBuffered DEF Buffered!Nothing, Buffered!Returned
  <2>3. Buffered!Store(b, v)
    BY <1>1, <2>1, <2>2 DEF Buffered!Store, Buffered!Backed, Backed
  <2>. QED
    BY <2>3
<1>. QED
  <2>1. AccessHit(b, {}, v) \/ EvictFails(b) \/ AccessMiss(b, {}, v)
    BY DEF Write, DAccess
  <2>. QED
    BY <1>2, <1>3, <1>4, <2>1

\* A flush moves stores to memory, which nobody can see; it ends at the first
\* store that ROM does not take.
LEMMA FlushBuffered ==
  ASSUME DInv, DInv', Flush
  PROVE  Buffered!Flush
<1>. DEFINE From(b) == {w \in Way : BlockAt(b[2], w) = b /\ Flushed(b[2], w)}
            pick(b) == CHOOSE w \in Way :
                         BlockAt(b[2], w) = b /\ Flushed(b[2], w)
            B == {b \in Ram : From(b) # {}}
<1>1. memory' = [b \in Backed |->
                  IF From(b) # {} THEN line[b[2]][pick(b)].data ELSE memory[b]]
  BY DEF Flush
<1>2. ASSUME NEW b \in Backed, NEW w \in From(b)
      PROVE  w \in HitWays(b) /\ b \in Ram /\ pick(b) = w
  <2>1. b \in Block /\ b[2] \in Index
    BY PhysMemAssumption, BlockParts DEF Backed
  <2>2. From(b) \subseteq HitWays(b)
    BY DEF HitWays, BlockAt, Flushed, NeedsWriteBack
  <2>3. b \in Ram
    BY <2>1 DEF Flushed, CannotFlush, Before, Index, Way
  <2>4. pick(b) \in From(b)
    BY <1>2
  <2>. HIDE DEF From, pick
  <2>. QED
    BY <1>2, <2>1, <2>2, <2>3, <2>4, OneHit
<1>3. memory' = [b \in Backed |-> IF b \in B THEN View[b] ELSE memory[b]]
  <2>1. ASSUME NEW b \in Backed, From(b) # {}
        PROVE  line[b[2]][pick(b)].data = View[b] /\ b \in Ram
    BY <1>2, <2>1, ViewOfLine DEF ViewInv
  <2>. QED
    BY <1>1, <2>1
<1>4. Buffered!Catchup(B)
  BY <1>3 DEF Buffered!Catchup, Buffered!Backed, Backed
<1>. HIDE DEF From, pick, B
<1>5. ASSUME NEW i \in Index, NEW w \in Way
      PROVE  /\ line'[i][w].valid = line[i][w].valid /\ line'[i][w].tag = line[i][w].tag
             /\ line'[i][w].data = line[i][w].data
             /\ line'[i][w].dirty <=> line[i][w].dirty /\ ~Flushed(i, w)
  BY DEF Flush, DInv, DTypeOK, CacheLine
<1>6. ASSUME NEW b \in Backed
      PROVE  View'[b] = View[b]
  <2>1. b \in Block /\ b[2] \in Index
    BY PhysMemAssumption, BlockParts DEF Backed
  <2>2. HitWays(b)' = HitWays(b)
    BY <1>5, <2>1 DEF HitWays
  <2>3. \A w \in HitWays(b) : line'[b[2]][w].data = line[b[2]][w].data
    BY <1>5, <2>1 DEF HitWays
  <2>4. HitWays(b) = {} => memory'[b] = memory[b]
    BY <1>2, <1>3 DEF B
  <2>5. HitWays(b) = {} \/ \E w \in HitWays(b) : TRUE
    OBVIOUS
  <2>. QED
    BY <2>2, <2>3, <2>4, <2>5, ViewOfLine, ViewOfNextLine DEF ViewInv
<1>7. UNCHANGED View
  BY <1>6, SameView, ViewOfLine, ViewOfNextLine
<1>8. UNCHANGED RomStores
  <2>1. ASSUME NEW c \in Rom, NEW x \in Way
        PROVE  (NeedsWriteBack(c[2], x) /\ BlockAt(c[2], x) = c)' <=>
                 NeedsWriteBack(c[2], x) /\ BlockAt(c[2], x) = c
    <3>1. c \in Backed /\ c[2] \in Index /\ c \notin Ram
      BY PhysMemAssumption, BlockParts DEF Backed
    <3>2. BlockAt(c[2], x)' = BlockAt(c[2], x)
      BY <1>5, <3>1 DEF BlockAt
    <3>3. BlockAt(c[2], x) = c => ~Flushed(c[2], x)
      BY <1>2, <3>1 DEF From
    <3>. QED
      BY <1>5, <3>1, <3>2, <3>3 DEF NeedsWriteBack
  <2>. QED
    BY <2>1 DEF RomStores
<1>9. CASE RomStores = {}
  <2>1. \A i \in Index, w \in Way : ~CannotFlush(i, w)
    BY <1>9, StuckStore
  <2>2. outcome' = Returned(Nothing)
    BY <2>1 DEF Flush
  <2>3. ASSUME NEW b \in Backed
        PROVE  memory'[b] = View[b]
    <3>1. b \in Block /\ b[2] \in Index /\ b = <<b[1], b[2]>>
      BY PhysMemAssumption, BlockParts DEF Backed
    <3>2. CASE HitWays(b) = {}
      BY <1>3, <3>2, ViewOfLine DEF ViewInv
    <3>3. ASSUME NEW w \in HitWays(b)
          PROVE  memory'[b] = View[b]
      <4>1. w \in Way /\ line[b[2]][w].valid /\ BlockAt(b[2], w) = b
            /\ View[b] = line[b[2]][w].data
        BY <3>1, HitLine, ViewOfLine DEF ViewInv
      <4>2. CASE line[b[2]][w].dirty
        <5>1. w \in From(b)
          BY <2>1, <4>1, <4>2, <3>1 DEF From, Flushed, NeedsWriteBack
        <5>2. b \in B
          BY <1>2, <5>1 DEF B
        <5>. QED
          BY <1>3, <5>2
      <4>3. CASE ~line[b[2]][w].dirty
        BY <1>3, <3>1, <4>1, <4>3 DEF DInv, CleanLinesMatchMemory
      <4>. QED
        BY <4>2, <4>3
    <3>. QED
      BY <3>2, <3>3
  <2>4. memory' = View
    BY <1>3, <2>3 DEF View
  <2>5. Buffered!Flush
    <3>1. B \in SUBSET Ram
      BY DEF B
    <3>. QED
      BY <1>4, <1>7, <1>8, <1>9, <2>2, <2>4, <3>1
         DEF Buffered!Flush, Returned, Nothing, Buffered!Returned, Buffered!Nothing
  <2>. QED
    BY <2>5
<1>10. CASE RomStores # {}
  <2>1. PICK c \in Rom : \E w \in Way : NeedsWriteBack(c[2], w) /\ BlockAt(c[2], w) = c
    BY <1>10 DEF RomStores
  <2>2. c[2] \in Index /\ c \notin Ram
    BY PhysMemAssumption, BlockParts
  <2>3. outcome' = BusTimeout
    BY <2>1, <2>2 DEF Flush, CannotFlush
  <2>4. Buffered!Flush
    <3>1. B \in SUBSET Ram
      BY DEF B
    <3>. QED
      BY <1>4, <1>7, <1>8, <1>10, <2>3, <3>1
         DEF Buffered!Flush, BusTimeout, Nothing, Buffered!BusTimeout, Buffered!Nothing
  <2>. QED
    BY <2>4
<1>. QED
  BY <1>9, <1>10

\* After an invalidate or a reset every load sees memory.
LEMMA DropBuffered ==
  ASSUME DInv, DInv', Invalidate \/ Reset
  PROVE  Buffered!Invalidate \/ Buffered!Reset
<1>1. ASSUME NEW i \in Index, NEW w \in Way
      PROVE  ~line'[i][w].valid
  <2>1. InvalidateLines
    BY DEF Invalidate, Reset
  <2>. QED
    BY <2>1 DEF InvalidateLines, DInv, DTypeOK, CacheLine
<1>2. \A b \in Backed : b[2] \in Index
  BY PhysMemAssumption, BlockParts DEF Backed
<1>3. View' = [b \in Backed |-> View'[b]]
  BY DEF View
<1>4. \A b \in Backed : HitWays(b)' = {}
  BY <1>1, <1>2 DEF HitWays
<1>5. memory' \in [Backed -> Line]
  BY DEF DInv, DTypeOK, MemTypeOK
<1>6. View' = memory'
  BY <1>3, <1>4, <1>5, ViewOfNextLine DEF ViewInv
<1>7. RomStores' = {}
  <2>1. \A b \in Rom : b \in Backed
    BY DEF Backed
  <2>. QED
    BY <1>1, <1>2, <2>1 DEF RomStores, NeedsWriteBack
<1>8. outcome' = Buffered!Returned(Buffered!Nothing)
  BY DEF Invalidate, Reset, Returned, Nothing, Buffered!Returned, Buffered!Nothing
<1>9. CASE Invalidate
  <2>1. UNCHANGED memory
    BY <1>9 DEF Invalidate
  <2>. QED
    BY <1>6, <1>7, <1>8, <2>1 DEF Buffered!Invalidate
<1>10. CASE Reset
  <2>1. \A b \in Rom : memory'[b] = memory[b]
    BY <1>10, PhysMemAssumption DEF Reset, MemReset, Backed
  <2>2. memory' \in [Buffered!Backed -> [Offset -> Val]]
    BY <1>5 DEF Buffered!Backed, Backed, Line
  <2>. QED
    BY <1>6, <1>7, <1>8, <2>1, <2>2 DEF Buffered!Reset
<1>. QED
  BY <1>9, <1>10

LEMMA StepBuffered == DInv /\ DInv' /\ [DNext]_dvars => [Buffered!Next]_(Buffered!bvars)
<1>. SUFFICES ASSUME DInv, DInv', [DNext]_dvars
              PROVE  [Buffered!Next]_(Buffered!bvars)
  OBVIOUS
<1>1. CASE UNCHANGED dvars
  BY <1>1 DEF dvars, Buffered!bvars, View, Seen, HitWays, RomStores, NeedsWriteBack, BlockAt
<1>2. CASE \E b \in Block, a \in Access : Read(b, a)
  BY <1>2, ReadBuffered DEF Buffered!Next
<1>3. CASE \E b \in Block, a \in Access : \E v \in [a -> Val] : Write(b, v)
  BY <1>3, WriteBuffered DEF Buffered!Next
<1>4. CASE Flush
  BY <1>4, FlushBuffered DEF Buffered!Next
<1>5. CASE Invalidate \/ Reset
  BY <1>5, DropBuffered DEF Buffered!Next
<1>. QED
  BY <1>1, <1>2, <1>3, <1>4, <1>5 DEF DNext

\* Whatever the number of sets, the associativity, the memory map and the width
\* of an access: the cache is a memory whose loads return the last store, and no
\* bus timeout on the way to memory changes what a load sees.
THEOREM CacheIsTransparent == DSpec => ImplementsBufferedMemory
BY InitBuffered, StepBuffered, DCacheInvariant, PTL
   DEF DSpec, ImplementsBufferedMemory, Buffered!Spec

-------------------------------------------------------------------------------
(* The data cache and the instruction cache over one memory *)

\* A block not stored to since the last synchronisation: the data cache agrees
\* with memory, and so does the instruction cache if it holds the block.
Coherent ==
  \A b \in Backed \ unsynced :
    /\ View[b] = memory[b]
    /\ \A w \in IHitWays(b) : iline[ISplit[b][2]][w].data = memory[b]

MInv == DInv /\ ITypeOK /\ unsynced \subseteq Block /\ Coherent

-------------------------------------------------------------------------------
(* The instruction cache *)

LEMMA SplitParts ==
  ASSUME NEW b \in Block
  PROVE  ISplit[b][1] \in ITag /\ ISplit[b][2] \in IIndex
         /\ ISplit[b] = <<ISplit[b][1], ISplit[b][2]>>
BY ICacheAssumption DEF IIndex

LEMMA IWayForWay ==
  ASSUME ITypeOK, NEW b \in Block
  PROVE  /\ IWayFor(b) \in IWay /\ NextVictim(IWayFor(b)) \in {0, 1}
         /\ IHit(b) => IWayFor(b) \in IHitWays(b)
<1>1. CASE IHit(b)
  <2>1. PICK x \in IHitWays(b) : TRUE
    BY <1>1 DEF IHit
  <2>2. IHitWays(b) \subseteq {0, 1}
    BY ICacheAssumption DEF IHitWays, IWay
  <2>3. \E w \in IHitWays(b) : \A y \in IHitWays(b) : w <= y
    BY <2>1, <2>2
  <2>4. IWayFor(b) \in IHitWays(b)
    BY <1>1, <2>3 DEF IWayFor
  <2>. QED
    BY <2>4, ICacheAssumption DEF IHitWays, IWay, NextVictim
<1>2. CASE ~IHit(b)
  BY <1>2, ICacheAssumption, SplitParts DEF IWayFor, IWay, ITypeOK, NextVictim
<1>. QED
  BY <1>1, <1>2

\* What a line holds after a fetch, and of which block.
LEMMA FetchInv ==
  ASSUME ITypeOK, memory \in [Backed -> Line], NEW b \in Block, NEW a \in Access, Fetch(b, a)
  PROVE  /\ ITypeOK'
         /\ \A c \in Block : \A w \in IHitWays(c)' :
              \/ w \in IHitWays(c) /\ iline'[ISplit[c][2]][w] = iline[ISplit[c][2]][w]
              \/ c = b /\ b \in Backed /\ iline'[ISplit[c][2]][w].data = memory[b]
<1>. DEFINE i == ISplit[b][2]
<1>1. PICK w : w = IWayFor(b)
  OBVIOUS
<1>2. i \in IIndex /\ w \in IWay /\ 1 - w \in {0, 1} /\ ISplit[b][1] \in ITag
  BY <1>1, IWayForWay, SplitParts DEF NextVictim
<1>3. ilru' = [ilru EXCEPT ![i] = 1 - w]
  BY <1>1 DEF Fetch, NextVictim
<1>4. CASE ~(IHit(b) \/ b \in Backed)
  <2>1. UNCHANGED iline /\ fetched' = FetchTimeout
    BY <1>4 DEF Fetch
  <2>2. ITypeOK'
    BY <1>2, <1>3, <2>1 DEF ITypeOK
  <2>3. \A c \in Block : IHitWays(c)' = IHitWays(c)
    BY <2>1 DEF IHitWays
  <2>. QED
    BY <2>1, <2>2, <2>3
<1>5. CASE IHit(b) \/ b \in Backed
  <2>. DEFINE fill == [valid |-> TRUE, tag |-> ISplit[b][1], data |-> memory[b]]
              n == IF IHit(b) THEN iline[i][w] ELSE fill
  <2>1. /\ iline' = [iline EXCEPT ![i][w] = n]
        /\ fetched' = FetchedWord([o \in a |-> iline'[i][w].data[o]])
    BY <1>1, <1>5 DEF Fetch
  <2>2. n \in ICacheLine
    <3>1. CASE IHit(b)
      BY <1>2, <3>1 DEF ITypeOK
    <3>2. CASE ~IHit(b)
      BY <1>2, <1>5, <3>2 DEF ICacheLine
    <3>. QED
      BY <3>1, <3>2
  <2>. HIDE DEF n
  <2>3. iline' \in [IIndex -> [IWay -> ICacheLine]] /\ iline'[i][w] = n
        /\ \A j \in IIndex, x \in IWay : j # i \/ x # w => iline'[j][x] = iline[j][x]
    BY <1>2, <2>1, <2>2 DEF ITypeOK
  <2>4. fetched' \in {FetchedWord(d) : d \in UNION {[s -> Val] : s \in Access}}
    <3>1. n.data \in [Offset -> Val] /\ a \subseteq Offset
      BY <2>2, PhysMemAssumption DEF ICacheLine, Line
    <3>2. [o \in a |-> n.data[o]] \in [a -> Val]
      BY <3>1
    <3>. QED
      BY <2>1, <2>3, <3>2
  <2>5. ITypeOK'
    BY <1>2, <1>3, <2>3, <2>4 DEF ITypeOK
  <2>6. ASSUME NEW c \in Block, NEW x \in IHitWays(c)'
        PROVE  \/ x \in IHitWays(c) /\ iline'[ISplit[c][2]][x] = iline[ISplit[c][2]][x]
               \/ c = b /\ b \in Backed /\ iline'[ISplit[c][2]][x].data = memory[b]
    <3>1. x \in IWay /\ ISplit[c][2] \in IIndex
          /\ iline'[ISplit[c][2]][x].valid /\ iline'[ISplit[c][2]][x].tag = ISplit[c][1]
      BY <2>6, SplitParts DEF IHitWays
    <3>2. CASE iline'[ISplit[c][2]][x] = iline[ISplit[c][2]][x]
      BY <3>1, <3>2 DEF IHitWays
    <3>3. CASE iline'[ISplit[c][2]][x] # iline[ISplit[c][2]][x]
      <4>1. ISplit[c][2] = i /\ x = w /\ iline'[i][x] = n
        BY <2>3, <3>1, <3>3
      <4>2. ~IHit(b) /\ n = fill
        BY <3>3, <4>1 DEF n
      <4>3. ISplit[c] = ISplit[b]
        BY <3>1, <4>1, <4>2, SplitParts
      <4>4. c = b /\ b \in Backed
        BY <1>5, <4>2, <4>3, ICacheAssumption
      <4>. QED
        BY <4>1, <4>2, <4>4
    <3>. QED
      BY <3>2, <3>3
  <2>. QED
    BY <2>5, <2>6
<1>. QED
  BY <1>4, <1>5

LEMMA InvalidateInv ==
  ASSUME ITypeOK, IInvalidate
  PROVE  ITypeOK' /\ \A c \in Block : IHitWays(c)' = {}
<1>1. ASSUME NEW i \in IIndex, NEW w \in IWay
      PROVE  iline'[i][w] \in ICacheLine /\ ~iline'[i][w].valid
  <2>1. iline[i][w] \in ICacheLine
    BY DEF ITypeOK
  <2>2. iline'[i][w] = [iline[i][w] EXCEPT !.valid = FALSE]
    BY DEF IInvalidate
  <2>. QED
    BY <2>1, <2>2 DEF ICacheLine
<1>2. iline' \in [IIndex -> [IWay -> ICacheLine]]
  BY <1>1 DEF IInvalidate
<1>3. ITypeOK'
  BY <1>2 DEF IInvalidate, ITypeOK
<1>4. \A c \in Block : ISplit[c][2] \in IIndex
  BY SplitParts
<1>. QED
  BY <1>1, <1>3, <1>4 DEF IHitWays

LEMMA UntouchedInv ==
  ASSUME ITypeOK, UNCHANGED ivars
  PROVE  ITypeOK' /\ UNCHANGED iline /\ \A c \in Block : IHitWays(c)' = IHitWays(c)
BY DEF ivars, ITypeOK, IHitWays

-------------------------------------------------------------------------------
(* Data cache and memory *)

\* No load, failed call or flush takes view and memory apart.
LEMMA StaysCoherent ==
  ASSUME DInv, NEW B \in SUBSET Ram, Buffered!Catchup(B), UNCHANGED View,
         NEW b \in Backed, View[b] = memory[b]
  PROVE  View'[b] = memory'[b] /\ memory'[b] = memory[b]
BY DEF Buffered!Catchup, Buffered!Backed, Backed

LEMMA CatchesUp ==
  ASSUME Buffered!CatchupWithOne
  PROVE  \E B \in SUBSET Ram : Buffered!Catchup(B)
<1>1. ASSUME NEW e \in Ram
      PROVE  {e} \in SUBSET Ram
  OBVIOUS
<1>. QED
  BY <1>1 DEF Buffered!CatchupWithOne

\* A store takes them apart for one block only.
LEMMA StoreCoherent ==
  ASSUME DInv, NEW B \in SUBSET Ram, Buffered!Catchup(B), NEW c \in Block, NEW l,
         View' = [View EXCEPT ![c] = l],
         NEW b \in Backed, b # c, View[b] = memory[b]
  PROVE  View'[b] = memory'[b] /\ memory'[b] = memory[b]
<1>1. memory'[b] = memory[b]
  BY DEF Buffered!Catchup, Buffered!Backed, Backed
<1>2. View'[b] = View[b]
  BY DEF View
<1>. QED
  BY <1>1, <1>2

LEMMA ReadCoherent ==
  ASSUME MInv, NEW b \in Block, NEW a \in Access, ReadData(b, a)
  PROVE  MInv'
<1>1. DInv /\ Read(b, a) /\ UNCHANGED <<ivars, unsynced>>
  BY DEF MInv, ReadData
<1>2. DInv'
  BY <1>1, StepInv DEF DNext
<1>3. ITypeOK' /\ UNCHANGED iline /\ \A c \in Block : IHitWays(c)' = IHitWays(c)
  BY <1>1, UntouchedInv DEF MInv
<1>4. UNCHANGED View /\ Buffered!CatchupWithOne
  BY <1>1, <1>2, ReadBuffered DEF Buffered!Fail, Buffered!Load
<1>5. PICK B \in SUBSET Ram : Buffered!Catchup(B)
  BY <1>4, CatchesUp
<1>6. ASSUME NEW c \in Backed, c \notin unsynced
      PROVE  View'[c] = memory'[c] /\ memory'[c] = memory[c]
  BY <1>1, <1>4, <1>5, <1>6, StaysCoherent DEF MInv, Coherent
<1>7. Coherent'
  BY <1>1, <1>3, <1>6, PhysMemAssumption DEF MInv, Coherent, Backed
<1>. QED
  BY <1>1, <1>2, <1>3, <1>7 DEF MInv

LEMMA WriteCoherent ==
  ASSUME MInv, NEW b \in Block, NEW a \in Access, NEW v \in [a -> Val], WriteData(b, v)
  PROVE  MInv'
<1>1. DInv /\ Write(b, v) /\ UNCHANGED ivars
      /\ unsynced' = IF outcome' = BusTimeout THEN unsynced ELSE unsynced \cup {b}
  BY DEF MInv, WriteData
<1>2. DInv'
  BY <1>1, StepInv DEF DNext
<1>3. ITypeOK' /\ UNCHANGED iline /\ \A c \in Block : IHitWays(c)' = IHitWays(c)
  BY <1>1, UntouchedInv DEF MInv
<1>4. Buffered!CatchupWithOne
  BY <1>1, <1>2, WriteBuffered DEF Buffered!Fail, Buffered!Store
<1>5. PICK B \in SUBSET Ram : Buffered!Catchup(B)
  BY <1>4, CatchesUp
<1>6. ASSUME NEW c \in Backed, c \notin unsynced'
      PROVE  View'[c] = memory'[c] /\ memory'[c] = memory[c]
  <2>1. c \notin unsynced /\ View[c] = memory[c]
    BY <1>1, <1>6 DEF MInv, Coherent
  <2>2. CASE Buffered!Fail(b)
    BY <1>1, <1>5, <2>1, <2>2, StaysCoherent DEF Buffered!Fail
  <2>3. CASE Buffered!Store(b, v)
    <3>1. outcome' # BusTimeout
      BY <2>3 DEF Buffered!Store, Buffered!Returned, BusTimeout
    <3>2. c # b
      BY <1>1, <1>6, <3>1
    <3>3. PICK l : View' = [View EXCEPT ![b] = l]
      BY <2>3 DEF Buffered!Store
    <3>. QED
      BY <1>1, <1>5, <2>1, <3>2, <3>3, StoreCoherent
  <2>. QED
    BY <1>1, <1>2, <2>2, <2>3, WriteBuffered
<1>7. Coherent'
  BY <1>1, <1>3, <1>6, PhysMemAssumption DEF MInv, Coherent, Backed
<1>8. unsynced' \subseteq Block
  BY <1>1 DEF MInv
<1>. QED
  BY <1>2, <1>3, <1>7, <1>8 DEF MInv

LEMMA FetchCoherent ==
  ASSUME MInv, NEW b \in Block, NEW a \in Access, FetchInstr(b, a)
  PROVE  MInv'
<1>1. Fetch(b, a) /\ UNCHANGED <<dvars, unsynced>>
  BY DEF FetchInstr
<1>2. DInv'
  BY <1>1, StepInv DEF MInv
<1>3. UNCHANGED <<View, memory>>
  BY <1>1 DEF dvars, View, Seen, HitWays
<1>4. /\ ITypeOK'
      /\ \A c \in Block : \A w \in IHitWays(c)' :
           \/ w \in IHitWays(c) /\ iline'[ISplit[c][2]][w] = iline[ISplit[c][2]][w]
           \/ c = b /\ b \in Backed /\ iline'[ISplit[c][2]][w].data = memory[b]
  BY <1>1, FetchInv DEF MInv, DInv, DTypeOK, MemTypeOK
<1>5. Coherent'
  BY <1>1, <1>3, <1>4, PhysMemAssumption DEF MInv, Coherent, Backed
<1>. QED
  BY <1>1, <1>2, <1>4, <1>5 DEF MInv

LEMMA CctlCoherent ==
  ASSUME MInv, NEW icache \in BOOLEAN, NEW dcache \in BOOLEAN, NEW flush \in BOOLEAN,
         Cctl(icache, dcache, flush)
  PROVE  MInv'
<1>. /\ DInv /\ ITypeOK
  BY DEF MInv
<1>1. ITypeOK' /\ \/ \A c \in Block : IHitWays(c)' = {}
                  \/ ~icache /\ UNCHANGED iline /\ \A c \in Block : IHitWays(c)' = IHitWays(c)
  BY InvalidateInv, UntouchedInv DEF Cctl
<1>2. unsynced' = IF icache /\ dcache /\ outcome' # BusTimeout THEN {} ELSE unsynced
  BY DEF Cctl
<1>3. CASE ~dcache
  <2>1. UNCHANGED <<memory, line, lru>> /\ outcome' = Returned(Nothing)
    BY <1>3 DEF Cctl
  <2>2. outcome' \in Outcome
    <3>1. Nothing \in [{} -> Val]
      BY DEF Nothing
    <3>. QED
      BY <2>1, <3>1 DEF Outcome
  <2>3. DInv'
    BY <2>1, <2>2 DEF DInv, DTypeOK, MemTypeOK, NoDuplicates, CleanLinesMatchMemory,
                      OnlyBackedCached, BlockAt
  <2>4. UNCHANGED View
    BY <2>1 DEF View, Seen, HitWays
  <2>5. Coherent'
    BY <1>1, <1>2, <1>3, <2>1, <2>4, PhysMemAssumption DEF MInv, Coherent, Backed
  <2>. QED
    BY <1>1, <1>2, <1>3, <2>3, <2>5 DEF MInv
<1>4. CASE dcache /\ flush
  <2>1. Flush
    BY <1>4 DEF Cctl
  <2>2. DInv'
    BY <2>1, FlushInv
  <2>3. Buffered!Flush
    BY <2>1, <2>2, FlushBuffered
  <2>4. PICK B \in SUBSET Ram : Buffered!Catchup(B)
    BY <2>3 DEF Buffered!Flush
  <2>5. UNCHANGED View
    BY <2>3 DEF Buffered!Flush
  <2>6. outcome' # BusTimeout => memory' = View
    BY <2>3 DEF Buffered!Flush, Buffered!BusTimeout, Buffered!Nothing, BusTimeout, Nothing
  <2>7. ASSUME NEW c \in Backed, c \notin unsynced
        PROVE  View'[c] = memory'[c] /\ memory'[c] = memory[c]
    BY <2>4, <2>5, <2>7, StaysCoherent DEF MInv, Coherent
  <2>8. Coherent'
    <3>1. CASE unsynced' = unsynced
      BY <1>1, <2>7, <3>1, PhysMemAssumption DEF MInv, Coherent, Backed
    <3>2. CASE icache /\ outcome' # BusTimeout
      BY <1>1, <2>5, <2>6, <3>2, PhysMemAssumption DEF Coherent, Backed
    <3>. QED
      BY <1>2, <3>1, <3>2
  <2>. QED
    BY <1>1, <1>2, <2>2, <2>8 DEF MInv
<1>5. CASE dcache /\ ~flush
  <2>1. Invalidate /\ UNCHANGED memory
    BY <1>5 DEF Cctl, Invalidate
  <2>2. DInv'
    BY <2>1, DropInv
  <2>3. View' = memory'
    BY <2>1, <2>2, DropBuffered DEF Buffered!Invalidate, Buffered!Reset
  <2>4. Coherent'
    <3>1. CASE unsynced' = unsynced
      BY <1>1, <2>1, <2>3, <3>1, PhysMemAssumption DEF MInv, Coherent, Backed
    <3>2. CASE icache
      BY <1>1, <2>3, <3>2, PhysMemAssumption DEF Coherent, Backed
    <3>. QED
      BY <1>2, <3>1, <3>2
  <2>. QED
    BY <1>1, <1>2, <2>2, <2>4 DEF MInv
<1>. QED
  BY <1>3, <1>4, <1>5

LEMMA ResetCoherent ==
  ASSUME MInv, ResetAll
  PROVE  MInv'
<1>1. Reset /\ IInvalidate /\ unsynced' = {}
  BY DEF ResetAll
<1>2. DInv' /\ ITypeOK' /\ \A c \in Block : IHitWays(c)' = {}
  BY <1>1, DropInv, InvalidateInv DEF MInv
<1>3. View' = memory'
  BY <1>1, <1>2, DropBuffered DEF MInv, Buffered!Invalidate, Buffered!Reset
<1>4. Coherent'
  BY <1>2, <1>3, PhysMemAssumption DEF Coherent, Backed
<1>. QED
  BY <1>1, <1>2, <1>4 DEF MInv

LEMMA InitCoherent == MInit => MInv
<1>. SUFFICES ASSUME MInit PROVE MInv
  OBVIOUS
<1>1. DInv /\ View = memory
  BY InitInv, InitBuffered DEF MInit, Buffered!Init
<1>2. ITypeOK
  BY DEF MInit, IInit, ITypeOK
<1>3. \A b \in Block : IHitWays(b) = {}
  BY SplitParts DEF MInit, IInit, IHitWays
<1>4. Coherent
  BY <1>1, <1>3, PhysMemAssumption DEF Coherent, Backed
<1>. QED
  BY <1>1, <1>2, <1>4 DEF MInv, MInit

LEMMA StepCoherent == MInv /\ [MNext]_mvars => MInv'
<1>. SUFFICES ASSUME MInv, [MNext]_mvars
              PROVE  MInv'
  OBVIOUS
<1>1. CASE UNCHANGED mvars
  <2>1. DInv' /\ ITypeOK' /\ UNCHANGED iline /\ \A c \in Block : IHitWays(c)' = IHitWays(c)
    BY <1>1, StepInv, UntouchedInv DEF mvars, MInv
  <2>2. UNCHANGED <<View, memory, unsynced>>
    BY <1>1 DEF mvars, dvars, View, Seen, HitWays
  <2>. QED
    BY <2>1, <2>2, PhysMemAssumption DEF MInv, Coherent, Backed
<1>. QED
  BY <1>1, FetchCoherent, ReadCoherent, WriteCoherent, CctlCoherent, ResetCoherent DEF MNext

LEMMA MemSysInvariant == MSpec => []MInv
BY InitCoherent, StepCoherent, PTL DEF MSpec

\* Coherent says it of every way that holds a block, so of the one a fetch uses.
LEMMA CoherentFetch == MInv => FetchSeesStores
<1>. SUFFICES ASSUME MInv, NEW b \in Backed \ unsynced
              PROVE  IView[b] = View[b]
  BY DEF FetchSeesStores
<1>1. b \in Block
  BY PhysMemAssumption DEF Backed
<1>2. IHit(b) => IWayFor(b) \in IHitWays(b)
  BY <1>1, IWayForWay DEF MInv
<1>. QED
  BY <1>2 DEF MInv, Coherent, IView

\* An instruction fetch sees every store that a completed cctl with both caches
\* came after, for every geometry of the two caches, which need not match.
THEOREM FetchesAreCoherent == MSpec => []FetchSeesStores
BY MemSysInvariant, CoherentFetch, PTL

\* Both caches and the memory behind them stay well typed; in particular no
\* lookup ever uses a way that does not exist.
THEOREM MTypeCorrect == MSpec => []MTypeOK
<1>1. MInv => MTypeOK
  BY DEF MInv, MTypeOK, DInv
<1>. QED
  BY <1>1, MemSysInvariant, PTL
=============================================================================

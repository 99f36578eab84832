-------------------------------- MODULE DCache --------------------------------
(***************************************************************************)
(* The simulator's data cache, sim/dcache.c: direct-mapped or two-way set  *)
(* associative, write-back, write-allocate, LRU replacement.               *)
(*                                                                         *)
(* Every action is one call of the C interface (dcacheReadXxx,             *)
(* dcacheWriteXxx, dcacheInvalidate, dcacheFlush, dcacheReset); an         *)
(* exception thrown inside the call (longjmp out of it) ends the action    *)
(* with the state changes made up to that point.                           *)
(***************************************************************************)
EXTENDS PhysMem, Integers

CONSTANTS
  Sets,         \* number of sets
  Assoc,        \* lines per set, 1 or 2
  Tag           \* upper address bits

ASSUME DCacheAssumption ==
  /\ Sets \in Nat \ {0}
  /\ Assoc \in {1, 2}
  /\ Block = Tag \X (0 .. Sets - 1)

VARIABLES
  line,         \* line[i][w]: way w of set i
  lru,          \* lru[i]: the way the next miss in set i replaces
  outcome       \* how the last call ended and what it returned

dvars == <<memory, line, lru, outcome>>

Index == 0 .. Sets - 1
Way == 0 .. Assoc - 1

CacheLine == [valid : BOOLEAN, dirty : BOOLEAN, tag : Tag, data : Line]

\* A call returns the positions it was asked to read (a store, a flush and an
\* invalidate return nothing) or throws a bus timeout.
Returned(d) == [kind |-> "returned", data |-> d]
Nothing == [o \in {} |-> o]
BusTimeout == [kind |-> "bus timeout", data |-> Nothing]

Outcome ==
  {Returned(d) : d \in UNION {[a -> Val] : a \in Access \cup {{}}}}
    \cup {BusTimeout}

DTypeOK ==
  /\ MemTypeOK
  /\ line \in [Index -> [Way -> CacheLine]]
  /\ lru \in [Index -> {0, 1}]
  /\ outcome \in Outcome

-------------------------------------------------------------------------------
(* Lookup *)

\* The address a line is written back to: its tag joined with its index.
BlockAt(i, w) == <<line[i][w].tag, i>>

\* (mutant) A lookup that forgets line_1.
HitWaysLine0(b) ==
  {w \in {0} : line[b[2]][w].valid /\ line[b[2]][w].tag = b[1]}

HitWays(b) ==
  {w \in Way : line[b[2]][w].valid /\ line[b[2]][w].tag = b[1]}

Hit(b) == HitWays(b) # {}

\* line_0 is looked up first; on a miss the lru way is the victim.
WayFor(b) ==
  IF Hit(b)
    THEN CHOOSE w \in HitWays(b) : \A x \in HitWays(b) : w <= x
    ELSE IF Assoc = 1 THEN 0 ELSE lru[b[2]]

\* (mutant) The valid bit is not looked at.
DirtyOnly(i, w) == line[i][w].dirty

NeedsWriteBack(i, w) == line[i][w].valid /\ line[i][w].dirty

-------------------------------------------------------------------------------
(* Loads and stores *)

\* (mutant) A store that forgets the dirty bit.
WrittenClean(l, v) ==
  [l EXCEPT !.data = [o \in Offset |-> IF o \in DOMAIN v THEN v[o] ELSE @[o]]]

\* The line after an access that writes the positions in DOMAIN v.
Written(l, v) ==
  [l EXCEPT !.dirty = @ \/ DOMAIN v # {},
            !.data = [o \in Offset |-> IF o \in DOMAIN v THEN v[o] ELSE @[o]]]

\* Memory after the write-back of a victim.
WrittenBack(i, w) ==
  IF NeedsWriteBack(i, w)
    THEN [memory EXCEPT ![BlockAt(i, w)] = line[i][w].data]
    ELSE memory

Select(d, a) == Returned([o \in a |-> d[o]])

\* getWordPtr finds the block in the cache.  The access reads the positions a
\* and writes v.
AccessHit(b, a, v) ==
  LET i == b[2]
      w == WayFor(b)
  IN /\ Hit(b)
     /\ lru' = [lru EXCEPT ![i] = 1 - w]
     /\ line' = [line EXCEPT ![i][w] = Written(@, v)]
     /\ outcome' = Select(line[i][w].data, a)
     /\ UNCHANGED memory

\* getWordPtr misses.  lru is switched first; a dirty victim is written back,
\* which throws unless it belongs to RAM ...
EvictFails(b) ==
  LET i == b[2]
      w == WayFor(b)
  IN /\ ~Hit(b)
     /\ NeedsWriteBack(i, w)
     /\ BlockAt(i, w) \notin Ram
     /\ lru' = [lru EXCEPT ![i] = 1 - w]
     /\ outcome' = BusTimeout
     /\ UNCHANGED <<memory, line>>

\* ... then the line is read, which throws if nothing backs the block.
AccessMiss(b, a, v) ==
  LET i == b[2]
      w == WayFor(b)
  IN /\ ~Hit(b)
     /\ NeedsWriteBack(i, w) => BlockAt(i, w) \in Ram
     /\ lru' = [lru EXCEPT ![i] = 1 - w]
     /\ memory' = WrittenBack(i, w)
     /\ IF b \in Backed
          THEN /\ line' = [line EXCEPT ![i][w] =
                    Written([valid |-> TRUE, dirty |-> FALSE,
                             tag |-> b[1], data |-> memory'[b]], v)]
               /\ outcome' = Select(memory'[b], a)
          ELSE /\ outcome' = BusTimeout
               /\ UNCHANGED line

DAccess(b, a, v) == AccessHit(b, a, v) \/ EvictFails(b) \/ AccessMiss(b, a, v)

\* dcacheReadWord, dcacheReadHalf, dcacheReadByte
Read(b, a) == DAccess(b, a, Nothing)

\* dcacheWriteWord, dcacheWriteHalf, dcacheWriteByte
Write(b, v) == DAccess(b, {}, v)

-------------------------------------------------------------------------------
(* Cache control *)

\* Lines are flushed in this order.
Before(i, w, j, x) == i < j \/ (i = j /\ w < x)

CannotFlush(i, w) == NeedsWriteBack(i, w) /\ BlockAt(i, w) \notin Ram

\* dcacheFlush reaches a line unless an earlier one threw.
Flushed(i, w) ==
  /\ NeedsWriteBack(i, w)
  /\ \A j \in Index, x \in Way :
       CannotFlush(j, x) => Before(i, w, j, x)

Flush ==
  /\ memory' = [b \in Backed |->
       IF \E w \in Way : BlockAt(b[2], w) = b /\ Flushed(b[2], w)
         THEN line[b[2]][CHOOSE w \in Way :
                           BlockAt(b[2], w) = b /\ Flushed(b[2], w)].data
         ELSE memory[b]]
  /\ line' = [i \in Index |-> [w \in Way |->
       [line[i][w] EXCEPT !.dirty = @ /\ ~Flushed(i, w)]]]
  /\ outcome' = IF \E i \in Index, w \in Way : CannotFlush(i, w)
                  THEN BusTimeout ELSE Returned(Nothing)
  /\ UNCHANGED lru

\* dcacheInvalidate drops every line, dirty ones included.
InvalidateLines ==
  /\ line' = [i \in Index |-> [w \in Way |-> [line[i][w] EXCEPT !.valid = FALSE]]]
  /\ lru' = [i \in Index |-> 0]

Invalidate ==
  /\ InvalidateLines
  /\ outcome' = Returned(Nothing)
  /\ UNCHANGED memory

\* The console's "i" command: ramReset and romReset, then dcacheReset.
Reset ==
  /\ MemReset
  /\ InvalidateLines
  /\ outcome' = Returned(Nothing)

-------------------------------------------------------------------------------
\* dcacheInit allocates the lines without initialising them and invalidates.
DInit ==
  /\ MemInit
  /\ line \in [Index -> [Way -> CacheLine]]
  /\ \A i \in Index, w \in Way : ~line[i][w].valid
  /\ lru = [i \in Index |-> 0]
  /\ outcome = Returned(Nothing)

DNext ==
  \/ \E b \in Block, a \in Access :
       \/ Read(b, a)
       \/ \E v \in [a -> Val] : Write(b, v)
  \/ Flush
  \/ Invalidate
  \/ Reset

DSpec == DInit /\ [][DNext]_dvars
-------------------------------------------------------------------------------
(* Safety *)

\* Safety: a block is in at most one line.  Two copies would let the copies
\* drift apart, as a hit only ever uses line_0 (dcache.c:102-127).
NoDuplicates ==
  \A i \in Index, w, x \in Way :
    /\ line[i][w].valid /\ line[i][x].valid
    /\ line[i][w].tag = line[i][x].tag
    => w = x

\* Safety: a valid line that is not dirty agrees with memory, so that dropping
\* it without write-back on replacement (dcache.c:144) loses nothing.
CleanLinesMatchMemory ==
  \A i \in Index, w \in Way :
    line[i][w].valid /\ ~line[i][w].dirty
      => line[i][w].data = memory[BlockAt(i, w)]

\* Safety: only backed blocks are cached, although the refill that throws does
\* so after the victim was chosen and written back (dcache.c:144-152).
OnlyBackedCached ==
  \A i \in Index, w \in Way :
    line[i][w].valid => BlockAt(i, w) \in Ram \cup Rom

-------------------------------------------------------------------------------
(* Refinement *)

\* What a load of block b would see: the cached line, else memory.
Seen(b, ways) ==
  IF ways = {} THEN memory[b] ELSE line[b[2]][CHOOSE w \in ways : TRUE].data
View == [b \in Backed |-> Seen(b, HitWays(b))]

\* ROM blocks with a dirty line.
RomStores ==
  {b \in Rom : \E w \in Way : NeedsWriteBack(b[2], w) /\ BlockAt(b[2], w) = b}

Buffered == INSTANCE BufferedMemory
              WITH view <- View, store <- memory, romStores <- RomStores

\* Refinement: whatever the geometry, the cache behaves as the buffered memory:
\* loads return the last store, write-backs and refills are invisible, and a
\* bus timeout changes nothing that can be loaded (all of dcache.c).
ImplementsBufferedMemory == Buffered!Spec
=============================================================================

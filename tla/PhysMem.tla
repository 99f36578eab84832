------------------------------- MODULE PhysMem -------------------------------
(***************************************************************************)
(* Physical memory of the ECO32 simulator (sim/ram.c, sim/rom.c) as the    *)
(* caches see it: it is read and written in whole cache lines.  A Block is *)
(* one line-sized, line-aligned piece of the physical address space.       *)
(*                                                                         *)
(* A block is backed by RAM, by ROM, or by nothing.  ramRead and ramWrite  *)
(* throw EXC_BUS_TIMEOUT on the first word of a block that is not backed   *)
(* (the installed sizes are multiples of the line size), so a transfer     *)
(* either happens completely or not at all; romWrite always throws.        *)
(***************************************************************************)
EXTENDS FiniteSets

CONSTANTS
  Block,        \* line-sized pieces of the physical address space
  Ram,          \* blocks backed by RAM
  Rom,          \* blocks backed by ROM
  Offset,       \* positions (bytes) within a line
  Val,          \* values one position can hold
  Access        \* the sets of positions one load or store covers

ASSUME PhysMemAssumption ==
  /\ Ram \subseteq Block
  /\ Rom \subseteq Block
  /\ Ram \cap Rom = {}
  /\ Access \subseteq (SUBSET Offset) \ {{}}

VARIABLE
  memory        \* contents of every backed block

\* Blocks ramRead and romRead do not throw for.
Backed == Ram \cup Rom

Line == [Offset -> Val]

MemTypeOK == memory \in [Backed -> Line]

\* After reset RAM holds rand() values and the program image, ROM its image.
MemInit == memory \in [Backed -> Line]

\* What ramReset and romReset leave: RAM is filled with new random values,
\* the ROM image is loaded again.
MemReset ==
  \E m \in [Ram -> Line] :
    memory' = [b \in Backed |-> IF b \in Ram THEN m[b] ELSE memory[b]]
=============================================================================

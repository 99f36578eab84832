------------------------------- MODULE MCDCache -------------------------------
(***************************************************************************)
(* A small data cache for TLC.  Tags name what backs their blocks: "a" and *)
(* "b" are RAM, "r" is ROM, "x" is a hole in the address space.  Blocks    *)
(* with different tags and the same index compete for one set.             *)
(***************************************************************************)
EXTENDS DCache

CONSTANTS RamTag, RomTag, HoleTag

MCTag == RamTag \cup RomTag \cup HoleTag
MCBlock == MCTag \X (0 .. Sets - 1)
MCRam == RamTag \X (0 .. Sets - 1)
MCRom == RomTag \X (0 .. Sets - 1)

\* A line is read and written one half at a time.
MCAccess == {{o} : o \in Offset}

\* The ROM image and the garbage in a line that was never filled do not vary,
\* its dirty bit and its tag do.
Fixed == [o \in Offset |-> CHOOSE v \in Val : TRUE]

MCInit ==
  /\ DInit
  /\ \A b \in Rom : memory[b] = Fixed
  /\ \A i \in Index, w \in Way : line[i][w].data = Fixed

MCSpec == MCInit /\ [][DNext]_dvars
=============================================================================

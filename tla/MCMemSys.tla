------------------------------- MODULE MCMemSys -------------------------------
(***************************************************************************)
(* Small caches of different geometry over one memory.  The blocks are     *)
(* named by the data cache's tag and index: "a" and "b" are RAM, "r" is    *)
(* ROM, "x" is a hole.                                                     *)
(***************************************************************************)
EXTENDS MemSys

CONSTANTS RamTag, RomTag, HoleTag

MCTag == RamTag \cup RomTag \cup HoleTag
MCBlock == MCTag \X (0 .. Sets - 1)
MCRam == RamTag \X (0 .. Sets - 1)
MCRom == RomTag \X (0 .. Sets - 1)
MCAccess == {Offset}

\* The instruction cache has a single set: the whole block number is the tag.
MCITag == MCBlock
MCISplit == [b \in MCBlock |-> <<b, 0>>]

\* The ROM image and the garbage in lines never filled do not vary.
Fixed == [o \in Offset |-> CHOOSE v \in Val : TRUE]

MCInit ==
  /\ MInit
  /\ \A b \in Rom : memory[b] = Fixed
  /\ \A i \in Index, w \in Way :
       line[i][w] = [valid |-> FALSE, dirty |-> FALSE, data |-> Fixed,
                     tag |-> CHOOSE t \in Tag : TRUE]
  /\ \A i \in IIndex, w \in IWay :
       iline[i][w] = [valid |-> FALSE, data |-> Fixed, tag |-> CHOOSE t \in ITag : TRUE]

MCSpec == MCInit /\ [][MNext]_mvars
=============================================================================

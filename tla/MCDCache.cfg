\* One two-way set of two-byte lines; two RAM blocks, a ROM block and a hole compete.
SPECIFICATION MCSpec
CONSTANTS
  Sets = 1
  Assoc = 2
  RamTag = {"a", "b"}
  RomTag = {"r"}
  HoleTag = {"x"}
  Offset = {0, 1}
  Val = {0, 1}
  Tag <- MCTag
  Block <- MCBlock
  Ram <- MCRam
  Rom <- MCRom
  Access <- MCAccess
INVARIANTS
  NoDuplicates
  CleanLinesMatchMemory
PROPERTY
  ImplementsBufferedMemory

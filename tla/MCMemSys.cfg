\* A direct-mapped data cache of one line, a two-way instruction cache of two.
SPECIFICATION MCSpec
CONSTANTS
  Sets = 1
  Assoc = 1
  ISets = 1
  IAssoc = 2
  RamTag = {"a", "b"}
  RomTag = {"r"}
  HoleTag = {"x"}
  Offset = {0}
  Val = {0, 1}
  Tag <- MCTag
  Block <- MCBlock
  Ram <- MCRam
  Rom <- MCRom
  Access <- MCAccess
  ITag <- MCITag
  ISplit <- MCISplit
INVARIANTS
  FetchSeesStores

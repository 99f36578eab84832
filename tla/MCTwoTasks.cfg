\* Code, data and an unmapped page of each task, and one outside of its page tables; two
\* values; an instruction in each of the first three pages.
SPECIFICATION OSpec
CONSTANTS
  TLB_SIZE = 3
  TLB_FIXED = 1
  UserPage = {Code, Data, Hole, Gap}
  SystemPage = {System}
  Frame <- Frames
  IoFrame = {IO}
  DirectFrame <- DirectFrames
  PowerOn <- Samples
  Code = Code
  Data = Data
  Hole = Hole
  Gap = Gap
  Outside = {Gap}
  System = System
  IO = IO
  ZeroFrame = ZeroFrame
  Val = {0, 1}
  Place = 3
  PageAt <- Pages
  Image <- Images
  Touched = {Code, Data, Hole, Gap}
  Hi <- HiValues
  Los <- LoValues
INVARIANTS
  NoPageTwice
  TlbIsCurrent
  NoMutualEviction
PROPERTIES
  ImplementsAddressSpaces
  InstructionsComplete

SPECIFICATION Spec
CONSTANTS
  NL <- Newline
  Programs <- AllPrograms
  Files <- AllFiles
  Blocks <- AllBlocks
  MaxStarts = 2
INVARIANTS
  Converges
  RegionsNested
CHECK_DEADLOCK FALSE

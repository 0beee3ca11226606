SPECIFICATION Spec
CONSTANTS
  Volumes <- MCVolumes
  BsuNum = 2
  Used <- MCUsed
  BlockSectors = 1
  LeafBlocks = 2
  HStart = 1
  Sizes = {1, 2, 4}
  Garbage = Garbage
  MaxLevels = 4
PROPERTY CommandsInPlace
VIEW WithoutCmd
